------------------------------ MODULE UiFormsProofs ------------------------------
(****************************************************************************)
(* Pollers that have looked have registered just what is enabled and parses,*)
(* and create no run on a workspace they found locked, for any number of    *)
(* pollers and any expressions.  The wizards create and import what their   *)
(* user chose, for any connections, workspaces, variables and collections,  *)
(* in whatever order their steps are walked.  A webhook that was saved has  *)
(* the triggers of the table, for any triggers and any number of edits.     *)
(****************************************************************************)
EXTENDS UiSchedules, UiWebhook, UiWizards, FiniteSetTheorems, SequenceTheorems, TLAPS

(* The schedule of a workspace.                                             *)
SchedulesSpec == SchedulesInit /\ [][SchedulesNext]_pageVars

SchedulesTypeOK ==
    /\ server = [cron |-> server.cron, enabled |-> server.enabled, locked |-> server.locked,
                 entries |-> server.entries, stale |-> server.stale, firing |-> server.firing,
                 lastJob |-> server.lastJob]
    /\ server.locked \in BOOLEAN
    /\ server.entries \in [Pollers -> SixFields \cup {None}]
    /\ server.firing \in [Pollers -> {None, "unlocked", "overtaken"}]

(* What a poller that has seen the table has registered.                    *)
SeenIsRegistered ==
    \A p \in Pollers \ server.stale :
        /\ server.entries[p] # None => Active
        /\ Active /\ Parses(server.cron) => server.entries[p] # None

(* A look that found the workspace unlocked is marked once it is locked.    *)
LockIsNoticed == server.locked => \A p \in Pollers : server.firing[p] # "unlocked"

SchedulesInv ==
    /\ SchedulesTypeOK /\ SeenIsRegistered /\ LockIsNoticed
    /\ server.lastJob \in {None, "overtaken"}
--------------------------------------------------------------------------------
LEMMA SchedulesInitInv == SchedulesInit => SchedulesInv
BY DEF SchedulesInit, SchedulesInv, SchedulesTypeOK, SeenIsRegistered, LockIsNoticed, None

(* Whoever writes the schedule makes every poller look again.               *)
LEMMA StoreInv ==
    ASSUME SchedulesInv, NEW cron, NEW enabled, Store(cron, enabled) PROVE SchedulesInv'
<1>1. /\ server'.locked = server.locked /\ server'.entries = server.entries
      /\ server'.stale = Pollers /\ server'.firing = server.firing
      /\ server'.lastJob = server.lastJob
      /\ server' = [cron |-> server'.cron, enabled |-> server'.enabled, locked |-> server'.locked,
                    entries |-> server'.entries, stale |-> server'.stale,
                    firing |-> server'.firing, lastJob |-> server'.lastJob]
  BY DEF Store, SchedulesInv, SchedulesTypeOK
<1>2. SeenIsRegistered'
  BY <1>1 DEF SeenIsRegistered
<1> QED
  BY <1>1, <1>2 DEF SchedulesInv, SchedulesTypeOK, LockIsNoticed

(* What the user does in the modal writes nothing before it is answered.    *)
LEMMA PageInv == ASSUME SchedulesInv, UNCHANGED server PROVE SchedulesInv'
BY DEF SchedulesInv, SchedulesTypeOK, SeenIsRegistered, LockIsNoticed, Active, Exists, Parses

(* A lock that comes between look and INSERT overtakes the run.             *)
LEMMA LockChangesInv == ASSUME SchedulesInv, LockChanges PROVE SchedulesInv'
<1> DEFINE firing == [p \in Pollers |-> IF server.firing[p] = None THEN None ELSE "overtaken"]
<1>1. /\ server'.locked \in BOOLEAN /\ server'.firing = firing
      /\ server'.cron = server.cron /\ server'.enabled = server.enabled
      /\ server'.entries = server.entries /\ server'.stale = server.stale
      /\ server'.lastJob = server.lastJob
      /\ server' = [cron |-> server'.cron, enabled |-> server'.enabled, locked |-> server'.locked,
                    entries |-> server'.entries, stale |-> server'.stale,
                    firing |-> server'.firing, lastJob |-> server'.lastJob]
  BY DEF LockChanges, SchedulesInv, SchedulesTypeOK
<1>2. firing \in [Pollers -> {None, "overtaken"}]
  OBVIOUS
<1>3. LockIsNoticed'
  BY <1>1, <1>2 DEF LockIsNoticed, None
<1>4. SeenIsRegistered'
  BY <1>1 DEF SchedulesInv, SeenIsRegistered, Active, Exists, Parses
<1> QED
  BY <1>1, <1>2, <1>3, <1>4 DEF SchedulesInv, SchedulesTypeOK

(* A poller registers, keeps or drops its entry as the row says.            *)
LEMMA SyncSchedulesInv == ASSUME SchedulesInv, NEW p \in Pollers, SyncSchedules(p) PROVE SchedulesInv'
<1>1. /\ server'.entries = [server.entries EXCEPT ![p] = Registered(@)]
      /\ server'.stale = server.stale \ {p}
      /\ server'.cron = server.cron /\ server'.enabled = server.enabled
      /\ server'.locked = server.locked /\ server'.firing = server.firing
      /\ server'.lastJob = server.lastJob
      /\ server' = [cron |-> server'.cron, enabled |-> server'.enabled, locked |-> server'.locked,
                    entries |-> server'.entries, stale |-> server'.stale,
                    firing |-> server'.firing, lastJob |-> server'.lastJob]
  BY DEF SyncSchedules, SchedulesInv, SchedulesTypeOK
<1>2. Registered(server.entries[p]) \in SixFields \cup {None}
  BY DEF SchedulesInv, SchedulesTypeOK, Registered, Parses
<1>3. /\ server'.entries \in [Pollers -> SixFields \cup {None}]
      /\ server'.entries[p] = Registered(server.entries[p])
      /\ \A q \in Pollers \ {p} : server'.entries[q] = server.entries[q]
  BY <1>1, <1>2 DEF SchedulesInv, SchedulesTypeOK
<1>4. (Active' <=> Active) /\ (Parses(server.cron)' <=> Parses(server.cron))
  BY <1>1 DEF Active, Exists, Parses
<1>5. /\ server'.entries[p] # None => Active
      /\ Active /\ Parses(server.cron) => server'.entries[p] # None
  BY <1>3 DEF Registered, Active, Exists
<1>6. SeenIsRegistered'
  BY <1>1, <1>3, <1>4, <1>5 DEF SchedulesInv, SeenIsRegistered
<1> QED
  BY <1>1, <1>3, <1>6 DEF SchedulesInv, SchedulesTypeOK, LockIsNoticed

(* A restarted poller knows nothing and has not looked.                     *)
LEMMA RestartInv == ASSUME SchedulesInv, NEW p \in Pollers, Restart(p) PROVE SchedulesInv'
<1>1. /\ server'.entries = [server.entries EXCEPT ![p] = None]
      /\ server'.firing = [server.firing EXCEPT ![p] = None]
      /\ server'.stale = server.stale \cup {p}
      /\ server'.cron = server.cron /\ server'.enabled = server.enabled
      /\ server'.locked = server.locked /\ server'.lastJob = server.lastJob
      /\ server' = [cron |-> server'.cron, enabled |-> server'.enabled, locked |-> server'.locked,
                    entries |-> server'.entries, stale |-> server'.stale,
                    firing |-> server'.firing, lastJob |-> server'.lastJob]
  BY DEF Restart, SchedulesInv, SchedulesTypeOK
<1>2. /\ server'.entries \in [Pollers -> SixFields \cup {None}]
      /\ \A q \in Pollers \ {p} : server'.entries[q] = server.entries[q]
      /\ server'.firing \in [Pollers -> {None, "unlocked", "overtaken"}]
      /\ \A q \in Pollers : server'.firing[q] \in {None, server.firing[q]}
  BY <1>1 DEF SchedulesInv, SchedulesTypeOK
<1>3. SeenIsRegistered'
  BY <1>1, <1>2 DEF SchedulesInv, SeenIsRegistered, Active, Exists, Parses
<1>4. LockIsNoticed'
  BY <1>1, <1>2 DEF SchedulesInv, LockIsNoticed, None
<1> QED
  BY <1>1, <1>2, <1>3, <1>4 DEF SchedulesInv, SchedulesTypeOK

(* A look finds the workspace unlocked, or the schedule does not fire.      *)
LEMMA TriggerInv == ASSUME SchedulesInv, NEW p \in Pollers, Trigger(p) PROVE SchedulesInv'
<1>1. /\ server'.firing = [server.firing EXCEPT ![p] = "unlocked"]
      /\ server'.entries = server.entries /\ server'.stale = server.stale
      /\ server'.cron = server.cron /\ server'.enabled = server.enabled
      /\ server'.locked = server.locked /\ server'.lastJob = server.lastJob
      /\ server' = [cron |-> server'.cron, enabled |-> server'.enabled, locked |-> server'.locked,
                    entries |-> server'.entries, stale |-> server'.stale,
                    firing |-> server'.firing, lastJob |-> server'.lastJob]
  BY DEF Trigger, SchedulesInv, SchedulesTypeOK
<1>2. server'.firing \in [Pollers -> {None, "unlocked", "overtaken"}]
  BY <1>1 DEF SchedulesInv, SchedulesTypeOK
<1>3. SeenIsRegistered'
  BY <1>1 DEF SchedulesInv, SeenIsRegistered, Active, Exists, Parses
<1>4. LockIsNoticed'
  BY <1>1 DEF Trigger, LockIsNoticed
<1> QED
  BY <1>1, <1>2, <1>3, <1>4 DEF SchedulesInv, SchedulesTypeOK

(* An INSERT on a locked workspace is one that the lock has overtaken.      *)
LEMMA CreateJobInv == ASSUME SchedulesInv, NEW p \in Pollers, CreateJob(p) PROVE SchedulesInv'
<1>1. /\ server'.firing = [server.firing EXCEPT ![p] = None]
      /\ server'.lastJob = IF server.locked THEN server.firing[p] ELSE None
      /\ server'.entries = server.entries /\ server'.stale = server.stale
      /\ server'.cron = server.cron /\ server'.enabled = server.enabled
      /\ server'.locked = server.locked
      /\ server' = [cron |-> server'.cron, enabled |-> server'.enabled, locked |-> server'.locked,
                    entries |-> server'.entries, stale |-> server'.stale,
                    firing |-> server'.firing, lastJob |-> server'.lastJob]
  BY DEF CreateJob, SchedulesInv, SchedulesTypeOK
<1>2. /\ server'.firing \in [Pollers -> {None, "unlocked", "overtaken"}]
      /\ \A q \in Pollers : server'.firing[q] \in {None, server.firing[q]}
  BY <1>1 DEF SchedulesInv, SchedulesTypeOK
<1>3. server'.lastJob \in {None, "overtaken"}
  BY <1>1 DEF SchedulesInv, SchedulesTypeOK, LockIsNoticed
<1>4. SeenIsRegistered'
  BY <1>1 DEF SchedulesInv, SeenIsRegistered, Active, Exists, Parses
<1>5. LockIsNoticed'
  BY <1>1, <1>2 DEF SchedulesInv, LockIsNoticed, None
<1> QED
  BY <1>1, <1>2, <1>3, <1>4, <1>5 DEF SchedulesInv, SchedulesTypeOK
--------------------------------------------------------------------------------
LEMMA SchedulesStepInv == SchedulesInv /\ [SchedulesNext]_pageVars => SchedulesInv'
<1> SUFFICES ASSUME SchedulesInv, [SchedulesNext]_pageVars PROVE SchedulesInv'
  OBVIOUS
<1>1. CASE TableArrives \/ Open("create") \/ Open("edit") \/ SetValue \/ OnCancel \/ OnOk \/ SaveFails
  BY <1>1, PageInv DEF TableArrives, Open, SetValue, OnCancel, OnOk, SaveFails
<1>2. CASE SaveAnswered \/ DeleteSchedule \/ OthersWrite
  BY <1>2, StoreInv, PageInv DEF SaveAnswered, DeleteSchedule, OthersWrite
<1>3. CASE LockChanges
  BY <1>3, LockChangesInv
<1>4. ASSUME NEW p \in Pollers, SyncSchedules(p) \/ Restart(p) \/ Trigger(p) \/ CreateJob(p)
      PROVE  SchedulesInv'
  BY <1>4, SyncSchedulesInv, RestartInv, TriggerInv, CreateJobInv
<1>5. CASE UNCHANGED pageVars
  BY <1>5, PageInv DEF pageVars
<1> QED
  BY <1>1, <1>2, <1>3, <1>4, <1>5 DEF SchedulesNext

(* The invariant holds of every state that page and pollers can reach.      *)
THEOREM SchedulesInvariant == SchedulesSpec => []SchedulesInv
BY SchedulesInitInv, SchedulesStepInv, PTL DEF SchedulesSpec

(* syncSchedules, triggerScheduledJob: a poller that has seen the schedule  *)
(* as it is has registered it if it is enabled and parses, and only then;   *)
(* and no run begins on a workspace that its poller saw locked.             *)
THEOREM EntriesFollow == SchedulesSpec => []EntriesFollowSchedules
<1>1. SchedulesInv => EntriesFollowSchedules
  BY DEF SchedulesInv, SchedulesTypeOK, SeenIsRegistered, EntriesFollowSchedules, Parses
<1> QED
  BY <1>1, SchedulesInvariant, PTL
--------------------------------------------------------------------------------
(* The wizard that creates a workspace.  What its form holds was set by the *)
(* last choice that sets it, whatever was clicked in between.               *)

CreatePage ==
    [kind : {"create"}, initial : {"pending", "loaded", "failed"}, current : Nat,
     versionControlFlow : BOOLEAN, shown : SUBSET {"repository", "settings"},
     iacType : Create!IacTypes, versionLoads : SUBSET Create!IacTypes,
     version : Create!IacTypes \cup {None}, overtaken : BOOLEAN,
     vcsId : Connections \cup {None}, chosen : Connections \cup {None, "git"},
     sshKeysVisible : BOOLEAN, sshKey : BOOLEAN, card : {None, "version control", "cli"},
     source : {None, "empty", "url"}, executionMode : {None, "local"}, requiredVcsPush : BOOLEAN]

(* The version is that of the tool, unless versions are on their way or the *)
(* answer came after the next choice; "empty" is the CLI flow's source; and *)
(* the connection and the key are those of the buttons pressed.             *)
HoldsChoices(p) ==
    /\ ~ p.overtaken /\ p.versionLoads = {} => p.version \in {None, p.iacType}
    /\ p.source = "empty" => p.card = "cli" /\ p.executionMode = "local"
    /\ p.chosen \in Connections => p.vcsId = p.chosen
    /\ p.chosen = None => p.vcsId = None /\ ~ p.sshKeysVisible /\ ~ p.sshKey

CreateInv ==
    /\ On("create") \/ On("created") \/ On("left")
    /\ On("create") => page \in CreatePage /\ HoldsChoices(page)
    /\ Create!CreatedAsChosen

(* A page of this type is the record of its fields.                         *)
LEMMA CreatePageShape ==
    ASSUME NEW p \in CreatePage
    PROVE  p = [kind |-> p.kind, initial |-> p.initial, current |-> p.current,
                versionControlFlow |-> p.versionControlFlow, shown |-> p.shown,
                iacType |-> p.iacType, versionLoads |-> p.versionLoads, version
                |-> p.version, overtaken |-> p.overtaken, vcsId |-> p.vcsId,
                chosen |-> p.chosen, sshKeysVisible |-> p.sshKeysVisible, sshKey
                |-> p.sshKey, card |-> p.card, source |-> p.source,
                executionMode |-> p.executionMode, requiredVcsPush |->
                p.requiredVcsPush]
BY DEF CreatePage

LEMMA CreateInitInv == Create!CreateInit => CreateInv
<1> SUFFICES ASSUME Create!CreateInit PROVE CreateInv
  OBVIOUS
<1>1. page \in CreatePage
  BY DEF Create!CreateInit, CreatePage, Create!IacTypes, Create!None, None
<1>2. HoldsChoices(page)
  BY WizardsAssumption DEF Create!CreateInit, HoldsChoices, Create!None, None
<1>3. page.kind # "created"
  BY DEF Create!CreateInit
<1> QED
  BY <1>1, <1>2, <1>3 DEF CreateInv, CreatePage, On, Create!CreatedAsChosen, Create!On

LEMMA VersionsInv ==
    ASSUME page \in CreatePage, HoldsChoices(page),
           \/ Create!InitialArrives
           \/ \E type \in page.versionLoads : Create!VersionsArrive(type)
    PROVE  page' \in CreatePage /\ HoldsChoices(page')
<1>1. CASE Create!InitialArrives
  <2> DEFINE late == page.iacType # "terraform"
  <2>1. CASE page' = [page EXCEPT !.initial = "loaded", !.version = "terraform",
                                  !.overtaken = late]
    <3>1. late \in BOOLEAN /\ (~ late => page.iacType = "terraform")
      OBVIOUS
    <3> HIDE DEF late
    <3>2. page' \in CreatePage
      BY <2>1, <3>1 DEF CreatePage, Create!IacTypes
    <3> QED
      BY <2>1, <3>1, <3>2, CreatePageShape DEF HoldsChoices
  <2>2. CASE page' = [page EXCEPT !.initial = "failed"]
    <3>1. page' \in CreatePage
      BY <2>2 DEF CreatePage
    <3> QED
      BY <2>2, <3>1, CreatePageShape DEF HoldsChoices
  <2> QED
    BY <1>1, <2>1, <2>2 DEF Create!InitialArrives, Create!Change
<1>2. ASSUME NEW type \in page.versionLoads, Create!VersionsArrive(type)
      PROVE  page' \in CreatePage /\ HoldsChoices(page')
  <2> DEFINE loads == page.versionLoads \ {type}
             late == type # page.iacType
  <2>1. type \in Create!IacTypes /\ loads \in SUBSET Create!IacTypes
    BY DEF CreatePage
  <2>2. CASE page' = [page EXCEPT !.versionLoads = loads, !.version = type,
                                  !.overtaken = late]
    <3>1. late \in BOOLEAN /\ (~ late => page.iacType = type)
      OBVIOUS
    <3> HIDE DEF loads, late
    <3>2. page' \in CreatePage
      BY <2>1, <2>2, <3>1 DEF CreatePage
    <3> QED
      BY <2>2, <3>1, <3>2, CreatePageShape DEF HoldsChoices
  <2>3. CASE page' = [page EXCEPT !.versionLoads = loads, !.overtaken = TRUE]
    <3> HIDE DEF loads
    <3>1. page' \in CreatePage
      BY <2>1, <2>3 DEF CreatePage
    <3> QED
      BY <2>3, <3>1, CreatePageShape DEF HoldsChoices
  <2> QED
    BY <1>2, <2>2, <2>3 DEF Create!VersionsArrive, Create!Change
<1> QED
  BY <1>1, <1>2

LEMMA FlowClicksInv ==
    ASSUME page \in CreatePage, HoldsChoices(page),
           Create!HandleIacTypeClick \/ Create!HandleClick \/ Create!HandleCliDriven
    PROVE  page' \in CreatePage /\ HoldsChoices(page')
<1>1. CASE Create!HandleIacTypeClick
  <2>1. PICK type \in Create!IacTypes :
          page' = [page EXCEPT !.current = 1, !.iacType = type,
                               !.versionLoads = page.versionLoads \cup {type}]
    BY <1>1 DEF Create!HandleIacTypeClick, Create!Change
  <2>2. page' \in CreatePage
    BY <2>1 DEF CreatePage
  <2> QED
    BY <2>1, <2>2, CreatePageShape DEF HoldsChoices
<1>2. CASE Create!HandleClick
  <2>1. page' = [page EXCEPT !.current = 2, !.versionControlFlow = TRUE, !.source = None,
                             !.card = "version control"]
    BY <1>2 DEF Create!HandleClick, Create!Change, Create!None, None
  <2>2. page' \in CreatePage
    BY <2>1 DEF CreatePage
  <2> QED
    BY <2>1, <2>2, CreatePageShape DEF HoldsChoices, None
<1>3. CASE Create!HandleCliDriven
  <2>1. page' = [page EXCEPT !.current = 2, !.versionControlFlow = FALSE,
                             !.shown = page.shown \cup {"settings"}, !.sshKeysVisible = FALSE,
                             !.requiredVcsPush = FALSE, !.executionMode = "local",
                             !.source = "empty", !.card = "cli"]
    BY <1>3 DEF Create!HandleCliDriven, Create!Change
  <2>2. page' \in CreatePage
    BY <2>1 DEF CreatePage
  <2> QED
    BY <2>1, <2>2, CreatePageShape DEF HoldsChoices
<1> QED
  BY <1>1, <1>2, <1>3

LEMMA ConnectionClickInv ==
    ASSUME page \in CreatePage, HoldsChoices(page),
           NEW id \in Connections \cup {"git"}, Create!HandleGitClick(id)
    PROVE  page' \in CreatePage /\ HoldsChoices(page')
<1>1. CASE id = "git"
  <2>1. page' = [page EXCEPT !.sshKeysVisible = TRUE, !.vcsId = page.vcsId, !.chosen = "git",
                             !.current = 3, !.requiredVcsPush = TRUE,
                             !.shown = page.shown \cup {"repository"}]
    BY <1>1 DEF Create!HandleGitClick, Create!Change
  <2>2. page' \in CreatePage
    BY <2>1 DEF CreatePage
  <2> QED
    BY <2>1, <2>2, CreatePageShape, WizardsAssumption DEF HoldsChoices, None
<1>2. CASE id # "git"
  <2>1. page' = [page EXCEPT !.sshKeysVisible = FALSE, !.vcsId = id, !.chosen = id,
                             !.current = 3, !.requiredVcsPush = TRUE,
                             !.shown = page.shown \cup {"repository"}]
    BY <1>2 DEF Create!HandleGitClick, Create!Change
  <2>2. page' \in CreatePage
    <3>1. id \in Connections
      BY <1>2
    <3> QED
      BY <2>1, <3>1 DEF CreatePage
  <2> QED
    BY <1>2, <2>1, <2>2, CreatePageShape, WizardsAssumption DEF HoldsChoices, None
<1> QED
  BY <1>1, <1>2

LEMMA CreateStepBarInv ==
    ASSUME page \in CreatePage, HoldsChoices(page),
           NEW step \in 0 .. 4, Create!HandleChange(step)
    PROVE  page' \in CreatePage /\ HoldsChoices(page')
<1>1. PICK shown \in SUBSET {"repository", "settings"}, versionControlFlow \in BOOLEAN :
        page' = [page EXCEPT !.current = step, !.shown = shown,
                             !.versionControlFlow = versionControlFlow]
  <2>1. CASE step = 3
    BY <2>1 DEF Create!HandleChange, Create!Change, CreatePage
  <2>2. CASE step = 4
    BY <2>2 DEF Create!HandleChange, Create!Change, CreatePage
  <2>3. CASE step \notin {3, 4}
    BY <2>3 DEF Create!HandleChange, Create!Change, CreatePage
  <2> QED
    BY <2>1, <2>2, <2>3
<1>2. page' \in CreatePage
  <2>1. step \in Nat
    OBVIOUS
  <2> QED
    BY <1>1, <2>1 DEF CreatePage
<1> QED
  BY <1>1, <1>2, CreatePageShape DEF HoldsChoices

LEMMA CreateFormInv ==
    ASSUME page \in CreatePage, HoldsChoices(page),
           Create!TypeSource \/ Create!HandleGitContinueClick \/ Create!SelectSshKey
    PROVE  page' \in CreatePage /\ HoldsChoices(page')
<1>1. CASE Create!TypeSource
  <2>1. page' = [page EXCEPT !.source = "url"]
    BY <1>1 DEF Create!TypeSource, Create!Change
  <2>2. page' \in CreatePage
    BY <2>1 DEF CreatePage
  <2> QED
    BY <2>1, <2>2, CreatePageShape DEF HoldsChoices
<1>2. CASE Create!HandleGitContinueClick
  <2>1. page' = [page EXCEPT !.current = 3,
                             !.shown = (page.shown \ {"repository"}) \cup {"settings"}]
    BY <1>2 DEF Create!HandleGitContinueClick, Create!Change
  <2>2. page' \in CreatePage
    BY <2>1 DEF CreatePage
  <2> QED
    BY <2>1, <2>2, CreatePageShape DEF HoldsChoices
<1>3. CASE Create!SelectSshKey
  <2>1. page' = [page EXCEPT !.sshKey = TRUE] /\ page.sshKeysVisible
    BY <1>3 DEF Create!SelectSshKey, Create!Change
  <2>2. page' \in CreatePage
    BY <2>1 DEF CreatePage
  <2> QED
    BY <2>1, <2>2, CreatePageShape DEF HoldsChoices
<1> QED
  BY <1>1, <1>2, <1>3

(* The request takes what the form holds.                                   *)
LEMMA CreateOnFinishInv ==
    ASSUME page \in CreatePage, HoldsChoices(page), Create!OnFinish
    PROVE  page'.kind = "created" /\ Create!CreatedAsChosen'
<1>1. /\ server' = [iacType |-> page.iacType, version |-> page.version, source |-> page.source,
                    executionMode |-> page.executionMode, vcs |-> page.vcsId, ssh |-> page.sshKey,
                    card |-> page.card, chosen |-> page.chosen,
                    overtaken |-> page.overtaken \/ page.versionLoads # {}]
      /\ page' = [kind |-> "created"] /\ page.version # None
  BY DEF Create!OnFinish, Create!Valid, Create!None, None
<1>2. ~ server'.overtaken => server'.version = server'.iacType
  BY <1>1, CreatePageShape DEF HoldsChoices
<1> QED
  BY <1>1, <1>2, CreatePageShape DEF HoldsChoices, Create!CreatedAsChosen, Create!None, None

LEMMA CreateStepInv == CreateInv /\ Create!CreateNext => CreateInv'
<1> SUFFICES ASSUME CreateInv, Create!CreateNext PROVE CreateInv'
  OBVIOUS
<1>1. On("create") /\ page \in CreatePage /\ HoldsChoices(page)
  BY DEF CreateInv, Create!CreateNext, Create!On, On
<1>2. ASSUME page' \in CreatePage, HoldsChoices(page') PROVE CreateInv'
  BY <1>2 DEF CreateInv, CreatePage, On, Create!CreatedAsChosen, Create!On
<1>3. CASE \/ Create!InitialArrives
           \/ \E type \in page.versionLoads : Create!VersionsArrive(type)
  BY <1>1, <1>2, <1>3, VersionsInv
<1>4. CASE Create!HandleIacTypeClick \/ Create!HandleClick \/ Create!HandleCliDriven
  BY <1>1, <1>2, <1>4, FlowClicksInv
<1>5. CASE \E id \in Connections \cup {"git"} : Create!HandleGitClick(id)
  BY <1>1, <1>2, <1>5, ConnectionClickInv
<1>6. CASE Create!HandleVCSClick
  BY <1>6 DEF Create!HandleVCSClick, Create!Change, Create!Elsewhere, CreateInv, On,
              Create!CreatedAsChosen, Create!On
<1>7. CASE Create!TypeSource \/ Create!HandleGitContinueClick \/ Create!SelectSshKey
  BY <1>1, <1>2, <1>7, CreateFormInv
<1>8. CASE Create!OnFinish
  BY <1>1, <1>8, CreateOnFinishInv DEF CreateInv, On
<1>9. CASE \E step \in 0 .. 4 : Create!HandleChange(step)
  BY <1>1, <1>2, <1>9, CreateStepBarInv
<1> QED
  BY <1>3, <1>4, <1>5, <1>6, <1>7, <1>8, <1>9 DEF Create!CreateNext
--------------------------------------------------------------------------------
(* The wizard that publishes a module.                                      *)
ModuleCreatePage ==
    [kind : {"createModule"}, current : Nat, shown : SUBSET {"repository", "module"},
     connections : BOOLEAN, keys : BOOLEAN, vcsButtonsVisible : BOOLEAN,
     vcsId : Connections \cup {None}, chosen : Seq(Connections \cup {"git"}),
     sshKeysVisible : BOOLEAN, sshKey : BOOLEAN,
     source : ModuleCreate!Sources \cup {None}, name : {None, "derived", "typed"}]

(* Of the buttons pressed, id was the last but for git; git was pressed.    *)
LastConnection(id, chosen) ==
    \E k \in DOMAIN chosen :
        chosen[k] = id /\ \A l \in k + 1 .. Len(chosen) : chosen[l] = "git"
GitChosen(chosen) == \E k \in DOMAIN chosen : chosen[k] = "git"
OnlyGitChosen(chosen) == \A k \in DOMAIN chosen : chosen[k] = "git"

(* The form has the last connection, and a key only once git was pressed.   *)
HoldsConnection(p) ==
    /\ p.vcsId \in Connections => LastConnection(p.vcsId, p.chosen)
    /\ p.vcsId = None => OnlyGitChosen(p.chosen)
    /\ p.sshKeysVisible \/ p.sshKey => GitChosen(p.chosen)

ModuleCreateInv ==
    /\ On("createModule") \/ On("moduleCreated") \/ On("left")
    /\ On("createModule") => page \in ModuleCreatePage /\ HoldsConnection(page)
    /\ ModuleCreate!ModuleAsChosen

(* A page of this type is the record of its fields.                         *)
LEMMA ModuleCreatePageShape ==
    ASSUME NEW p \in ModuleCreatePage
    PROVE  p = [kind |-> p.kind, current |-> p.current, shown |-> p.shown,
                connections |-> p.connections, keys |-> p.keys,
                vcsButtonsVisible |-> p.vcsButtonsVisible, vcsId |-> p.vcsId,
                chosen |-> p.chosen, sshKeysVisible |-> p.sshKeysVisible,
                sshKey |-> p.sshKey, source |-> p.source, name |-> p.name]
BY DEF ModuleCreatePage

(* One more press.                                                          *)
LEMMA AnotherChoice ==
    ASSUME NEW S, NEW chosen \in Seq(S), NEW id \in S
    PROVE  /\ Append(chosen, id) \in Seq(S)
           /\ LastConnection(id, Append(chosen, id))
           /\ id = "git" =>
                /\ GitChosen(Append(chosen, id))
                /\ OnlyGitChosen(chosen) => OnlyGitChosen(Append(chosen, id))
                /\ \A c : LastConnection(c, chosen) => LastConnection(c, Append(chosen, id))
           /\ GitChosen(chosen) => GitChosen(Append(chosen, id))
<1> DEFINE more == Append(chosen, id)
<1>1. /\ more \in Seq(S) /\ Len(more) = Len(chosen) + 1 /\ Len(chosen) \in Nat
      /\ DOMAIN more = 1 .. Len(chosen) + 1 /\ DOMAIN chosen = 1 .. Len(chosen)
      /\ more[Len(chosen) + 1] = id
      /\ \A k \in DOMAIN chosen : more[k] = chosen[k]
  OBVIOUS
<1> HIDE DEF more
<1>2. LastConnection(id, more)
  <2>1. /\ Len(chosen) + 1 \in DOMAIN more /\ more[Len(chosen) + 1] = id
        /\ \A l \in Len(chosen) + 2 .. Len(more) : more[l] = "git"
    BY <1>1
  <2> QED
    BY <1>1, <2>1 DEF LastConnection
<1>3. GitChosen(chosen) => GitChosen(more)
  BY <1>1 DEF GitChosen
<1>4. ASSUME id = "git" PROVE GitChosen(more) /\ (OnlyGitChosen(chosen) => OnlyGitChosen(more))
  BY <1>1, <1>4 DEF GitChosen, OnlyGitChosen
<1>5. ASSUME id = "git", NEW c, LastConnection(c, chosen) PROVE LastConnection(c, more)
  <2>1. PICK k \in DOMAIN chosen :
          chosen[k] = c /\ \A l \in k + 1 .. Len(chosen) : chosen[l] = "git"
    BY <1>5 DEF LastConnection
  <2>2. k \in DOMAIN more /\ more[k] = c
    BY <1>1, <2>1
  <2>3. ASSUME NEW l \in k + 1 .. Len(more) PROVE more[l] = "git"
    BY <1>1, <1>5, <2>1
  <2> QED
    BY <2>2, <2>3 DEF LastConnection
<1> QED
  BY <1>1, <1>2, <1>3, <1>4, <1>5 DEF more

LEMMA ModuleCreateInitInv == ModuleCreate!ModuleCreateInit => ModuleCreateInv
<1> SUFFICES ASSUME ModuleCreate!ModuleCreateInit PROVE ModuleCreateInv
  OBVIOUS
<1>1. page = [kind |-> "createModule", current |-> 0, shown |-> {}, connections |-> FALSE,
              keys |-> FALSE, vcsButtonsVisible |-> TRUE, vcsId |-> None, chosen |-> <<>>,
              sshKeysVisible |-> FALSE, sshKey |-> FALSE, source |-> None, name |-> None]
  BY DEF ModuleCreate!ModuleCreateInit, ModuleCreate!None, None
<1>2. page \in ModuleCreatePage
  BY <1>1 DEF ModuleCreatePage
<1>3. HoldsConnection(page)
  BY <1>1, WizardsAssumption DEF HoldsConnection, OnlyGitChosen, None
<1> QED
  BY <1>1, <1>2, <1>3 DEF ModuleCreateInv, On, ModuleCreate!ModuleAsChosen, ModuleCreate!On

(* What is not about the connection.                                        *)
LEMMA ModuleFormInv ==
    ASSUME page \in ModuleCreatePage, HoldsConnection(page),
           \/ ModuleCreate!LoadVCSProviders \/ ModuleCreate!LoadSSHKeys
           \/ ModuleCreate!OtherButtons \/ ModuleCreate!TypeSource
           \/ ModuleCreate!HandleGitContinueClick \/ ModuleCreate!TypeName
    PROVE  page' \in ModuleCreatePage /\ HoldsConnection(page')
<1>1. ASSUME page' \in ModuleCreatePage,
             UNCHANGED <<page.vcsId, page.chosen, page.sshKeysVisible, page.sshKey>>
      PROVE  page' \in ModuleCreatePage /\ HoldsConnection(page')
  BY <1>1 DEF HoldsConnection
<1>2. CASE ModuleCreate!LoadVCSProviders
  <2>1. page' = [page EXCEPT !.connections = TRUE]
    BY <1>2 DEF ModuleCreate!LoadVCSProviders, ModuleCreate!Change
  <2>2. page' \in ModuleCreatePage
    BY <2>1 DEF ModuleCreatePage
  <2> QED
    BY <1>1, <2>1, <2>2, ModuleCreatePageShape
<1>3. CASE ModuleCreate!LoadSSHKeys
  <2>1. page' = [page EXCEPT !.keys = TRUE]
    BY <1>3 DEF ModuleCreate!LoadSSHKeys, ModuleCreate!Change
  <2>2. page' \in ModuleCreatePage
    BY <2>1 DEF ModuleCreatePage
  <2> QED
    BY <1>1, <2>1, <2>2, ModuleCreatePageShape
<1>4. CASE ModuleCreate!OtherButtons
  <2>1. PICK visible \in BOOLEAN : page' = [page EXCEPT !.vcsButtonsVisible = visible]
    BY <1>4 DEF ModuleCreate!OtherButtons, ModuleCreate!Change
  <2>2. page' \in ModuleCreatePage
    BY <2>1 DEF ModuleCreatePage
  <2> QED
    BY <1>1, <2>1, <2>2, ModuleCreatePageShape
<1>5. CASE ModuleCreate!TypeSource
  <2>1. PICK source \in ModuleCreate!Sources : page' = [page EXCEPT !.source = source]
    BY <1>5 DEF ModuleCreate!TypeSource, ModuleCreate!Change
  <2>2. page' \in ModuleCreatePage
    BY <2>1 DEF ModuleCreatePage
  <2> QED
    BY <1>1, <2>1, <2>2, ModuleCreatePageShape
<1>6. CASE ModuleCreate!HandleGitContinueClick
  <2>1. PICK name \in {None, "derived", "typed"} :
          page' = [page EXCEPT !.current = 2,
                               !.shown = (page.shown \ {"repository"}) \cup {"module"},
                               !.name = name]
    <3>1. page.name \in {None, "derived", "typed"}
      BY DEF ModuleCreatePage
    <3> QED
      BY <1>6, <3>1 DEF ModuleCreate!HandleGitContinueClick, ModuleCreate!Change
  <2>2. page' \in ModuleCreatePage
    BY <2>1 DEF ModuleCreatePage
  <2> QED
    BY <1>1, <2>1, <2>2, ModuleCreatePageShape
<1>7. CASE ModuleCreate!TypeName
  <2>1. page' = [page EXCEPT !.name = "typed"]
    BY <1>7 DEF ModuleCreate!TypeName, ModuleCreate!Change
  <2>2. page' \in ModuleCreatePage
    BY <2>1 DEF ModuleCreatePage
  <2> QED
    BY <1>1, <2>1, <2>2, ModuleCreatePageShape
<1> QED
  BY <1>2, <1>3, <1>4, <1>5, <1>6, <1>7

LEMMA ModuleStepBarInv ==
    ASSUME page \in ModuleCreatePage, HoldsConnection(page),
           NEW step \in 0 .. 2, ModuleCreate!HandleChange(step)
    PROVE  page' \in ModuleCreatePage /\ HoldsConnection(page')
<1>1. PICK shown \in SUBSET {"repository", "module"} :
        page' = [page EXCEPT !.current = step, !.shown = shown]
  <2>1. page.shown \in SUBSET {"repository", "module"}
    BY DEF ModuleCreatePage
  <2> QED
    BY <2>1 DEF ModuleCreate!HandleChange, ModuleCreate!Change
<1>2. page' \in ModuleCreatePage
  <2>1. step \in Nat
    OBVIOUS
  <2> QED
    BY <1>1, <2>1 DEF ModuleCreatePage
<1> QED
  BY <1>1, <1>2, ModuleCreatePageShape DEF HoldsConnection

LEMMA ModuleSshKeyInv ==
    ASSUME page \in ModuleCreatePage, HoldsConnection(page), ModuleCreate!SelectSshKey
    PROVE  page' \in ModuleCreatePage /\ HoldsConnection(page')
<1>1. page' = [page EXCEPT !.sshKey = TRUE] /\ page.sshKeysVisible
  BY DEF ModuleCreate!SelectSshKey, ModuleCreate!Change
<1>2. page' \in ModuleCreatePage
  BY <1>1 DEF ModuleCreatePage
<1> QED
  BY <1>1, <1>2, ModuleCreatePageShape DEF HoldsConnection

LEMMA ModuleConnectionInv ==
    ASSUME page \in ModuleCreatePage, HoldsConnection(page),
           NEW id \in Connections \cup {"git"}, ModuleCreate!HandleGitClick(id)
    PROVE  page' \in ModuleCreatePage /\ HoldsConnection(page')
<1> DEFINE more == Append(page.chosen, id)
<1>1. page.chosen \in Seq(Connections \cup {"git"})
  BY DEF ModuleCreatePage
<1>2. /\ more \in Seq(Connections \cup {"git"}) /\ LastConnection(id, more)
      /\ id = "git" =>
           /\ GitChosen(more) /\ (OnlyGitChosen(page.chosen) => OnlyGitChosen(more))
           /\ \A c : LastConnection(c, page.chosen) => LastConnection(c, more)
      /\ GitChosen(page.chosen) => GitChosen(more)
  BY <1>1, AnotherChoice, Zenon
<1>3. CASE id = "git"
  <2>1. page' = [page EXCEPT !.sshKeysVisible = TRUE, !.chosen = more, !.vcsId = page.vcsId,
                             !.current = 1, !.shown = page.shown \cup {"repository"}]
    BY <1>3 DEF ModuleCreate!HandleGitClick, ModuleCreate!Change
  <2> HIDE DEF more
  <2>2. page' \in ModuleCreatePage
    BY <1>2, <2>1 DEF ModuleCreatePage
  <2>3. page'.vcsId = page.vcsId /\ page'.chosen = more
    BY <2>1, <2>2, ModuleCreatePageShape
  <2> QED
    BY <1>2, <1>3, <2>2, <2>3 DEF HoldsConnection
<1>4. CASE id # "git"
  <2>1. page' = [page EXCEPT !.sshKeysVisible = FALSE, !.chosen = more, !.vcsId = id,
                             !.current = 1, !.shown = page.shown \cup {"repository"}]
    BY <1>4 DEF ModuleCreate!HandleGitClick, ModuleCreate!Change
  <2>2. id \in Connections
    BY <1>4
  <2> HIDE DEF more
  <2>3. page' \in ModuleCreatePage
    BY <1>2, <2>1, <2>2 DEF ModuleCreatePage
  <2>4. /\ page'.vcsId = id /\ page'.chosen = more /\ page'.sshKey = page.sshKey
        /\ page'.sshKeysVisible = FALSE
    BY <2>1, <2>3, ModuleCreatePageShape
  <2> QED
    BY <1>2, <2>2, <2>3, <2>4, WizardsAssumption DEF HoldsConnection
<1> QED
  BY <1>3, <1>4

LEMMA ModuleOnFinishInv ==
    ASSUME page \in ModuleCreatePage, HoldsConnection(page), ModuleCreate!OnFinish
    PROVE  page'.kind = "moduleCreated" /\ ModuleCreate!ModuleAsChosen'
<1>1. /\ server'.from = (IF page.sshKey THEN "ssh" ELSE page.vcsId)
      /\ server'.chosen = page.chosen /\ page'.kind = "moduleCreated"
  BY DEF ModuleCreate!OnFinish
<1>2. page.vcsId \in Connections \cup {None}
  BY DEF ModuleCreatePage
<1>3. CASE page.sshKey
  <2>1. server'.from = "ssh" /\ GitChosen(page.chosen)
    BY <1>1, <1>3 DEF HoldsConnection
  <2> QED
    BY <1>1, <2>1, WizardsAssumption DEF ModuleCreate!ModuleAsChosen, GitChosen,
       ModuleCreate!None, None
<1>4. CASE ~ page.sshKey
  <2>1. server'.from = page.vcsId
    BY <1>1, <1>4
  <2> QED
    BY <1>1, <1>2, <2>1, WizardsAssumption DEF ModuleCreate!ModuleAsChosen, HoldsConnection,
       LastConnection, OnlyGitChosen, ModuleCreate!None, None
<1> QED
  BY <1>1, <1>3, <1>4

LEMMA ModuleCreateStepInv == ModuleCreateInv /\ ModuleCreate!ModuleCreateNext => ModuleCreateInv'
<1> SUFFICES ASSUME ModuleCreateInv, ModuleCreate!ModuleCreateNext PROVE ModuleCreateInv'
  OBVIOUS
<1>1. On("createModule") /\ page \in ModuleCreatePage /\ HoldsConnection(page)
  BY DEF ModuleCreateInv, ModuleCreate!ModuleCreateNext, ModuleCreate!On, On
<1>2. ASSUME page' \in ModuleCreatePage, HoldsConnection(page') PROVE ModuleCreateInv'
  BY <1>2 DEF ModuleCreateInv, ModuleCreatePage, On, ModuleCreate!ModuleAsChosen, ModuleCreate!On
<1>3. CASE \/ ModuleCreate!LoadVCSProviders \/ ModuleCreate!LoadSSHKeys
           \/ ModuleCreate!OtherButtons \/ ModuleCreate!TypeSource
           \/ ModuleCreate!HandleGitContinueClick \/ ModuleCreate!TypeName
  BY <1>1, <1>2, <1>3, ModuleFormInv
<1>4. CASE ModuleCreate!HandleVCSClick
  BY <1>4 DEF ModuleCreate!HandleVCSClick, ModuleCreate!Change, ModuleCreate!Elsewhere,
              ModuleCreateInv, On, ModuleCreate!ModuleAsChosen, ModuleCreate!On
<1>5. CASE ModuleCreate!SelectSshKey
  BY <1>1, <1>2, <1>5, ModuleSshKeyInv
<1>6. CASE ModuleCreate!OnFinish
  BY <1>1, <1>6, ModuleOnFinishInv DEF ModuleCreateInv, On
<1>7. CASE \E id \in Connections \cup {"git"} :
             Len(page.chosen) < MaxChoices /\ ModuleCreate!HandleGitClick(id)
  BY <1>1, <1>2, <1>7, ModuleConnectionInv
<1>8. CASE \E step \in 0 .. 2 : ModuleCreate!HandleChange(step)
  BY <1>1, <1>2, <1>8, ModuleStepBarInv
<1> QED
  BY <1>3, <1>4, <1>5, <1>6, <1>7, <1>8 DEF ModuleCreate!ModuleCreateNext

(* The two wizards together: a behaviour stays with the one it begins with. *)
ChoicesSpec ==
    /\ Create!CreateInit \/ ModuleCreate!ModuleCreateInit
    /\ [][Create!CreateNext \/ ModuleCreate!ModuleCreateNext]_pageVars

ChoicesInv == CreateInv \/ ModuleCreateInv

LEMMA ChoicesStepInv ==
    ChoicesInv /\ [Create!CreateNext \/ ModuleCreate!ModuleCreateNext]_pageVars => ChoicesInv'
<1> SUFFICES ASSUME ChoicesInv, [Create!CreateNext \/ ModuleCreate!ModuleCreateNext]_pageVars
             PROVE  ChoicesInv'
  OBVIOUS
<1>1. CASE UNCHANGED pageVars
  <2>1. CreateInv => CreateInv'
    BY <1>1 DEF pageVars, CreateInv, On, Create!CreatedAsChosen, Create!On
  <2>2. ModuleCreateInv => ModuleCreateInv'
    BY <1>1 DEF pageVars, ModuleCreateInv, On, ModuleCreate!ModuleAsChosen, ModuleCreate!On
  <2> QED
    BY <2>1, <2>2 DEF ChoicesInv
<1>2. CASE Create!CreateNext
  <2>1. On("create")
    BY <1>2 DEF Create!CreateNext, Create!On, On
  <2>2. CreateInv
    BY <2>1 DEF ChoicesInv, ModuleCreateInv, On
  <2> QED
    BY <1>2, <2>2, CreateStepInv DEF ChoicesInv
<1>3. CASE ModuleCreate!ModuleCreateNext
  <2>1. On("createModule")
    BY <1>3 DEF ModuleCreate!ModuleCreateNext, ModuleCreate!On, On
  <2>2. ModuleCreateInv
    BY <2>1 DEF ChoicesInv, CreateInv, On
  <2> QED
    BY <1>3, <2>2, ModuleCreateStepInv DEF ChoicesInv
<1> QED
  BY <1>1, <1>2, <1>3

(* What the forms of the two wizards hold is what the last choice that sets *)
(* it has set (Workspaces/Create.tsx, Modules/Create.tsx).                  *)
THEOREM ChoicesInvariant == ChoicesSpec => []ChoicesInv
<1>1. Create!CreateInit \/ ModuleCreate!ModuleCreateInit => ChoicesInv
  BY CreateInitInv, ModuleCreateInitInv DEF ChoicesInv
<1> QED
  BY <1>1, ChoicesStepInv, PTL DEF ChoicesSpec

(* However its steps are walked, a workspace is created with the version of *)
(* its tool, the source of its flow and the connection chosen last, and a   *)
(* module with the connection chosen last, or a key if git was chosen.      *)
THEOREM ChoicesReachTheApi == ChoicesSpec => []CreatedAsChosen
<1>1. ChoicesInv => CreatedAsChosen
  <2>1. CreateInv => CreatedAsChosen
    BY DEF CreateInv, On, CreatedAsChosen, ModuleCreate!ModuleAsChosen, ModuleCreate!On
  <2>2. ModuleCreateInv => CreatedAsChosen
    BY DEF ModuleCreateInv, On, CreatedAsChosen, Create!CreatedAsChosen, Create!On
  <2> QED
    BY <2>1, <2>2 DEF ChoicesInv
<1> QED
  BY <1>1, ChoicesInvariant, PTL
--------------------------------------------------------------------------------
(* The wizard that imports workspaces.                                      *)
ImportSpec == Import!ImportInit /\ [][Import!ImportNext]_pageVars

PerWorkspace(T) == UNION {[W -> T] : W \in SUBSET ImportWorkspaces}
MappingRow == [isAdditional : BOOLEAN, collection : Collections \cup {None}]
VariableDrafts == UNION {[V -> {None, "value"}] : V \in SUBSET SensitiveVariables}
ImportRequest == [workspace : ImportWorkspaces, vcsId : {None, "provider"},
                  collections : SUBSET Collections, variables : SUBSET SensitiveVariables]
ImportResults == {"Importing...", "imported", "failed"}

ImportPage ==
    [kind : {"import"}, current : Nat, versionControlFlow : BOOLEAN, formShown : BOOLEAN,
     listShown : BOOLEAN, vcsId : {None, "provider"}, listRequests : Nat, listLoading : BOOLEAN,
     workspaces : SUBSET ImportWorkspaces, selected : Seq(ImportWorkspaces),
     detailsFor : Seq(ImportWorkspaces), mappings : PerWorkspace(Seq(MappingRow)),
     drafts : PerWorkspace(VariableDrafts), modalOpen : BOOLEAN, index : Nat,
     importing : BOOLEAN, todo : Seq(ImportRequest), progress : PerWorkspace(ImportResults)]

ImportStore ==
    [imported : Seq(ImportRequest), reviewed : SUBSET ImportWorkspaces,
     picked : SUBSET (ImportWorkspaces \X Collections),
     discarded : SUBSET (ImportWorkspaces \X SensitiveVariables)]

(* What the review of a workspace has come to so far.                       *)
Wanted(s, w) == {v \in SensitiveVariables : <<w, v>> \notin s.discarded}
Picked(s, w) == {c \in Collections : <<w, c>> \in s.picked}
AsReviewed(s, request) ==
    request.workspace \in s.reviewed =>
        /\ request.variables = Wanted(s, request.workspace)
        /\ request.collections = Picked(s, request.workspace)

WorkspacesOf(requests) == {requests[i].workspace : i \in DOMAIN requests}

(* Choosing, reviewing and importing exclude each other.                    *)
PhasesInv(p, s) ==
    /\ p.modalOpen \/ p.importing => p.detailsFor = <<>>
    /\ p.importing => ~ p.modalOpen
    /\ ~ p.importing => p.todo = <<>> /\ p.progress = <<>> /\ s.imported = <<>>
    /\ \A i, j \in DOMAIN p.selected : p.selected[i] = p.selected[j] => i = j

(* The modal holds what the review has come to, unless the list of          *)
(* workspaces came again under it and took the selection away.              *)
ReviewInv(p, s) ==
    p.modalOpen /\ p.selected # <<>> =>
        /\ s.reviewed = DOMAIN p.drafts
        /\ \A w \in DOMAIN p.drafts : DOMAIN p.drafts[w] = Wanted(s, w)
        /\ \A w \in ImportWorkspaces : Import!CollectionIds(p, w) = Picked(s, w)

RequestsInv(p, s) ==
    /\ \A i \in DOMAIN p.todo : AsReviewed(s, p.todo[i])
    /\ \A i \in DOMAIN s.imported : AsReviewed(s, s.imported[i])

(* Every workspace is to be imported, or was, at most once, and the rows of *)
(* the progress list, as long as it is shown, say which.                    *)
ProgressInv(p, s) ==
    /\ \A i, j \in DOMAIN p.todo : p.todo[i].workspace = p.todo[j].workspace => i = j
    /\ WorkspacesOf(p.todo) \cap WorkspacesOf(s.imported) = {}
    /\ IsFiniteSet(WorkspacesOf(s.imported))
    /\ Cardinality(WorkspacesOf(s.imported)) = Len(s.imported)
    /\ \A w \in DOMAIN p.progress :
          /\ p.progress[w] = "imported" <=> w \in WorkspacesOf(s.imported)
          /\ p.progress[w] = "Importing..." <=> w \in WorkspacesOf(p.todo)

ImportInv ==
    /\ page \in ImportPage /\ server \in ImportStore
    /\ PhasesInv(page, server) /\ ReviewInv(page, server)
    /\ RequestsInv(page, server) /\ ProgressInv(page, server)

(* A page of this type is the record of its fields, and so is the store.    *)
LEMMA ImportPageShape ==
    ASSUME NEW p \in ImportPage
    PROVE  p = [kind |-> p.kind, current |-> p.current,
                versionControlFlow |-> p.versionControlFlow, formShown |-> p.formShown,
                listShown |-> p.listShown, vcsId |-> p.vcsId, listRequests |-> p.listRequests,
                listLoading |-> p.listLoading, workspaces |-> p.workspaces,
                selected |-> p.selected, detailsFor |-> p.detailsFor, mappings |-> p.mappings,
                drafts |-> p.drafts, modalOpen |-> p.modalOpen, index |-> p.index,
                importing |-> p.importing, todo |-> p.todo, progress |-> p.progress]
BY DEF ImportPage

LEMMA ImportStoreShape ==
    ASSUME NEW s \in ImportStore
    PROVE  s = [imported |-> s.imported, reviewed |-> s.reviewed, picked |-> s.picked,
                discarded |-> s.discarded]
BY DEF ImportStore

LEMMA NothingPerWorkspace == ASSUME NEW T PROVE <<>> \in PerWorkspace(T)
<1>1. <<>> \in [{} -> T]
  OBVIOUS
<1> QED
  BY <1>1 DEF PerWorkspace

LEMMA NoRequests == WorkspacesOf(<<>>) = {}
BY DEF WorkspacesOf

LEMMA NothingToImport ==
    ASSUME NEW p, NEW s, p.todo = <<>>, p.progress = <<>>, s.imported = <<>>
    PROVE  ProgressInv(p, s)
<1>1. WorkspacesOf(p.todo) = {} /\ WorkspacesOf(s.imported) = {}
  BY NoRequests
<1>2. IsFiniteSet(WorkspacesOf(s.imported)) /\ Cardinality(WorkspacesOf(s.imported)) = 0
  BY <1>1, FS_EmptySet
<1>3. DOMAIN p.progress = {} /\ DOMAIN p.todo = {} /\ Len(s.imported) = 0
  OBVIOUS
<1> QED
  BY <1>1, <1>2, <1>3 DEF ProgressInv

LEMMA ImportInitInv == Import!ImportInit => ImportInv
<1> SUFFICES ASSUME Import!ImportInit PROVE ImportInv
  OBVIOUS
<1>1. /\ page = [kind |-> "import", current |-> 0, versionControlFlow |-> TRUE,
                 formShown |-> FALSE, listShown |-> FALSE, vcsId |-> None,
                 listRequests |-> 0, listLoading |-> FALSE, workspaces |-> {},
                 selected |-> <<>>, detailsFor |-> <<>>, mappings |-> <<>>, drafts |-> <<>>,
                 modalOpen |-> FALSE, index |-> 1,
                 importing |-> FALSE, todo |-> <<>>, progress |-> <<>>]
      /\ server = [imported |-> <<>>, reviewed |-> {}, picked |-> {}, discarded |-> {}]
  BY DEF Import!ImportInit, Import!None, None
<1>2. page \in ImportPage
  BY <1>1, NothingPerWorkspace DEF ImportPage
<1>3. server \in ImportStore
  BY <1>1 DEF ImportStore
<1>4. PhasesInv(page, server) /\ ReviewInv(page, server) /\ RequestsInv(page, server)
  BY <1>1 DEF PhasesInv, ReviewInv, RequestsInv
<1>5. ProgressInv(page, server)
  BY <1>1, NothingToImport
<1> QED
  BY <1>2, <1>3, <1>4, <1>5 DEF ImportInv

(* A step of the wizard before the review, or of the list.                  *)
LEMMA WizardStepKeeps ==
    ASSUME ImportInv, page' \in ImportPage, UNCHANGED server,
           UNCHANGED <<page.selected, page.detailsFor, page.mappings, page.drafts,
                       page.modalOpen, page.importing, page.todo, page.progress>>
    PROVE  ImportInv'
<1>1. PhasesInv(page', server')
  BY DEF ImportInv, PhasesInv
<1>2. \A w : Import!CollectionIds(page', w) = Import!CollectionIds(page, w)
  BY DEF Import!CollectionIds, Import!RowsOf
<1>3. ReviewInv(page', server')
  BY <1>2 DEF ImportInv, ReviewInv
<1>4. RequestsInv(page', server')
  BY DEF ImportInv, RequestsInv
<1>5. ProgressInv(page', server')
  BY DEF ImportInv, ProgressInv
<1> QED
  BY <1>1, <1>3, <1>4, <1>5 DEF ImportInv
--------------------------------------------------------------------------------
(* The steps: their bar and their buttons.                                  *)
LEMMA GoesTo ==
    ASSUME NEW p \in ImportPage, NEW step \in Nat, NEW q, q = Import!HandleChange(p, step)
    PROVE  /\ q \in ImportPage
           /\ q.selected = p.selected /\ q.detailsFor = p.detailsFor
           /\ q.mappings = p.mappings /\ q.drafts = p.drafts /\ q.modalOpen = p.modalOpen
           /\ q.importing = p.importing /\ q.todo = p.todo /\ q.progress = p.progress
<1> DEFINE form == step = 3
           list == step = 4
           flow == p.versionControlFlow \/ step \in {0, 1}
<1>1. q = [p EXCEPT !.current = step, !.formShown = form, !.listShown = list,
                    !.versionControlFlow = flow]
  BY DEF Import!HandleChange
<1>2. form \in BOOLEAN /\ list \in BOOLEAN /\ flow \in BOOLEAN
  OBVIOUS
<1> HIDE DEF form, list, flow
<1>3. q \in ImportPage
  BY <1>1, <1>2 DEF ImportPage
<1> QED
  BY <1>1, <1>3, ImportPageShape

LEMMA WizardClicksInv ==
    ASSUME ImportInv,
           \/ Import!ClickStep \/ Import!HandlePlatformClick \/ Import!HandleClick
           \/ Import!HandleCliDriven \/ Import!HandleGitClick("provider")
    PROVE  ImportInv'
<1>1. page \in ImportPage
  BY DEF ImportInv
<1>2. CASE Import!ClickStep
  <2>1. PICK step \in Nat : page' = Import!HandleChange(page, step) /\ UNCHANGED server
    BY <1>2 DEF Import!ClickStep, Import!StepItems
  <2> QED
    BY <1>1, <2>1, GoesTo, WizardStepKeeps
<1>3. CASE Import!HandlePlatformClick
  <2>1. page' = [page EXCEPT !.current = 1] /\ UNCHANGED server
    BY <1>3 DEF Import!HandlePlatformClick
  <2>2. page' \in ImportPage
    BY <1>1, <2>1 DEF ImportPage
  <2> QED
    BY <1>1, <2>1, <2>2, ImportPageShape, WizardStepKeeps
<1>4. CASE Import!HandleClick
  <2>1. page' = [page EXCEPT !.current = 2, !.versionControlFlow = TRUE] /\ UNCHANGED server
    BY <1>4 DEF Import!HandleClick
  <2>2. page' \in ImportPage
    BY <1>1, <2>1 DEF ImportPage
  <2> QED
    BY <1>1, <2>1, <2>2, ImportPageShape, WizardStepKeeps
<1>5. CASE Import!HandleCliDriven
  <2>1. /\ page' = [page EXCEPT !.current = 2, !.versionControlFlow = FALSE, !.formShown = TRUE]
        /\ UNCHANGED server
    BY <1>5 DEF Import!HandleCliDriven
  <2>2. page' \in ImportPage
    BY <1>1, <2>1 DEF ImportPage
  <2> QED
    BY <1>1, <2>1, <2>2, ImportPageShape, WizardStepKeeps
<1>6. CASE Import!HandleGitClick("provider")
  <2> DEFINE p == [page EXCEPT !.vcsId = "provider"]
  <2>1. p \in ImportPage
    BY <1>1 DEF ImportPage
  <2>2. /\ p.selected = page.selected /\ p.detailsFor = page.detailsFor
        /\ p.mappings = page.mappings /\ p.drafts = page.drafts /\ p.modalOpen = page.modalOpen
        /\ p.importing = page.importing /\ p.todo = page.todo /\ p.progress = page.progress
    OBVIOUS
  <2>3. page' = Import!HandleChange(p, 3) /\ UNCHANGED server
    BY <1>6 DEF Import!HandleGitClick
  <2> HIDE DEF p
  <2> QED
    BY <2>1, <2>2, <2>3, GoesTo, WizardStepKeeps
<1> QED
  BY <1>2, <1>3, <1>4, <1>5, <1>6

(* The list of workspaces is asked for, and does not come.                  *)
LEMMA ImportListAskedInv == ASSUME ImportInv, Import!OnFinish \/ Import!ListFails PROVE ImportInv'
<1>1. page \in ImportPage
  BY DEF ImportInv
<1>2. CASE Import!OnFinish
  <2> DEFINE p == Import!HandleChange(page, 4)
  <2>1. /\ p \in ImportPage
        /\ p.selected = page.selected /\ p.detailsFor = page.detailsFor
        /\ p.mappings = page.mappings /\ p.drafts = page.drafts /\ p.modalOpen = page.modalOpen
        /\ p.importing = page.importing /\ p.todo = page.todo /\ p.progress = page.progress
    BY <1>1, GoesTo
  <2> HIDE DEF p
  <2> DEFINE requests == p.listRequests + 1
  <2>2. page' = [p EXCEPT !.listLoading = TRUE, !.listRequests = requests] /\ UNCHANGED server
    BY <1>2 DEF Import!OnFinish, p
  <2>3. requests \in Nat
    BY <2>1 DEF ImportPage
  <2> HIDE DEF requests
  <2>4. page' \in ImportPage
    BY <2>1, <2>2, <2>3 DEF ImportPage
  <2>5. /\ page'.selected = p.selected /\ page'.detailsFor = p.detailsFor
        /\ page'.mappings = p.mappings /\ page'.drafts = p.drafts
        /\ page'.modalOpen = p.modalOpen /\ page'.importing = p.importing
        /\ page'.todo = p.todo /\ page'.progress = p.progress
    BY <2>1, <2>2, ImportPageShape
  <2> QED
    BY <2>1, <2>2, <2>4, <2>5, WizardStepKeeps
<1>3. CASE Import!ListFails
  <2> DEFINE requests == page.listRequests - 1
  <2>1. /\ page' = [page EXCEPT !.listRequests = requests, !.listLoading = FALSE]
        /\ UNCHANGED server
    BY <1>3 DEF Import!ListFails
  <2>2. requests \in Nat
    <3>1. page.listRequests \in Nat /\ page.listRequests > 0
      BY <1>1, <1>3 DEF ImportPage, Import!ListFails
    <3> QED
      BY <3>1
  <2> HIDE DEF requests
  <2>3. page' \in ImportPage
    BY <1>1, <2>1, <2>2 DEF ImportPage
  <2> QED
    BY <1>1, <2>1, <2>3, ImportPageShape, WizardStepKeeps
<1> QED
  BY <1>2, <1>3

(* The list comes: whatever was selected or mapped is gone, and so are the  *)
(* rows of an import under way.                                             *)
LEMMA ImportListArrivesInv == ASSUME ImportInv, Import!ListArrives PROVE ImportInv'
<1> DEFINE requests == page.listRequests - 1
<1>1. page \in ImportPage /\ server' = server
  BY DEF ImportInv, Import!ListArrives
<1>2. page' = [page EXCEPT !.listRequests = requests, !.listLoading = FALSE,
                           !.workspaces = ImportWorkspaces, !.selected = <<>>,
                           !.progress = <<>>, !.mappings = <<>>, !.drafts = <<>>]
  BY DEF Import!ListArrives
<1>3. requests \in Nat
  <2>1. page.listRequests \in Nat /\ page.listRequests > 0
    BY <1>1 DEF ImportPage, Import!ListArrives
  <2> QED
    BY <2>1
<1> HIDE DEF requests
<1>4. page' \in ImportPage
  <2>1. /\ <<>> \in PerWorkspace(Seq(MappingRow)) /\ <<>> \in PerWorkspace(VariableDrafts)
        /\ <<>> \in PerWorkspace(ImportResults) /\ <<>> \in Seq(ImportWorkspaces)
    BY NothingPerWorkspace
  <2> QED
    BY <1>1, <1>2, <1>3, <2>1 DEF ImportPage
<1>5. /\ page'.selected = <<>> /\ page'.progress = <<>> /\ page'.detailsFor = page.detailsFor
      /\ page'.modalOpen = page.modalOpen /\ page'.importing = page.importing
      /\ page'.todo = page.todo
  BY <1>1, <1>2, ImportPageShape
<1>6. PhasesInv(page', server') /\ ReviewInv(page', server') /\ RequestsInv(page', server')
  BY <1>1, <1>5 DEF ImportInv, PhasesInv, ReviewInv, RequestsInv
<1>7. ProgressInv(page', server')
  BY <1>1, <1>5 DEF ImportInv, ProgressInv
<1> QED
  BY <1>1, <1>4, <1>6, <1>7 DEF ImportInv

LEMMA SelectRowsInv == ASSUME ImportInv, Import!SelectRows PROVE ImportInv'
<1>1. page \in ImportPage /\ ~ page.modalOpen /\ ~ page.importing /\ server' = server
  BY DEF ImportInv, Import!SelectRows, Import!TableShown, Import!WizardShown
<1>2. PICK s : /\ s \in Seq(ImportWorkspaces)
               /\ \A i, j \in DOMAIN s : s[i] = s[j] => i = j
               /\ page' = [page EXCEPT !.selected = s]
  <2>1. PICK s \in Import!Selections : page' = [page EXCEPT !.selected = s]
    BY DEF Import!SelectRows
  <2>2. PICK n \in 0 .. Import!Cardinality(ImportWorkspaces) :
          s \in {t \in [1 .. n -> ImportWorkspaces] : Import!IsInjective(t)}
    BY DEF Import!Selections
  <2>3. s \in Seq(ImportWorkspaces) /\ \A i, j \in DOMAIN s : s[i] = s[j] => i = j
    BY <2>2 DEF Import!IsInjective
  <2> QED
    BY <2>1, <2>3
<1>3. page' \in ImportPage
  BY <1>1, <1>2 DEF ImportPage
<1>4. /\ page'.selected = s /\ page'.modalOpen = FALSE /\ page'.importing = FALSE
      /\ page'.todo = page.todo /\ page'.progress = page.progress
  BY <1>1, <1>2, ImportPageShape
<1>5. PhasesInv(page', server') /\ ReviewInv(page', server') /\ RequestsInv(page', server')
  BY <1>1, <1>2, <1>4 DEF ImportInv, PhasesInv, ReviewInv, RequestsInv
<1>6. ProgressInv(page', server')
  BY <1>1, <1>4 DEF ImportInv, ProgressInv
<1> QED
  BY <1>1, <1>3, <1>5, <1>6 DEF ImportInv
--------------------------------------------------------------------------------
(* The review.  A press of the import button asks for the details of what   *)
(* is selected, and their arrival opens the modal.                          *)
CollectionsOf(rows) == {rows[i].collection : i \in DOMAIN rows} \ {None}
RowsFor(mappings, w) == IF w \in DOMAIN mappings THEN mappings[w] ELSE <<>>

LEMMA CollectionIdsOfRows ==
    ASSUME NEW p, NEW w
    PROVE  Import!CollectionIds(p, w) = CollectionsOf(RowsFor(p.mappings, w))
<1> DEFINE rows == RowsFor(p.mappings, w)
<1>1. Import!RowsOf(p, w) = rows
  BY DEF Import!RowsOf, RowsFor
<1> HIDE DEF rows
<1>2. Import!CollectionIds(p, w) = {row.collection : row \in {rows[i] : i \in DOMAIN rows}} \ {None}
  BY <1>1 DEF Import!CollectionIds, Import!Range, Import!None, None
<1>3. {row.collection : row \in {rows[i] : i \in DOMAIN rows}} = {rows[i].collection : i \in DOMAIN rows}
  OBVIOUS
<1> QED
  BY <1>2, <1>3 DEF CollectionsOf, rows

LEMMA HandleImportClickInv == ASSUME ImportInv, Import!HandleImportClick PROVE ImportInv'
<1> DEFINE details == page.detailsFor \o page.selected
<1>1. /\ page \in ImportPage /\ ~ page.modalOpen /\ ~ page.importing /\ server' = server
      /\ page' = [page EXCEPT !.detailsFor = details]
  BY DEF ImportInv, Import!HandleImportClick, Import!TableShown, Import!WizardShown
<1>2. details \in Seq(ImportWorkspaces)
  BY <1>1 DEF ImportPage
<1> HIDE DEF details
<1>3. page' \in ImportPage
  BY <1>1, <1>2 DEF ImportPage
<1>4. /\ page'.selected = page.selected /\ page'.modalOpen = FALSE /\ page'.importing = FALSE
      /\ page'.todo = page.todo /\ page'.progress = page.progress
  BY <1>1, ImportPageShape
<1>5. PhasesInv(page', server') /\ ReviewInv(page', server') /\ RequestsInv(page', server')
  BY <1>1, <1>4 DEF ImportInv, PhasesInv, ReviewInv, RequestsInv
<1>6. ProgressInv(page', server')
  BY <1>1, <1>4 DEF ImportInv, ProgressInv
<1> QED
  BY <1>1, <1>3, <1>5, <1>6 DEF ImportInv

(* What a review starts with.                                               *)
LEMMA ReviewStarts ==
    ASSUME NEW asked \in SUBSET ImportWorkspaces, NEW failed,
           NEW m, m = [w \in asked |-> Import!MappingRows(w \in failed)],
           NEW d, d = [w \in asked |-> Import!SensitiveVariableDrafts]
    PROVE  /\ m \in PerWorkspace(Seq(MappingRow)) /\ d \in PerWorkspace(VariableDrafts)
           /\ DOMAIN d = asked /\ \A w \in asked : DOMAIN d[w] = SensitiveVariables
           /\ \A w : CollectionsOf(RowsFor(m, w)) = {}
<1>1. Import!Row(FALSE) \in MappingRow /\ Import!Row(FALSE).collection = None
  BY DEF Import!Row, MappingRow, Import!None, None
<1>2. ASSUME NEW w \in asked
      PROVE  m[w] \in Seq(MappingRow) /\ CollectionsOf(m[w]) = {}
  <2>1. CASE w \in failed
    <3>1. m[w] = <<>>
      BY <2>1 DEF Import!MappingRows
    <3>2. CollectionsOf(<<>>) = {} /\ <<>> \in Seq(MappingRow)
      BY DEF CollectionsOf
    <3> QED
      BY <3>1, <3>2
  <2>2. CASE w \notin failed
    <3> DEFINE row == Import!Row(FALSE)
    <3>1. m[w] = <<row>>
      BY <2>2 DEF Import!MappingRows
    <3>2. row \in MappingRow /\ row.collection = None
      BY <1>1
    <3> HIDE DEF row
    <3>3. DOMAIN <<row>> = {1} /\ <<row>>[1] = row /\ <<row>> \in Seq(MappingRow)
      BY <3>2
    <3>4. CollectionsOf(<<row>>) = {}
      BY <3>2, <3>3 DEF CollectionsOf
    <3> QED
      BY <3>1, <3>3, <3>4
  <2> QED
    BY <2>1, <2>2
<1>3. m \in [asked -> Seq(MappingRow)]
  <2>1. DOMAIN m = asked /\ m = [w \in asked |-> m[w]]
    OBVIOUS
  <2> QED
    BY <1>2, <2>1
<1>4. m \in PerWorkspace(Seq(MappingRow))
  BY <1>3 DEF PerWorkspace
<1>5. Import!SensitiveVariableDrafts \in [SensitiveVariables -> {None, "value"}]
  BY DEF Import!SensitiveVariableDrafts, Import!None, None
<1>6. Import!SensitiveVariableDrafts \in VariableDrafts
  BY <1>5 DEF VariableDrafts
<1>7. d \in PerWorkspace(VariableDrafts)
  <2>1. d \in [asked -> VariableDrafts]
    BY <1>6
  <2> QED
    BY <2>1 DEF PerWorkspace
<1>8. \A w : CollectionsOf(RowsFor(m, w)) = {}
  <2>1. DOMAIN m = asked /\ CollectionsOf(<<>>) = {}
    BY DEF CollectionsOf
  <2> QED
    BY <1>2, <2>1 DEF RowsFor
<1> QED
  BY <1>4, <1>5, <1>7, <1>8

LEMMA DetailsArriveInv == ASSUME ImportInv, Import!DetailsArrive PROVE ImportInv'
<1> DEFINE asked == Import!Range(page.detailsFor)
<1>1. page \in ImportPage /\ server \in ImportStore /\ page.detailsFor # <<>>
  BY DEF ImportInv, Import!DetailsArrive
<1>2. ~ page.modalOpen /\ ~ page.importing /\ page.todo = <<>> /\ page.progress = <<>>
      /\ server.imported = <<>>
  BY <1>1 DEF ImportInv, PhasesInv
<1>3. asked \in SUBSET ImportWorkspaces
  BY <1>1 DEF ImportPage, Import!Range
<1>4. CASE page' = [page EXCEPT !.detailsFor = <<>>] /\ UNCHANGED server
  <2>1. page' \in ImportPage
    <3>1. <<>> \in Seq(ImportWorkspaces)
      OBVIOUS
    <3> QED
      BY <1>1, <1>4, <3>1 DEF ImportPage
  <2>2. /\ page'.selected = page.selected /\ page'.modalOpen = FALSE
        /\ page'.importing = FALSE /\ page'.todo = page.todo /\ page'.progress = page.progress
    BY <1>1, <1>2, <1>4, ImportPageShape
  <2>3. /\ PhasesInv(page', server') /\ ReviewInv(page', server') /\ RequestsInv(page', server')
    BY <1>2, <1>4, <2>2 DEF ImportInv, PhasesInv, ReviewInv, RequestsInv
  <2>4. ProgressInv(page', server')
    BY <1>4, <2>2 DEF ImportInv, ProgressInv
  <2> QED
    BY <1>1, <1>4, <2>1, <2>3, <2>4 DEF ImportInv
<1>5. ASSUME NEW failed,
             page' = [page EXCEPT
                    !.detailsFor = <<>>,
                    !.mappings = [w \in asked |-> Import!MappingRows(w \in failed)],
                    !.drafts = [w \in asked |-> Import!SensitiveVariableDrafts],
                    !.progress = <<>>, !.index = 1, !.modalOpen = TRUE],
             server' = [server EXCEPT !.reviewed = asked, !.picked = {}, !.discarded = {}]
      PROVE  ImportInv'
  <2> DEFINE m == [w \in asked |-> Import!MappingRows(w \in failed)]
             d == [w \in asked |-> Import!SensitiveVariableDrafts]
  <2>1. /\ m \in PerWorkspace(Seq(MappingRow)) /\ d \in PerWorkspace(VariableDrafts)
        /\ DOMAIN d = asked /\ \A w \in asked : DOMAIN d[w] = SensitiveVariables
        /\ \A w : CollectionsOf(RowsFor(m, w)) = {}
    BY <1>3, ReviewStarts, Zenon
  <2>2. page' = [page EXCEPT !.detailsFor = <<>>, !.mappings = m, !.drafts = d,
                             !.progress = <<>>, !.index = 1, !.modalOpen = TRUE]
    BY <1>5
  <2>3. server' = [server EXCEPT !.reviewed = asked, !.picked = {}, !.discarded = {}]
    BY <1>5
  <2> HIDE DEF m, d, asked
  <2>4. page' \in ImportPage
    <3>1. <<>> \in PerWorkspace(ImportResults) /\ <<>> \in Seq(ImportWorkspaces)
      BY NothingPerWorkspace
    <3> QED
      BY <1>1, <2>1, <2>2, <3>1 DEF ImportPage
  <2>5. server' \in ImportStore
    BY <1>1, <1>3, <2>3 DEF ImportStore
  <2>6. /\ page'.selected = page.selected /\ page'.detailsFor = <<>> /\ page'.mappings = m
        /\ page'.drafts = d /\ page'.modalOpen = TRUE /\ page'.importing = FALSE
        /\ page'.todo = <<>> /\ page'.progress = <<>>
    BY <1>1, <1>2, <2>2, ImportPageShape
  <2>7. /\ server'.imported = <<>> /\ server'.reviewed = asked
        /\ server'.picked = {} /\ server'.discarded = {}
    BY <1>1, <1>2, <2>3, ImportStoreShape
  <2>8. PhasesInv(page', server')
    BY <2>6, <2>7 DEF ImportInv, PhasesInv
  <2>9. ReviewInv(page', server')
    <3>1. \A w : Import!CollectionIds(page', w) = {}
      BY <2>1, <2>6, CollectionIdsOfRows
    <3>2. \A w : Wanted(server', w) = SensitiveVariables /\ Picked(server', w) = {}
      BY <2>7 DEF Wanted, Picked
    <3> QED
      BY <2>1, <2>6, <2>7, <3>1, <3>2 DEF ReviewInv
  <2>10. RequestsInv(page', server')
    BY <2>6, <2>7 DEF RequestsInv
  <2>11. ProgressInv(page', server')
    BY <2>6, <2>7, NothingToImport
  <2> QED
    BY <2>4, <2>5, <2>8, <2>9, <2>10, <2>11 DEF ImportInv
<1> QED
  BY <1>4, <1>5 DEF Import!DetailsArrive
--------------------------------------------------------------------------------
(* The rows of a workspace in its review: what is picked in them becomes    *)
(* what is picked for this workspace, and nothing else changes.             *)
LEMMA SetsRows ==
    ASSUME NEW m \in PerWorkspace(Seq(MappingRow)), NEW w \in ImportWorkspaces,
           NEW rows \in Seq(MappingRow)
    PROVE  /\ Import!With(m, w, rows) \in PerWorkspace(Seq(MappingRow))
           /\ RowsFor(Import!With(m, w, rows), w) = rows
           /\ \A x : x # w => RowsFor(Import!With(m, w, rows), x) = RowsFor(m, x)
<1> DEFINE new == Import!With(m, w, rows)
<1>1. PICK W \in SUBSET ImportWorkspaces : m \in [W -> Seq(MappingRow)]
  BY DEF PerWorkspace
<1>2. new = [k \in W \cup {w} |-> IF k = w THEN rows ELSE m[k]]
  BY <1>1 DEF Import!With
<1> HIDE DEF new
<1>3. new \in [W \cup {w} -> Seq(MappingRow)]
  BY <1>1, <1>2
<1>4. new \in PerWorkspace(Seq(MappingRow))
  <2>1. W \cup {w} \in SUBSET ImportWorkspaces
    OBVIOUS
  <2> QED
    BY <1>3, <2>1 DEF PerWorkspace
<1>5. RowsFor(new, w) = rows /\ \A x : x # w => RowsFor(new, x) = RowsFor(m, x)
  BY <1>1, <1>2 DEF RowsFor
<1> QED
  BY <1>4, <1>5 DEF new

LEMMA RowsTyped ==
    ASSUME NEW m \in PerWorkspace(Seq(MappingRow)), NEW w
    PROVE  RowsFor(m, w) \in Seq(MappingRow)
<1>1. PICK W \in SUBSET ImportWorkspaces : m \in [W -> Seq(MappingRow)]
  BY DEF PerWorkspace
<1>2. CASE w \in W
  BY <1>1, <1>2 DEF RowsFor
<1>3. CASE w \notin W
  <2>1. <<>> \in Seq(MappingRow)
    OBVIOUS
  <2> QED
    BY <1>1, <1>3, <2>1 DEF RowsFor
<1> QED
  BY <1>2, <1>3

LEMMA CollectionsTyped ==
    ASSUME NEW rows \in Seq(MappingRow) PROVE CollectionsOf(rows) \subseteq Collections
<1>1. \A i \in DOMAIN rows : rows[i] \in MappingRow
  OBVIOUS
<1>2. \A i \in DOMAIN rows : rows[i].collection \in Collections \cup {None}
  BY <1>1 DEF MappingRow
<1> QED
  BY <1>2 DEF CollectionsOf

LEMMA OnlyMappings ==
    ASSUME NEW p \in ImportPage, NEW m \in PerWorkspace(Seq(MappingRow)),
           NEW q, q = [p EXCEPT !.mappings = m]
    PROVE  /\ q \in ImportPage /\ q.mappings = m
           /\ q.selected = p.selected /\ q.detailsFor = p.detailsFor /\ q.drafts = p.drafts
           /\ q.modalOpen = p.modalOpen /\ q.importing = p.importing
           /\ q.todo = p.todo /\ q.progress = p.progress
<1>1. q \in ImportPage
  BY DEF ImportPage
<1> QED
  BY <1>1, ImportPageShape

LEMMA MappingsUpdatedInv ==
    ASSUME ImportInv, NEW w \in ImportWorkspaces, NEW rows \in Seq(MappingRow),
           Import!Shows(w), Import!UpdateCurrentWorkspaceMappings(w, rows)
    PROVE  ImportInv'
<1> DEFINE m == Import!With(page.mappings, w, rows)
           picked == {pick \in server.picked : pick[1] # w} \cup
                        {<<w, c>> : c \in CollectionsOf(rows)}
<1>1. page \in ImportPage /\ server \in ImportStore
  BY DEF ImportInv
<1>2. page.mappings \in PerWorkspace(Seq(MappingRow))
  BY <1>1 DEF ImportPage
<1>3. /\ m \in PerWorkspace(Seq(MappingRow)) /\ RowsFor(m, w) = rows
      /\ \A x : x # w => RowsFor(m, x) = RowsFor(page.mappings, x)
  BY <1>2, SetsRows
<1>4. page' = [page EXCEPT !.mappings = m]
  BY DEF Import!UpdateCurrentWorkspaceMappings
<1>5. server' = [server EXCEPT !.picked = picked]
  <2>1. {row.collection : row \in {rows[i] : i \in DOMAIN rows}} = {rows[i].collection : i \in DOMAIN rows}
    OBVIOUS
  <2>2. {row.collection : row \in Import!Range(rows)} \ {Import!None} = CollectionsOf(rows)
    BY <2>1 DEF Import!Range, Import!None, None, CollectionsOf
  <2>3. server' = [server EXCEPT !.picked =
                    {pick \in server.picked : pick[1] # w} \cup
                     {<<w, c>> : c \in {row.collection : row \in Import!Range(rows)} \ {Import!None}}]
    BY DEF Import!UpdateCurrentWorkspaceMappings
  <2> QED
    BY <2>2, <2>3
<1>6. /\ server.picked \subseteq ImportWorkspaces \X Collections
      /\ CollectionsOf(rows) \subseteq Collections
  BY <1>1, CollectionsTyped DEF ImportStore
<1>7. picked \subseteq ImportWorkspaces \X Collections
  BY <1>6
<1>8. /\ \A c \in Collections : <<w, c>> \in picked <=> c \in CollectionsOf(rows)
      /\ \A x, c : x # w => (<<x, c>> \in picked <=> <<x, c>> \in server.picked)
  OBVIOUS
<1> HIDE DEF m, picked
<1>9. page' \in ImportPage
  BY <1>1, <1>3, <1>4, OnlyMappings
<1>10. server' \in ImportStore
  BY <1>1, <1>5, <1>7 DEF ImportStore
<1>11. /\ page'.selected = page.selected /\ page'.detailsFor = page.detailsFor
       /\ page'.mappings = m /\ page'.drafts = page.drafts
       /\ page'.modalOpen = page.modalOpen /\ page'.importing = page.importing
       /\ page'.todo = page.todo /\ page'.progress = page.progress
  BY <1>1, <1>3, <1>4, OnlyMappings
<1>12. /\ server'.imported = server.imported /\ server'.reviewed = server.reviewed
       /\ server'.picked = picked /\ server'.discarded = server.discarded
  BY <1>1, <1>5, ImportStoreShape
<1>13. page.todo = <<>> /\ page.progress = <<>> /\ server.imported = <<>>
  BY DEF ImportInv, PhasesInv, Import!Shows
<1>14. PhasesInv(page', server')
  BY <1>11, <1>12 DEF ImportInv, PhasesInv
<1>15. ReviewInv(page', server')
  <2> SUFFICES ASSUME page.selected # <<>> PROVE ReviewInv(page', server')
    BY <1>11 DEF ReviewInv
  <2>1. /\ server.reviewed = DOMAIN page.drafts
        /\ \A x \in DOMAIN page.drafts : DOMAIN page.drafts[x] = Wanted(server, x)
        /\ \A x \in ImportWorkspaces : Import!CollectionIds(page, x) = Picked(server, x)
    BY DEF ImportInv, ReviewInv, Import!Shows
  <2>2. \A x : Wanted(server', x) = Wanted(server, x)
    BY <1>12 DEF Wanted
  <2>3. Picked(server', w) = CollectionsOf(rows)
    BY <1>6, <1>8, <1>12 DEF Picked
  <2>4. \A x : x # w => Picked(server', x) = Picked(server, x)
    BY <1>8, <1>12 DEF Picked
  <2>5. ASSUME NEW x \in ImportWorkspaces
        PROVE  Import!CollectionIds(page', x) = Picked(server', x)
    <3>1. Import!CollectionIds(page', x) = CollectionsOf(RowsFor(m, x))
      BY <1>11, CollectionIdsOfRows
    <3>2. Import!CollectionIds(page, x) = CollectionsOf(RowsFor(page.mappings, x))
      BY CollectionIdsOfRows
    <3>3. CASE x = w
      BY <1>3, <2>3, <3>1, <3>3
    <3>4. CASE x # w
      BY <1>3, <2>1, <2>4, <3>1, <3>2, <3>4
    <3> QED
      BY <3>3, <3>4
  <2> QED
    BY <1>11, <1>12, <2>1, <2>2, <2>5 DEF ReviewInv
<1>16. RequestsInv(page', server')
  BY <1>11, <1>12, <1>13 DEF RequestsInv
<1>17. ProgressInv(page', server')
  BY <1>11, <1>12, <1>13, NothingToImport
<1> QED
  BY <1>9, <1>10, <1>14, <1>15, <1>16, <1>17 DEF ImportInv

LEMMA RowEditsInv ==
    ASSUME ImportInv, NEW w \in ImportWorkspaces,
           \/ Import!HandleMappingSelectionChange(w)
           \/ Import!HandleAddAdditionalCollection(w)
           \/ Import!HandleRemoveAdditionalCollection(w)
    PROVE  ImportInv'
<1> DEFINE rows == Import!RowsOf(page, w)
<1>1. rows \in Seq(MappingRow)
  <2>1. page.mappings \in PerWorkspace(Seq(MappingRow))
    BY DEF ImportInv, ImportPage
  <2>2. rows = RowsFor(page.mappings, w)
    BY DEF Import!RowsOf, RowsFor
  <2> QED
    BY <2>1, <2>2, RowsTyped
<1>2. CASE Import!HandleMappingSelectionChange(w)
  <2>1. PICK i \in DOMAIN rows, c \in Collections \cup {None} :
          Import!UpdateCurrentWorkspaceMappings(w, [rows EXCEPT ![i].collection = c])
    BY <1>2 DEF Import!HandleMappingSelectionChange, Import!None, None
  <2>2. Import!Shows(w)
    BY <1>2 DEF Import!HandleMappingSelectionChange
  <2> DEFINE new == [rows EXCEPT ![i].collection = c]
  <2> HIDE DEF rows
  <2>3. new \in Seq(MappingRow)
    <3> DEFINE row == [rows[i] EXCEPT !.collection = c]
    <3>1. rows[i] \in MappingRow
      BY <1>1
    <3>2. row \in MappingRow
      BY <3>1 DEF MappingRow
    <3>3. new = [rows EXCEPT ![i] = row]
      OBVIOUS
    <3> HIDE DEF new, row
    <3> QED
      BY <1>1, <3>2, <3>3
  <2>4. Import!UpdateCurrentWorkspaceMappings(w, new)
    BY <2>1
  <2> HIDE DEF new
  <2> QED
    BY <2>2, <2>3, <2>4, MappingsUpdatedInv
<1>3. CASE Import!HandleAddAdditionalCollection(w)
  <2> DEFINE row == Import!Row(TRUE)
             new == Append(rows, row)
  <2>1. Import!UpdateCurrentWorkspaceMappings(w, new) /\ Import!Shows(w)
    BY <1>3 DEF Import!HandleAddAdditionalCollection
  <2>2. new \in Seq(MappingRow)
    <3>1. row \in MappingRow
      BY DEF Import!Row, MappingRow, Import!None, None
    <3> HIDE DEF rows, row
    <3> QED
      BY <1>1, <3>1
  <2> HIDE DEF new
  <2> QED
    BY <2>1, <2>2, MappingsUpdatedInv
<1>4. CASE Import!HandleRemoveAdditionalCollection(w)
  <2>1. PICK i \in DOMAIN rows : Import!UpdateCurrentWorkspaceMappings(w, Import!RemoveAt(rows, i))
    BY <1>4 DEF Import!HandleRemoveAdditionalCollection
  <2>2. Import!Shows(w)
    BY <1>4 DEF Import!HandleRemoveAdditionalCollection
  <2> DEFINE before == SubSeq(rows, 1, i - 1)
             after == SubSeq(rows, i + 1, Len(rows))
             new == before \o after
  <2> HIDE DEF rows
  <2>3. before \in Seq(MappingRow) /\ after \in Seq(MappingRow)
    BY <1>1, SubSeqProperties
  <2>4. new \in Seq(MappingRow)
    <3> HIDE DEF before, after
    <3> QED
      BY <2>3
  <2>5. Import!UpdateCurrentWorkspaceMappings(w, new)
    BY <2>1 DEF Import!RemoveAt
  <2> HIDE DEF new
  <2> QED
    BY <2>2, <2>4, <2>5, MappingsUpdatedInv
<1> QED
  BY <1>2, <1>3, <1>4
--------------------------------------------------------------------------------
(* The sensitive variables of a workspace in its review.                    *)
LEMMA OnlyDrafts ==
    ASSUME NEW p \in ImportPage, NEW d \in PerWorkspace(VariableDrafts),
           NEW q, q = [p EXCEPT !.drafts = d]
    PROVE  /\ q \in ImportPage /\ q.drafts = d
           /\ q.selected = p.selected /\ q.detailsFor = p.detailsFor /\ q.mappings = p.mappings
           /\ q.modalOpen = p.modalOpen /\ q.importing = p.importing
           /\ q.todo = p.todo /\ q.progress = p.progress
<1>1. q \in ImportPage
  BY DEF ImportPage
<1> QED
  BY <1>1, ImportPageShape

LEMMA SetsDraft ==
    ASSUME NEW drafts \in PerWorkspace(VariableDrafts), NEW w \in DOMAIN drafts,
           NEW draft \in VariableDrafts
    PROVE  [drafts EXCEPT ![w] = draft] \in PerWorkspace(VariableDrafts)
<1>1. PICK W \in SUBSET ImportWorkspaces : drafts \in [W -> VariableDrafts]
  BY DEF PerWorkspace
<1>2. [drafts EXCEPT ![w] = draft] \in [W -> VariableDrafts]
  BY <1>1
<1> QED
  BY <1>2 DEF PerWorkspace

LEMMA DraftTyped ==
    ASSUME NEW drafts \in PerWorkspace(VariableDrafts), NEW w \in DOMAIN drafts
    PROVE  drafts[w] \in VariableDrafts
BY DEF PerWorkspace

LEMMA DraftValue ==
    ASSUME NEW draft \in VariableDrafts, NEW v \in DOMAIN draft, NEW value \in {None, "value"}
    PROVE  /\ [draft EXCEPT ![v] = value] \in VariableDrafts
           /\ DOMAIN [draft EXCEPT ![v] = value] = DOMAIN draft
<1>1. PICK V \in SUBSET SensitiveVariables : draft \in [V -> {None, "value"}]
  BY DEF VariableDrafts
<1>2. [draft EXCEPT ![v] = value] \in [V -> {None, "value"}]
  BY <1>1
<1> QED
  BY <1>1, <1>2 DEF VariableDrafts

LEMMA DraftWithout ==
    ASSUME NEW draft \in VariableDrafts, NEW v
    PROVE  /\ Import!Without(draft, v) \in VariableDrafts
           /\ DOMAIN Import!Without(draft, v) = DOMAIN draft \ {v}
<1> DEFINE new == Import!Without(draft, v)
<1>1. PICK V \in SUBSET SensitiveVariables : draft \in [V -> {None, "value"}]
  BY DEF VariableDrafts
<1>2. new = [k \in V \ {v} |-> draft[k]]
  BY <1>1 DEF Import!Without
<1> HIDE DEF new
<1>3. new \in [V \ {v} -> {None, "value"}] /\ V \ {v} \in SUBSET SensitiveVariables
  BY <1>1, <1>2
<1> QED
  BY <1>1, <1>2, <1>3 DEF VariableDrafts, new

DraftBecomes(p, q, w, draft) == q = [p EXCEPT !.drafts = [p.drafts EXCEPT ![w] = draft]]

(* Of what a review holds, the draft of one workspace and what is discarded *)
(* there change together.                                                   *)
LEMMA DraftUpdatedInv ==
    ASSUME ImportInv, NEW w \in DOMAIN page.drafts, Import!Shows(w),
           NEW draft \in VariableDrafts, NEW discarded \in SUBSET (ImportWorkspaces \X SensitiveVariables),
           DraftBecomes(page, page', w, draft),
           server' = [server EXCEPT !.discarded = discarded],
           page.selected # <<>> /\ DOMAIN page.drafts[w] = Wanted(server, w) =>
             DOMAIN draft = {v \in SensitiveVariables : <<w, v>> \notin discarded},
           \A x, v : x # w => (<<x, v>> \in discarded <=> <<x, v>> \in server.discarded)
    PROVE  ImportInv'
<1> DEFINE d == [page.drafts EXCEPT ![w] = draft]
<1>1. page \in ImportPage /\ server \in ImportStore
  BY DEF ImportInv
<1>2. page.drafts \in PerWorkspace(VariableDrafts)
  BY <1>1 DEF ImportPage
<1>3. /\ d \in PerWorkspace(VariableDrafts) /\ DOMAIN d = DOMAIN page.drafts /\ d[w] = draft
      /\ \A x \in DOMAIN d : x # w => d[x] = page.drafts[x]
  BY <1>2, SetsDraft
<1>4. page' = [page EXCEPT !.drafts = d]
  BY DEF DraftBecomes
<1> HIDE DEF d
<1>5. /\ page' \in ImportPage /\ page'.drafts = d
      /\ page'.selected = page.selected /\ page'.detailsFor = page.detailsFor
      /\ page'.mappings = page.mappings
      /\ page'.modalOpen = page.modalOpen /\ page'.importing = page.importing
      /\ page'.todo = page.todo /\ page'.progress = page.progress
  BY <1>1, <1>3, <1>4, OnlyDrafts
<1>6. /\ server' \in ImportStore /\ server'.discarded = discarded
      /\ server'.imported = server.imported /\ server'.reviewed = server.reviewed
      /\ server'.picked = server.picked
  <2>1. server' \in ImportStore
    BY <1>1 DEF ImportStore
  <2> QED
    BY <1>1, <2>1, ImportStoreShape
<1>7. page.todo = <<>> /\ page.progress = <<>> /\ server.imported = <<>>
  BY DEF ImportInv, PhasesInv, Import!Shows
<1>8. PhasesInv(page', server')
  BY <1>5, <1>6 DEF ImportInv, PhasesInv
<1>9. ReviewInv(page', server')
  <2> SUFFICES ASSUME page.selected # <<>> PROVE ReviewInv(page', server')
    BY <1>5 DEF ReviewInv
  <2>1. /\ server.reviewed = DOMAIN page.drafts
        /\ \A x \in DOMAIN page.drafts : DOMAIN page.drafts[x] = Wanted(server, x)
        /\ \A x \in ImportWorkspaces : Import!CollectionIds(page, x) = Picked(server, x)
    BY DEF ImportInv, ReviewInv, Import!Shows
  <2>2. Wanted(server', w) = DOMAIN draft
    BY <1>6, <2>1 DEF Wanted
  <2>3. \A x : x # w => Wanted(server', x) = Wanted(server, x)
    BY <1>6 DEF Wanted
  <2>4. \A x : Picked(server', x) = Picked(server, x)
    BY <1>6 DEF Picked
  <2>5. \A x : Import!CollectionIds(page', x) = Import!CollectionIds(page, x)
    BY <1>5, CollectionIdsOfRows
  <2>6. \A x \in DOMAIN d : DOMAIN d[x] = Wanted(server', x)
    BY <1>3, <2>1, <2>2, <2>3
  <2> QED
    BY <1>3, <1>5, <1>6, <2>1, <2>4, <2>5, <2>6 DEF ReviewInv
<1>10. RequestsInv(page', server')
  BY <1>5, <1>6, <1>7 DEF RequestsInv
<1>11. ProgressInv(page', server')
  BY <1>5, <1>6, <1>7, NothingToImport
<1> QED
  BY <1>5, <1>6, <1>8, <1>9, <1>10, <1>11 DEF ImportInv

LEMMA DraftEditsInv ==
    ASSUME ImportInv, NEW w \in ImportWorkspaces,
           \/ Import!HandleSensitiveVariableValueChange(w)
           \/ Import!HandleRemoveSensitiveVariable(w)
    PROVE  ImportInv'
<1>1. page \in ImportPage /\ server \in ImportStore
  BY DEF ImportInv
<1>2. page.drafts \in PerWorkspace(VariableDrafts)
      /\ server.discarded \in SUBSET (ImportWorkspaces \X SensitiveVariables)
  BY <1>1 DEF ImportPage, ImportStore
<1>3. Import!Shows(w)
  BY DEF Import!HandleSensitiveVariableValueChange, Import!HandleRemoveSensitiveVariable
<1>4. ASSUME NEW v \in DOMAIN Import!DraftsOf(page, w)
      PROVE  w \in DOMAIN page.drafts /\ v \in DOMAIN page.drafts[w]
  BY <1>4 DEF Import!DraftsOf
<1>5. CASE Import!HandleSensitiveVariableValueChange(w)
  <2>1. PICK v \in DOMAIN Import!DraftsOf(page, w), value \in {None, "value"} :
          page' = [page EXCEPT !.drafts[w][v] = value]
    BY <1>5 DEF Import!HandleSensitiveVariableValueChange, Import!None, None
  <2>2. w \in DOMAIN page.drafts /\ v \in DOMAIN page.drafts[w]
    BY <1>4
  <2> DEFINE draft == [page.drafts[w] EXCEPT ![v] = value]
  <2>3. draft \in VariableDrafts /\ DOMAIN draft = DOMAIN page.drafts[w]
    BY <1>2, <2>2, DraftTyped, DraftValue
  <2>4. DraftBecomes(page, page', w, draft)
    BY <2>1 DEF DraftBecomes
  <2>5. server' = [server EXCEPT !.discarded = server.discarded]
    <3>1. server' = server
      BY <1>5 DEF Import!HandleSensitiveVariableValueChange
    <3> QED
      BY <1>1, <3>1 DEF ImportStore
  <2>6. DOMAIN page.drafts[w] = Wanted(server, w) =>
           DOMAIN draft = {x \in SensitiveVariables : <<w, x>> \notin server.discarded}
    BY <2>3 DEF Wanted
  <2> HIDE DEF draft
  <2> QED
    BY <1>2, <1>3, <2>2, <2>3, <2>4, <2>5, <2>6, DraftUpdatedInv
<1>6. CASE Import!HandleRemoveSensitiveVariable(w)
  <2>1. PICK v \in DOMAIN Import!DraftsOf(page, w) :
          /\ page' = [page EXCEPT !.drafts[w] = Import!Without(page.drafts[w], v)]
          /\ server' = [server EXCEPT !.discarded = server.discarded \cup {<<w, v>>}]
    BY <1>6 DEF Import!HandleRemoveSensitiveVariable
  <2>2. w \in DOMAIN page.drafts /\ v \in DOMAIN page.drafts[w]
    BY <1>4
  <2> DEFINE draft == Import!Without(page.drafts[w], v)
             discarded == server.discarded \cup {<<w, v>>}
  <2>3. page.drafts[w] \in VariableDrafts
    BY <1>2, <2>2, DraftTyped
  <2>4. draft \in VariableDrafts /\ DOMAIN draft = DOMAIN page.drafts[w] \ {v}
    BY <2>3, DraftWithout
  <2>5. v \in SensitiveVariables
    BY <2>2, <2>3 DEF VariableDrafts
  <2>6. DraftBecomes(page, page', w, draft)
    BY <2>1 DEF DraftBecomes
  <2>7. server' = [server EXCEPT !.discarded = discarded]
    BY <2>1
  <2>8. discarded \in SUBSET (ImportWorkspaces \X SensitiveVariables)
    BY <1>2, <2>5
  <2>9. DOMAIN page.drafts[w] = Wanted(server, w) =>
           DOMAIN draft = {x \in SensitiveVariables : <<w, x>> \notin discarded}
    BY <2>4 DEF Wanted
  <2>10. \A x, y : x # w => (<<x, y>> \in discarded <=> <<x, y>> \in server.discarded)
    OBVIOUS
  <2> HIDE DEF draft, discarded
  <2> QED
    BY <1>3, <2>2, <2>4, <2>6, <2>7, <2>8, <2>9, <2>10, DraftUpdatedInv
<1> QED
  BY <1>5, <1>6
--------------------------------------------------------------------------------
(* The modal is closed: by its button, or by "Next" with nothing to show.   *)
LEMMA ModalClosed ==
    ASSUME NEW p \in ImportPage, NEW q, q = Import!CloseModal(p)
    PROVE  /\ q \in ImportPage /\ q.modalOpen = FALSE
           /\ q.selected = p.selected /\ q.detailsFor = p.detailsFor
           /\ q.importing = p.importing /\ q.todo = p.todo /\ q.progress = p.progress
<1>1. q = [p EXCEPT !.modalOpen = FALSE, !.index = 1, !.mappings = <<>>, !.drafts = <<>>]
  BY DEF Import!CloseModal
<1>2. q \in ImportPage
  <2>1. <<>> \in PerWorkspace(Seq(MappingRow)) /\ <<>> \in PerWorkspace(VariableDrafts)
    BY NothingPerWorkspace
  <2>2. \A m \in PerWorkspace(Seq(MappingRow)), d \in PerWorkspace(VariableDrafts), i \in Nat :
           [p EXCEPT !.modalOpen = FALSE, !.index = i, !.mappings = m, !.drafts = d]
               \in ImportPage
    BY DEF ImportPage
  <2>3. [p EXCEPT !.modalOpen = FALSE, !.index = 1, !.mappings = <<>>, !.drafts = <<>>]
            \in ImportPage
    <3> DEFINE first == 1
               none == <<>>
    <3>1. first \in Nat /\ none \in PerWorkspace(Seq(MappingRow))
          /\ none \in PerWorkspace(VariableDrafts)
      BY <2>1
    <3> HIDE DEF first, none
    <3>2. [p EXCEPT !.modalOpen = FALSE, !.index = first, !.mappings = none, !.drafts = none]
              \in ImportPage
      BY <2>2, <3>1
    <3> QED
      BY <3>2 DEF first, none
  <2> QED
    BY <1>1, <2>3
<1>3. \A m, d, i : LET r == [p EXCEPT !.modalOpen = FALSE, !.index = i, !.mappings = m,
                                     !.drafts = d]
                  IN  /\ r.modalOpen = FALSE
                      /\ r.selected = p.selected /\ r.detailsFor = p.detailsFor
                      /\ r.importing = p.importing /\ r.todo = p.todo
                      /\ r.progress = p.progress
  BY ImportPageShape
<1> QED
  BY <1>1, <1>2, <1>3

LEMMA NothingReviewedStore ==
    ASSUME NEW s \in ImportStore, NEW t, t = Import!NothingReviewed(s)
    PROVE  t \in ImportStore /\ t.reviewed = {} /\ t.imported = s.imported
<1>1. t = [s EXCEPT !.reviewed = {}, !.picked = {}, !.discarded = {}]
  BY DEF Import!NothingReviewed
<1>2. t \in ImportStore
  BY <1>1 DEF ImportStore
<1> QED
  BY <1>1, <1>2, ImportStoreShape

LEMMA ReviewClosedInv ==
    ASSUME ImportInv, page' = Import!CloseModal(page), server' = Import!NothingReviewed(server)
    PROVE  ImportInv'
<1>1. page \in ImportPage /\ server \in ImportStore
  BY DEF ImportInv
<1>2. /\ page' \in ImportPage /\ page'.modalOpen = FALSE
      /\ page'.selected = page.selected /\ page'.detailsFor = page.detailsFor
      /\ page'.importing = page.importing /\ page'.todo = page.todo
      /\ page'.progress = page.progress
  BY <1>1, ModalClosed
<1>3. server' \in ImportStore /\ server'.reviewed = {} /\ server'.imported = server.imported
  BY <1>1, NothingReviewedStore
<1>4. PhasesInv(page', server') /\ ReviewInv(page', server')
  BY <1>2, <1>3 DEF ImportInv, PhasesInv, ReviewInv
<1>5. RequestsInv(page', server')
  BY <1>3 DEF RequestsInv, AsReviewed
<1>6. ProgressInv(page', server')
  BY <1>2, <1>3 DEF ImportInv, ProgressInv
<1> QED
  BY <1>2, <1>3, <1>4, <1>5, <1>6 DEF ImportInv

LEMMA NextShownInv ==
    ASSUME ImportInv, page' = [page EXCEPT !.index = page.index + 1], UNCHANGED server
    PROVE  ImportInv'
<1> DEFINE index == page.index + 1
<1>1. page \in ImportPage
  BY DEF ImportInv
<1>2. index \in Nat
  BY <1>1 DEF ImportPage
<1>3. page' = [page EXCEPT !.index = index]
  OBVIOUS
<1> HIDE DEF index
<1>4. page' \in ImportPage
  BY <1>1, <1>2, <1>3 DEF ImportPage
<1> QED
  BY <1>1, <1>3, <1>4, ImportPageShape, WizardStepKeeps

Reviewing(p) == p.modalOpen

(* The requests of an import are what the review has come to.               *)
LEMMA RequestsOfReview ==
    ASSUME ImportInv, Reviewing(page), page.selected # <<>>, NEW w \in ImportWorkspaces
    PROVE  /\ Import!Request(page, w) \in ImportRequest
           /\ Import!Request(page, w).workspace = w
           /\ AsReviewed(server, Import!Request(page, w))
<1>1. /\ server.reviewed = DOMAIN page.drafts
      /\ \A x \in DOMAIN page.drafts : DOMAIN page.drafts[x] = Wanted(server, x)
      /\ \A x \in ImportWorkspaces : Import!CollectionIds(page, x) = Picked(server, x)
  BY DEF ImportInv, ReviewInv, Reviewing
<1> DEFINE ids == Import!CollectionIds(page, w)
           variables == DOMAIN Import!DraftsOf(page, w)
           request == Import!Request(page, w)
<1>2. ids = Picked(server, w) /\ ids \subseteq Collections
  BY <1>1 DEF Picked
<1>3. /\ variables \subseteq SensitiveVariables
      /\ w \in server.reviewed => variables = Wanted(server, w)
  <2>1. CASE w \in DOMAIN page.drafts
    BY <1>1, <2>1 DEF Import!DraftsOf, Wanted
  <2>2. CASE w \notin DOMAIN page.drafts
    <3>1. variables = {}
      BY <2>2 DEF Import!DraftsOf
    <3> QED
      BY <1>1, <2>2, <3>1
  <2> QED
    BY <2>1, <2>2
<1>4. request = [workspace |-> w, vcsId |-> page.vcsId, collections |-> ids,
                 variables |-> variables]
  BY DEF Import!Request
<1>5. page.vcsId \in {None, "provider"}
  BY DEF ImportInv, ImportPage
<1> HIDE DEF ids, variables, request
<1>6. request \in ImportRequest /\ request.workspace = w
  BY <1>2, <1>3, <1>4, <1>5 DEF ImportRequest
<1>7. AsReviewed(server, request)
  BY <1>2, <1>3, <1>4 DEF AsReviewed
<1> QED
  BY <1>6, <1>7 DEF request

(* What the last "Next" does to the page.                                   *)
HasBegun(p, q, todo, progress) ==
    /\ q \in ImportPage /\ q.modalOpen = FALSE /\ q.importing = TRUE
    /\ q.selected = p.selected /\ q.detailsFor = p.detailsFor
    /\ q.todo = todo /\ q.progress = progress

LEMMA ImportStartedPage ==
    ASSUME NEW p \in ImportPage,
           NEW todo \in Seq(ImportRequest), NEW progress \in PerWorkspace(ImportResults),
           NEW q, q = [Import!CloseModal(p) EXCEPT !.importing = TRUE, !.todo = todo,
                                                   !.progress = progress]
    PROVE  HasBegun(p, q, todo, progress)
<1> DEFINE r == Import!CloseModal(p)
<1>1. /\ r \in ImportPage /\ r.modalOpen = FALSE
      /\ r.selected = p.selected /\ r.detailsFor = p.detailsFor
  BY ModalClosed
<1>2. q = [r EXCEPT !.importing = TRUE, !.todo = todo, !.progress = progress]
  OBVIOUS
<1> HIDE DEF r
<1>3. q \in ImportPage
  BY <1>1, <1>2 DEF ImportPage
<1> QED
  BY <1>1, <1>2, <1>3, ImportPageShape DEF HasBegun

Begun(requests) == [w \in WorkspacesOf(requests) |-> "Importing..."]

LEMMA RowsBegin ==
    ASSUME NEW requests \in Seq(ImportRequest)
    PROVE  Begun(requests) \in PerWorkspace(ImportResults)
<1>1. WorkspacesOf(requests) \in SUBSET ImportWorkspaces
  <2>1. \A i \in DOMAIN requests : requests[i] \in ImportRequest
    OBVIOUS
  <2>2. \A request \in ImportRequest : request.workspace \in ImportWorkspaces
    BY DEF ImportRequest
  <2> QED
    BY <2>1, <2>2 DEF WorkspacesOf
<1>2. Begun(requests) \in [WorkspacesOf(requests) -> ImportResults]
  BY DEF Begun, ImportResults
<1> QED
  BY <1>1, <1>2 DEF PerWorkspace

RequestsNow == [i \in DOMAIN page.selected |-> Import!Request(page, page.selected[i])]

LEMMA RequestsNowType ==
    ASSUME ImportInv, Reviewing(page)
    PROVE  /\ DOMAIN RequestsNow = DOMAIN page.selected /\ RequestsNow \in Seq(ImportRequest)
           /\ \A i \in DOMAIN page.selected :
                 /\ RequestsNow[i].workspace = page.selected[i]
                 /\ AsReviewed(server, RequestsNow[i])
<1>1. page.selected \in Seq(ImportWorkspaces)
  BY DEF ImportInv, ImportPage
<1>2. \A i \in DOMAIN page.selected : page.selected[i] \in ImportWorkspaces /\ page.selected # <<>>
  BY <1>1
<1>3. \A i \in DOMAIN page.selected :
         LET request == Import!Request(page, page.selected[i])
         IN  /\ request \in ImportRequest /\ request.workspace = page.selected[i]
             /\ AsReviewed(server, request)
  BY <1>2, RequestsOfReview
<1>4. /\ DOMAIN RequestsNow = DOMAIN page.selected
      /\ \A i \in DOMAIN page.selected :
            RequestsNow[i] = Import!Request(page, page.selected[i])
  BY DEF RequestsNow
<1>5. DOMAIN RequestsNow = 1 .. Len(page.selected) /\ Len(page.selected) \in Nat
  BY <1>1, <1>4
<1>6. RequestsNow = [i \in 1 .. Len(page.selected) |-> RequestsNow[i]]
  BY <1>4, <1>5 DEF RequestsNow
<1>7. \A i \in 1 .. Len(page.selected) : RequestsNow[i] \in ImportRequest
  BY <1>3, <1>4, <1>5
<1>8. RequestsNow \in Seq(ImportRequest)
  <2> DEFINE requests == RequestsNow
             n == Len(page.selected)
  <2>1. /\ requests = [i \in 1 .. n |-> requests[i]] /\ n \in Nat
        /\ \A i \in 1 .. n : requests[i] \in ImportRequest
    BY <1>5, <1>6, <1>7
  <2> HIDE DEF requests, n
  <2>2. requests \in [1 .. n -> ImportRequest]
    BY <2>1
  <2>3. requests \in Seq(ImportRequest)
    BY <2>1, <2>2
  <2> QED
    BY <2>3 DEF requests
<1> QED
  BY <1>3, <1>4, <1>8

ImportBegins ==
    page' = [Import!CloseModal(page) EXCEPT
        !.importing = TRUE,
        !.todo = [i \in DOMAIN page.selected |-> Import!Request(page, page.selected[i])],
        !.progress = [w \in Import!Range(page.selected) |-> "Importing..."]]

LEMMA ImportStartedInv ==
    ASSUME ImportInv, Reviewing(page), UNCHANGED server, ImportBegins
    PROVE  ImportInv'
<1> DEFINE todo == RequestsNow
           progress == Begun(todo)
<1>1. page \in ImportPage /\ server \in ImportStore
  BY DEF ImportInv
<1>2. /\ DOMAIN todo = DOMAIN page.selected /\ todo \in Seq(ImportRequest)
      /\ \A i \in DOMAIN page.selected :
            todo[i].workspace = page.selected[i] /\ AsReviewed(server, todo[i])
  BY RequestsNowType
<1>3. progress \in PerWorkspace(ImportResults)
  BY <1>2, RowsBegin
<1>4. page' = [Import!CloseModal(page) EXCEPT !.importing = TRUE, !.todo = todo,
                                              !.progress = progress]
  <2> HIDE DEF todo
  <2>1. WorkspacesOf(todo) = Import!Range(page.selected)
    BY <1>2 DEF WorkspacesOf, Import!Range
  <2>2. [w \in Import!Range(page.selected) |-> "Importing..."] = progress
    BY <2>1 DEF Begun
  <2> QED
    BY <2>2 DEF ImportBegins, RequestsNow, todo
<1>5. /\ DOMAIN progress = WorkspacesOf(todo)
      /\ \A w \in DOMAIN progress : progress[w] = "Importing..."
  BY DEF Begun
<1>6. server.imported = <<>> /\ page.detailsFor = <<>>
      /\ \A i, j \in DOMAIN page.selected : page.selected[i] = page.selected[j] => i = j
  <2>1. page.detailsFor = <<>> /\ ~ page.importing
    BY DEF ImportInv, PhasesInv, Reviewing
  <2> QED
    BY <2>1 DEF ImportInv, PhasesInv
<1> HIDE DEF todo, progress
<1>7. /\ page' \in ImportPage /\ page'.modalOpen = FALSE /\ page'.importing = TRUE
      /\ page'.selected = page.selected /\ page'.detailsFor = page.detailsFor
      /\ page'.todo = todo /\ page'.progress = progress
  <2>1. todo \in Seq(ImportRequest)
    BY <1>2
  <2>2. HasBegun(page, page', todo, progress)
    BY <1>1, <1>3, <1>4, <2>1, ImportStartedPage
  <2> QED
    BY <2>2 DEF HasBegun
<1>8. PhasesInv(page', server') /\ ReviewInv(page', server')
  BY <1>6, <1>7 DEF PhasesInv, ReviewInv
<1>9. RequestsInv(page', server')
  BY <1>2, <1>6, <1>7 DEF RequestsInv
<1>10. ProgressInv(page', server')
  <2>1. /\ WorkspacesOf(server.imported) = {} /\ IsFiniteSet(WorkspacesOf(server.imported))
        /\ Cardinality(WorkspacesOf(server.imported)) = Len(server.imported)
    BY <1>6, NoRequests, FS_EmptySet
  <2>2. \A i, j \in DOMAIN todo : todo[i].workspace = todo[j].workspace => i = j
    BY <1>2, <1>6
  <2>3. server'.imported = server.imported
    OBVIOUS
  <2> QED
    BY <1>5, <1>7, <2>1, <2>2, <2>3 DEF ProgressInv
<1> QED
  BY <1>1, <1>7, <1>8, <1>9, <1>10 DEF ImportInv

LEMMA HandleNextInv == ASSUME ImportInv, Import!HandleNextWorkspaceMapping PROVE ImportInv'
<1>1. CASE page' = Import!CloseModal(page) /\ server' = Import!NothingReviewed(server)
  BY <1>1, ReviewClosedInv
<1>2. CASE page' = [page EXCEPT !.index = page.index + 1] /\ UNCHANGED server
  BY <1>2, NextShownInv
<1>3. CASE ImportBegins /\ UNCHANGED server
  <2>1. Reviewing(page)
    BY DEF Import!HandleNextWorkspaceMapping, Reviewing
  <2> QED
    BY <1>3, <2>1, ImportStartedInv
<1> QED
  BY <1>1, <1>2, <1>3 DEF Import!HandleNextWorkspaceMapping, ImportBegins
--------------------------------------------------------------------------------
(* One workspace after the other: the first request of those left.          *)
LEMMA WorkspacesAfterFirst ==
    ASSUME NEW requests \in Seq(ImportRequest), requests # <<>>,
           \A i, j \in DOMAIN requests : requests[i].workspace = requests[j].workspace => i = j
    PROVE  /\ Head(requests) = requests[1] /\ 1 \in DOMAIN requests
           /\ Head(requests) \in ImportRequest /\ Tail(requests) \in Seq(ImportRequest)
           /\ \A i \in DOMAIN Tail(requests) :
                 i + 1 \in DOMAIN requests /\ Tail(requests)[i] = requests[i + 1]
           /\ \A i, j \in DOMAIN Tail(requests) :
                 Tail(requests)[i].workspace = Tail(requests)[j].workspace => i = j
           /\ WorkspacesOf(Tail(requests)) = WorkspacesOf(requests) \ {Head(requests).workspace}
           /\ Head(requests).workspace \in WorkspacesOf(requests)
<1>1. /\ Len(requests) \in Nat \ {0} /\ DOMAIN requests = 1 .. Len(requests)
      /\ Tail(requests) \in Seq(ImportRequest) /\ Len(Tail(requests)) = Len(requests) - 1
      /\ DOMAIN Tail(requests) = 1 .. (Len(requests) - 1)
      /\ \A i \in 1 .. (Len(requests) - 1) : Tail(requests)[i] = requests[i + 1]
  OBVIOUS
<1>2. Head(requests) = requests[1] /\ 1 \in DOMAIN requests /\ Head(requests) \in ImportRequest
  BY <1>1
<1> DEFINE rest == Tail(requests)
           first == Head(requests)
           n == Len(requests)
<1>3. \A i \in DOMAIN rest : i + 1 \in DOMAIN requests /\ rest[i] = requests[i + 1] /\ i \in Nat
  BY <1>1
<1> HIDE DEF rest, first
<1>4. \A i, j \in DOMAIN rest : rest[i].workspace = rest[j].workspace => i = j
  <2> SUFFICES ASSUME NEW i \in DOMAIN rest, NEW j \in DOMAIN rest,
                      rest[i].workspace = rest[j].workspace
               PROVE  i = j
    OBVIOUS
  <2>1. requests[i + 1].workspace = requests[j + 1].workspace
    BY <1>3
  <2>2. i + 1 = j + 1
    BY <1>3, <2>1
  <2> QED
    BY <1>3, <2>2
<1>5. WorkspacesOf(rest) \subseteq WorkspacesOf(requests) \ {first.workspace}
  <2> SUFFICES ASSUME NEW i \in DOMAIN rest
               PROVE  rest[i].workspace \in WorkspacesOf(requests) \ {first.workspace}
    BY DEF WorkspacesOf
  <2>1. i + 1 \in DOMAIN requests /\ rest[i] = requests[i + 1] /\ i + 1 # 1
    BY <1>1, <1>3 DEF rest
  <2>2. first = requests[1] /\ 1 \in DOMAIN requests
    BY <1>2 DEF first
  <2>3. requests[i + 1].workspace # requests[1].workspace
    BY <2>1, <2>2
  <2> QED
    BY <2>1, <2>2, <2>3 DEF WorkspacesOf
<1>6. WorkspacesOf(requests) \ {first.workspace} \subseteq WorkspacesOf(rest)
  <2> SUFFICES ASSUME NEW k \in DOMAIN requests, requests[k].workspace # first.workspace
               PROVE  requests[k].workspace \in WorkspacesOf(rest)
    BY DEF WorkspacesOf
  <2>1. k # 1
    BY <1>2 DEF first
  <2>2. k - 1 \in DOMAIN rest /\ rest[k - 1] = requests[k]
    BY <1>1, <2>1 DEF rest
  <2> QED
    BY <2>2 DEF WorkspacesOf
<1>7. first.workspace \in WorkspacesOf(requests)
  BY <1>2 DEF WorkspacesOf, first
<1> QED
  BY <1>1, <1>2, <1>3, <1>4, <1>5, <1>6, <1>7 DEF rest, first

LEMMA WorkspacesWithLast ==
    ASSUME NEW requests \in Seq(ImportRequest), NEW last \in ImportRequest
    PROVE  /\ Append(requests, last) \in Seq(ImportRequest)
           /\ Len(Append(requests, last)) = Len(requests) + 1 /\ Len(requests) \in Nat
           /\ WorkspacesOf(Append(requests, last)) = WorkspacesOf(requests) \cup {last.workspace}
           /\ \A i \in DOMAIN Append(requests, last) :
                 \/ Append(requests, last)[i] = last
                 \/ i \in DOMAIN requests /\ Append(requests, last)[i] = requests[i]
<1> DEFINE more == Append(requests, last)
           n == Len(requests)
<1>1. /\ more \in Seq(ImportRequest) /\ Len(more) = n + 1 /\ n \in Nat
      /\ DOMAIN requests = 1 .. n /\ DOMAIN more = 1 .. n + 1
      /\ more[n + 1] = last /\ \A i \in 1 .. n : more[i] = requests[i]
  OBVIOUS
<1> HIDE DEF more, n
<1>2. \A i \in DOMAIN more : \/ i = n + 1 /\ more[i] = last
                             \/ i \in DOMAIN requests /\ more[i] = requests[i]
  BY <1>1
<1>3. n + 1 \in DOMAIN more /\ \A i \in DOMAIN requests : i \in DOMAIN more /\ more[i] = requests[i]
  BY <1>1
<1>4. WorkspacesOf(more) = WorkspacesOf(requests) \cup {last.workspace}
  BY <1>1, <1>2, <1>3 DEF WorkspacesOf
<1> QED
  BY <1>1, <1>2, <1>4 DEF more, n

(* The row of the workspace that was answered is the only one that changes. *)
LEMMA ProgressOfTheRow ==
    ASSUME NEW p \in ImportPage, NEW w \in ImportWorkspaces, NEW result \in ImportResults
    PROVE  /\ Import!SetImportProgress(p, w, result) \in PerWorkspace(ImportResults)
           /\ DOMAIN Import!SetImportProgress(p, w, result) = DOMAIN p.progress
           /\ \A v \in DOMAIN p.progress :
                 Import!SetImportProgress(p, w, result)[v] = IF v = w THEN result ELSE p.progress[v]
<1>1. p.progress \in PerWorkspace(ImportResults)
  BY DEF ImportPage
<1>2. PICK W \in SUBSET ImportWorkspaces : p.progress \in [W -> ImportResults]
  BY <1>1 DEF PerWorkspace
<1>3. Import!SetImportProgress(p, w, result) \in [W -> ImportResults]
  BY <1>2 DEF Import!SetImportProgress
<1> QED
  BY <1>2, <1>3 DEF PerWorkspace, Import!SetImportProgress

(* What an answer does to the page, and to the store.                       *)
HasAnswer(p, q, todo, progress) ==
    /\ q \in ImportPage /\ q.modalOpen = p.modalOpen /\ q.importing = p.importing
    /\ q.selected = p.selected /\ q.detailsFor = p.detailsFor
    /\ q.todo = todo /\ q.progress = progress

LEMMA AnsweredPage ==
    ASSUME NEW p \in ImportPage,
           NEW todo \in Seq(ImportRequest), NEW progress \in PerWorkspace(ImportResults),
           NEW q, q = [p EXCEPT !.todo = todo, !.progress = progress]
    PROVE  HasAnswer(p, q, todo, progress)
<1>1. q \in ImportPage
  BY DEF ImportPage
<1> QED
  BY <1>1, ImportPageShape DEF HasAnswer

LEMMA AnsweredStore ==
    ASSUME NEW s \in ImportStore, NEW imported \in Seq(ImportRequest),
           NEW t, t = [s EXCEPT !.imported = imported]
    PROVE  /\ t \in ImportStore /\ t.imported = imported
           /\ \A r : AsReviewed(t, r) = AsReviewed(s, r)
<1>1. t \in ImportStore
  BY DEF ImportStore
<1>2. /\ t.imported = imported /\ t.reviewed = s.reviewed /\ t.picked = s.picked
      /\ t.discarded = s.discarded
  BY ImportStoreShape
<1> QED
  BY <1>1, <1>2 DEF AsReviewed, Wanted, Picked

Importing(p) == p.importing

(* What was imported: one more with a success, the same with a failure.     *)
AfterAnswer(requests, request, result) ==
    IF result = "imported" THEN Append(requests, request) ELSE requests

LEMMA ImportAnsweredInv ==
    ASSUME ImportInv, NEW result \in {"imported", "failed"}, Import!ImportAnswered(result)
    PROVE  ImportInv'
<1> DEFINE request == Head(page.todo)
           w == request.workspace
           todo == Tail(page.todo)
           progress == Import!SetImportProgress(page, w, result)
           imported == AfterAnswer(server.imported, request, result)
<1>1. /\ page \in ImportPage /\ server \in ImportStore
      /\ page.todo \in Seq(ImportRequest) /\ server.imported \in Seq(ImportRequest)
  BY DEF ImportInv, ImportPage, ImportStore
<1>2. page.todo # <<>> /\ Importing(page)
  BY DEF Import!ImportAnswered, Importing
<1>3. page' = [page EXCEPT !.todo = todo, !.progress = progress]
  BY DEF Import!ImportAnswered
<1>4. server' = [server EXCEPT !.imported = imported]
  BY DEF Import!ImportAnswered, AfterAnswer
<1>5. \A i, j \in DOMAIN page.todo :
         page.todo[i].workspace = page.todo[j].workspace => i = j
  BY DEF ImportInv, ProgressInv
<1>6. /\ request \in ImportRequest /\ todo \in Seq(ImportRequest)
      /\ request = page.todo[1] /\ 1 \in DOMAIN page.todo
      /\ \A i \in DOMAIN todo : i + 1 \in DOMAIN page.todo /\ todo[i] = page.todo[i + 1]
      /\ \A i, j \in DOMAIN todo : todo[i].workspace = todo[j].workspace => i = j
      /\ WorkspacesOf(todo) = WorkspacesOf(page.todo) \ {w} /\ w \in WorkspacesOf(page.todo)
  BY <1>1, <1>2, <1>5, WorkspacesAfterFirst
<1>7. w \in ImportWorkspaces /\ result \in ImportResults
  BY <1>6 DEF ImportRequest, ImportResults
<1>8. /\ progress \in PerWorkspace(ImportResults) /\ DOMAIN progress = DOMAIN page.progress
      /\ \A v \in DOMAIN page.progress :
            progress[v] = IF v = w THEN result ELSE page.progress[v]
  BY <1>1, <1>7, ProgressOfTheRow
<1> HIDE DEF request, todo, progress
<1>9. /\ imported \in Seq(ImportRequest)
      /\ WorkspacesOf(imported) =
            WorkspacesOf(server.imported) \cup (IF result = "imported" THEN {w} ELSE {})
      /\ Len(imported) = Len(server.imported) + (IF result = "imported" THEN 1 ELSE 0)
      /\ \A i \in DOMAIN imported :
            \/ imported[i] = request
            \/ i \in DOMAIN server.imported /\ imported[i] = server.imported[i]
  <2>1. CASE result = "imported"
    <3>1. imported = Append(server.imported, request)
      BY <2>1 DEF AfterAnswer
    <3> HIDE DEF imported
    <3> QED
      BY <1>1, <1>6, <2>1, <3>1, WorkspacesWithLast
  <2>2. CASE result = "failed"
    <3>1. imported = server.imported /\ result # "imported"
      BY <2>2 DEF AfterAnswer
    <3>2. Len(server.imported) \in Nat
      BY <1>1
    <3> HIDE DEF imported
    <3> QED
      BY <1>1, <3>1, <3>2
  <2> QED
    BY <2>1, <2>2
<1> HIDE DEF imported
<1>10. HasAnswer(page, page', todo, progress)
  BY <1>1, <1>3, <1>6, <1>8, AnsweredPage
<1>11. /\ server' \in ImportStore /\ server'.imported = imported
       /\ \A r : AsReviewed(server', r) = AsReviewed(server, r)
  BY <1>1, <1>4, <1>9, AnsweredStore
<1>12. PhasesInv(page', server') /\ ReviewInv(page', server')
  <2>1. /\ page.importing = TRUE /\ page.modalOpen = FALSE /\ page.detailsFor = <<>>
        /\ \A i, j \in DOMAIN page.selected : page.selected[i] = page.selected[j] => i = j
    BY <1>1, <1>2 DEF ImportInv, PhasesInv, Importing, ImportPage
  <2>2. /\ page'.importing = TRUE /\ page'.modalOpen = FALSE /\ page'.detailsFor = <<>>
        /\ page'.selected = page.selected
    BY <1>10, <2>1 DEF HasAnswer
  <2> QED
    BY <2>1, <2>2 DEF PhasesInv, ReviewInv
<1>13. RequestsInv(page', server')
  <2>1. page'.todo = todo
    BY <1>10 DEF HasAnswer
  <2>2. /\ \A i \in DOMAIN page.todo : AsReviewed(server, page.todo[i])
        /\ \A i \in DOMAIN server.imported : AsReviewed(server, server.imported[i])
    BY DEF ImportInv, RequestsInv
  <2>3. \A i \in DOMAIN todo : AsReviewed(server', todo[i])
    BY <1>6, <1>11, <2>2
  <2>4. \A i \in DOMAIN imported : AsReviewed(server', imported[i])
    BY <1>6, <1>9, <1>11, <2>2
  <2> QED
    BY <1>11, <2>1, <2>3, <2>4 DEF RequestsInv
<1>14. ProgressInv(page', server')
  <2>1. page'.todo = todo /\ page'.progress = progress
    BY <1>10 DEF HasAnswer
  <2>2. /\ WorkspacesOf(page.todo) \cap WorkspacesOf(server.imported) = {}
        /\ IsFiniteSet(WorkspacesOf(server.imported))
        /\ Cardinality(WorkspacesOf(server.imported)) = Len(server.imported)
    BY DEF ImportInv, ProgressInv
  <2>3. \A v \in DOMAIN page.progress :
           /\ page.progress[v] = "imported" <=> v \in WorkspacesOf(server.imported)
           /\ page.progress[v] = "Importing..." <=> v \in WorkspacesOf(page.todo)
    BY DEF ImportInv, ProgressInv
  <2>4. w \notin WorkspacesOf(server.imported)
    BY <1>6, <2>2
  <2>5. WorkspacesOf(todo) \cap WorkspacesOf(imported) = {}
    BY <1>6, <1>9, <2>2
  <2>6. IsFiniteSet(WorkspacesOf(imported)) /\ Cardinality(WorkspacesOf(imported)) = Len(imported)
    <3>1. /\ IsFiniteSet(WorkspacesOf(server.imported) \cup {w})
          /\ Cardinality(WorkspacesOf(server.imported) \cup {w}) = Len(server.imported) + 1
      BY <2>2, <2>4, FS_AddElement
    <3>2. Len(server.imported) \in Nat
      BY <1>1
    <3>3. CASE result = "imported"
      BY <1>9, <3>1, <3>3
    <3>4. CASE result = "failed"
      <4>1. /\ WorkspacesOf(imported) = WorkspacesOf(server.imported)
            /\ Len(imported) = Len(server.imported)
        BY <1>9, <3>2, <3>4
      <4> QED
        BY <2>2, <4>1
    <3> QED
      BY <3>3, <3>4
  <2>7. \A v \in DOMAIN progress :
           /\ progress[v] = "imported" <=> v \in WorkspacesOf(imported)
           /\ progress[v] = "Importing..." <=> v \in WorkspacesOf(todo)
    <3> SUFFICES ASSUME NEW v \in DOMAIN progress
                 PROVE  /\ progress[v] = "imported" <=> v \in WorkspacesOf(imported)
                        /\ progress[v] = "Importing..." <=> v \in WorkspacesOf(todo)
      OBVIOUS
    <3>1. CASE v = w
      <4>1. progress[v] = result
        BY <1>8, <3>1
      <4> QED
        BY <1>6, <1>9, <2>4, <3>1, <4>1
    <3>2. CASE v # w
      <4>1. progress[v] = page.progress[v] /\ v \in DOMAIN page.progress
        BY <1>8, <3>2
      <4>2. v \in WorkspacesOf(imported) <=> v \in WorkspacesOf(server.imported)
        BY <1>9, <3>2
      <4>3. v \in WorkspacesOf(todo) <=> v \in WorkspacesOf(page.todo)
        BY <1>6, <3>2
      <4> QED
        BY <2>3, <4>1, <4>2, <4>3
    <3> QED
      BY <3>1, <3>2
  <2> QED
    BY <1>6, <1>11, <2>1, <2>5, <2>6, <2>7 DEF ProgressInv
<1> QED
  BY <1>10, <1>11, <1>12, <1>13, <1>14 DEF ImportInv, HasAnswer

--------------------------------------------------------------------------------
LEMMA ImportStepInv == ImportInv /\ [Import!ImportNext]_pageVars => ImportInv'
<1> SUFFICES ASSUME ImportInv, [Import!ImportNext]_pageVars PROVE ImportInv'
  OBVIOUS
<1>1. CASE UNCHANGED pageVars
  <2>1. page' = page /\ server' = server
    BY <1>1 DEF pageVars
  <2> QED
    BY <2>1 DEF ImportInv, PhasesInv, ReviewInv, RequestsInv, ProgressInv, AsReviewed, Wanted,
        Picked, Import!CollectionIds, Import!RowsOf
<1>2. CASE Import!ImportNext
  <2>1. CASE \/ Import!ClickStep \/ Import!HandlePlatformClick \/ Import!HandleClick
             \/ Import!HandleCliDriven \/ Import!HandleGitClick("provider")
    BY <2>1, WizardClicksInv
  <2>2. CASE Import!OnFinish \/ Import!ListFails
    BY <2>2, ImportListAskedInv
  <2>3. CASE Import!ListArrives
    BY <2>3, ImportListArrivesInv
  <2>4. CASE Import!SelectRows
    BY <2>4, SelectRowsInv
  <2>5. CASE Import!HandleImportClick
    BY <2>5, HandleImportClickInv
  <2>6. CASE Import!DetailsArrive
    BY <2>6, DetailsArriveInv
  <2>7. ASSUME NEW w \in ImportWorkspaces,
               \/ Import!HandleMappingSelectionChange(w)
               \/ Import!HandleAddAdditionalCollection(w)
               \/ Import!HandleRemoveAdditionalCollection(w)
        PROVE  ImportInv'
    BY <2>7, RowEditsInv
  <2>8. ASSUME NEW w \in ImportWorkspaces,
               \/ Import!HandleSensitiveVariableValueChange(w)
               \/ Import!HandleRemoveSensitiveVariable(w)
        PROVE  ImportInv'
    BY <2>8, DraftEditsInv
  <2>9. CASE Import!HandleCloseMappingModal
    <3>1. page' = Import!CloseModal(page) /\ server' = Import!NothingReviewed(server)
      BY <2>9 DEF Import!HandleCloseMappingModal
    <3> QED
      BY <3>1, ReviewClosedInv
  <2>10. CASE Import!HandleNextWorkspaceMapping
    BY <2>10, HandleNextInv
  <2>11. ASSUME NEW result \in {"imported", "failed"}, Import!ImportAnswered(result)
         PROVE  ImportInv'
    BY <2>11, ImportAnsweredInv
  <2> QED
    BY <1>2, <2>1, <2>2, <2>3, <2>4, <2>5, <2>6, <2>7, <2>8, <2>9, <2>10, <2>11
    DEF Import!ImportNext
<1> QED
  BY <1>1, <1>2

(* Choosing, reviewing and importing follow one another, the modal holds    *)
(* what the review has come to, and what is left to import, what was        *)
(* imported and the progress list agree (Import.tsx).                       *)
THEOREM ImportInvariant == ImportSpec => []ImportInv
<1> QED
  BY ImportInitInv, ImportStepInv, PTL DEF ImportSpec

(* Whatever the order of its selections, reviews and lists that come again, *)
(* an import brings the sensitive variables that were not discarded and the *)
(* collections that were picked in the review it follows.                   *)
THEOREM ImportsTheReview == ImportSpec => []ImportedAsReviewed
<1>1. ImportInv => ImportedAsReviewed
  BY DEF ImportInv, RequestsInv, AsReviewed, Wanted, Picked, ImportedAsReviewed,
      Import!ImportedAsReviewed
<1> QED
  BY <1>1, ImportInvariant, PTL

(* No workspace is imported twice, and the rows of the progress list say    *)
(* which were imported and which are still to be.                           *)
THEOREM ProgressIsTrue == ImportSpec => []ProgressTellsTheTruth
<1>1. ImportInv => ProgressTellsTheTruth
  <2> SUFFICES ASSUME ImportInv PROVE ProgressTellsTheTruth
    OBVIOUS
  <2>1. /\ Cardinality(WorkspacesOf(server.imported)) = Len(server.imported)
        /\ \A w \in DOMAIN page.progress :
              /\ page.progress[w] = "imported" <=> w \in WorkspacesOf(server.imported)
              /\ page.progress[w] = "Importing..." <=> w \in WorkspacesOf(page.todo)
    BY DEF ImportInv, ProgressInv
  <2>2. \A requests : {r.workspace : r \in Import!Range(requests)} = WorkspacesOf(requests)
    BY DEF Import!Range, WorkspacesOf
  <2>3. \A S : Import!Cardinality(S) = Cardinality(S)
    BY DEF Import!Cardinality, Cardinality
  <2> QED
    BY <2>1, <2>2, <2>3 DEF ProgressTellsTheTruth, Import!ProgressTellsTheTruth
<1> QED
  BY <1>1, ImportInvariant, PTL

--------------------------------------------------------------------------------
(* The triggers of a workspace's webhook.                                   *)
WebhookSpec == WebhookInit /\ [][WebhookNext]_pageVars

TriggerRow == [id : EventIds, typed : {"blank", "incomplete", "complete"}, created : BOOLEAN]
PendingDelete == [id : EventIds, recordIndex : Int]
WebhookOperation == [op : {"addWebhook", "updateWebhook", "add", "update"},
                     id : EventIds \cup {None}]

WebhookPage ==
    [kind : {"webhook"}, webhookId : BOOLEAN, enabled : BOOLEAN, load : BOOLEAN,
     rows : Seq(TriggerRow), recordIndex : Int, waiting : BOOLEAN,
     deletes : SUBSET PendingDelete, operations : Seq(WebhookOperation),
     sent : Seq(TriggerRow), saved : BOOLEAN, edited : BOOLEAN, raced : BOOLEAN]

WebhookStore == [hook : BOOLEAN, stored : SUBSET EventIds]

(* Only the last row can be the n-th, and then nothing was typed into it.   *)
UncountedFrom(rows, n) ==
    /\ n >= Len(rows)
    /\ \A i \in DOMAIN rows : i >= n => rows[i].typed = "blank" /\ rows[i].created = FALSE

(* What recordIndex is, or will be after one of the deletions under way.    *)
Counts(n, deletes) == {n} \cup {d.recordIndex - 1 : d \in deletes}

(* Rows that can be counted by n now and after any of the deletions, in     *)
(* which every trigger of the API is one that it has.                       *)
Countable(rows, n, deletes, stored) ==
    /\ \A k \in Counts(n, deletes) : UncountedFrom(rows, k)
    /\ \A i, j \in DOMAIN rows : rows[i].id = rows[j].id => i = j
    /\ \A i \in DOMAIN rows, d \in deletes : d.id # rows[i].id
    /\ \A i \in DOMAIN rows : rows[i].created = TRUE => rows[i].id \in stored

CompleteAreIn(rows, stored) ==
    \A i \in DOMAIN rows : rows[i].typed = "complete" => rows[i].id \in stored

(* What the operations left will add.                                       *)
Adding(operations) ==
    {operations[k].id : k \in {l \in DOMAIN operations : operations[l].op = "add"}}

Calm(p) == ~ p.raced
SaysSaved(p) == p.saved
Waits(p) == p.waiting
Unread(p) == p.load /\ ~ p.edited

TableInv(p, s) ==
    /\ Countable(p.rows, p.recordIndex, p.deletes, s.stored)
    /\ SaysSaved(p) => CompleteAreIn(p.rows, s.stored)

SaveInv(p, s) ==
    p.operations # <<>> =>
        /\ Countable(p.sent, p.recordIndex, p.deletes, s.stored \cup Adding(p.operations))
        /\ CompleteAreIn(p.sent, s.stored \cup Adding(p.operations))

(* Before the triggers have come and anything was typed there is one row.   *)
UnreadInv(p) ==
    Unread(p) =>
        /\ p.deletes = {} /\ p.recordIndex = 1 /\ UncountedFrom(p.rows, 1)
        /\ p.operations # <<>> => UncountedFrom(p.sent, 1)

FormInv(p, s) == TableInv(p, s) /\ SaveInv(p, s) /\ UnreadInv(p)

WebhookTypes(p, s) ==
    /\ p \in WebhookPage /\ s \in WebhookStore
    /\ p.operations # <<>> => Waits(p)
    /\ Adding(p.operations) \subseteq EventIds

WebhookInv == WebhookTypes(page, server) /\ (Calm(page) => FormInv(page, server))

LEMMA WebhookPageShape ==
    ASSUME NEW p \in WebhookPage
    PROVE  p = [kind |-> p.kind, webhookId |-> p.webhookId, enabled |-> p.enabled,
                load |-> p.load, rows |-> p.rows, recordIndex |-> p.recordIndex,
                waiting |-> p.waiting, deletes |-> p.deletes, operations |-> p.operations,
                sent |-> p.sent, saved |-> p.saved, edited |-> p.edited, raced |-> p.raced]
BY DEF WebhookPage

LEMMA WebhookStoreShape ==
    ASSUME NEW s \in WebhookStore PROVE s = [hook |-> s.hook, stored |-> s.stored]
BY DEF WebhookStore

LEMMA RowFields ==
    ASSUME NEW rows \in Seq(TriggerRow), NEW i \in DOMAIN rows
    PROVE  /\ rows[i] = [id |-> rows[i].id, typed |-> rows[i].typed,
                         created |-> rows[i].created]
           /\ rows[i] \in TriggerRow /\ rows[i].id \in EventIds /\ i \in Nat
           /\ rows[i].typed \in {"blank", "incomplete", "complete"}
           /\ rows[i].created \in BOOLEAN
<1>1. rows[i] \in TriggerRow /\ i \in Nat
  OBVIOUS
<1> QED
  BY <1>1 DEF TriggerRow

--------------------------------------------------------------------------------
(* How the handlers change a table.                                         *)
LEMMA CountableInMore ==
    ASSUME NEW rows, NEW n, NEW deletes, NEW stored, NEW more,
           Countable(rows, n, deletes, stored), stored \subseteq more
    PROVE  Countable(rows, n, deletes, more)
BY DEF Countable

LEMMA CompleteInMore ==
    ASSUME NEW rows, NEW stored, NEW more, CompleteAreIn(rows, stored), stored \subseteq more
    PROVE  CompleteAreIn(rows, more)
BY DEF CompleteAreIn

LEMMA BlankCountable ==
    ASSUME NEW id \in EventIds, NEW n \in Int, NEW deletes \in SUBSET PendingDelete, NEW stored,
           \A k \in Counts(n, deletes) : k >= 1, \A d \in deletes : d.id # id
    PROVE  /\ Countable(<<BlankRow(id)>>, n, deletes, stored)
           /\ <<BlankRow(id)>> \in Seq(TriggerRow)
           /\ UncountedFrom(<<BlankRow(id)>>, 1)
           /\ CompleteAreIn(<<BlankRow(id)>>, stored)
<1> DEFINE rows == <<BlankRow(id)>>
<1>1. BlankRow(id) \in TriggerRow
  BY DEF BlankRow, TriggerRow
<1>2. rows \in Seq(TriggerRow) /\ DOMAIN rows = {1} /\ Len(rows) = 1
  BY <1>1
<1>3. rows[1].typed = "blank" /\ rows[1].created = FALSE /\ rows[1].id = id
  BY DEF BlankRow
<1> HIDE DEF rows
<1>4. \A k : k >= 1 => UncountedFrom(rows, k)
  BY <1>2, <1>3 DEF UncountedFrom
<1>5. CompleteAreIn(rows, stored) /\ UncountedFrom(rows, 1)
  BY <1>2, <1>3 DEF CompleteAreIn, UncountedFrom
<1>6. Countable(rows, n, deletes, stored)
  BY <1>2, <1>3, <1>4 DEF Countable
<1> QED
  BY <1>2, <1>5, <1>6 DEF rows

LEMMA CountsTyped ==
    ASSUME NEW n \in Int, NEW deletes \in SUBSET PendingDelete
    PROVE  Counts(n, deletes) \subseteq Int
BY DEF Counts, PendingDelete

(* A row is typed into.                                                     *)
Typing(rows, i, typed) == [rows EXCEPT ![i].typed = typed]

LEMMA TypingFields ==
    ASSUME NEW rows \in Seq(TriggerRow), NEW i \in DOMAIN rows,
           NEW typed \in {"incomplete", "complete"}
    PROVE  /\ Typing(rows, i, typed) \in Seq(TriggerRow)
           /\ Len(Typing(rows, i, typed)) = Len(rows)
           /\ DOMAIN Typing(rows, i, typed) = DOMAIN rows
           /\ \A j \in DOMAIN rows :
                 /\ Typing(rows, i, typed)[j].id = rows[j].id
                 /\ Typing(rows, i, typed)[j].created = rows[j].created
                 /\ j # i => Typing(rows, i, typed)[j] = rows[j]
<1> DEFINE row == [rows[i] EXCEPT !.typed = typed]
<1>1. rows[i] \in TriggerRow
  OBVIOUS
<1>2. row \in TriggerRow /\ row.id = rows[i].id /\ row.created = rows[i].created
  BY <1>1, RowFields DEF TriggerRow
<1>3. Typing(rows, i, typed) = [rows EXCEPT ![i] = row]
  BY DEF Typing
<1> HIDE DEF row
<1>4. /\ [rows EXCEPT ![i] = row] \in Seq(TriggerRow)
      /\ Len([rows EXCEPT ![i] = row]) = Len(rows)
      /\ DOMAIN [rows EXCEPT ![i] = row] = DOMAIN rows
      /\ \A j \in DOMAIN rows : [rows EXCEPT ![i] = row][j] = IF j = i THEN row ELSE rows[j]
  BY <1>2, ExceptSeq
<1> QED
  BY <1>2, <1>3, <1>4

LEMMA TypingCountable ==
    ASSUME NEW rows \in Seq(TriggerRow), NEW i \in DOMAIN rows, i < Len(rows),
           NEW typed \in {"incomplete", "complete"},
           NEW n \in Int, NEW deletes \in SUBSET PendingDelete, NEW stored,
           Countable(rows, n, deletes, stored)
    PROVE  Countable(Typing(rows, i, typed), n, deletes, stored)
<1> DEFINE new == Typing(rows, i, typed)
<1>1. /\ Len(new) = Len(rows) /\ DOMAIN new = DOMAIN rows
      /\ \A j \in DOMAIN rows : /\ new[j].id = rows[j].id /\ new[j].created = rows[j].created
                                /\ j # i => new[j] = rows[j]
  BY TypingFields
<1> HIDE DEF new
<1>2. \A k \in Int : UncountedFrom(rows, k) => UncountedFrom(new, k)
  <2> SUFFICES ASSUME NEW k \in Int, UncountedFrom(rows, k), NEW j \in DOMAIN new, j >= k
               PROVE  new[j].typed = "blank" /\ new[j].created = FALSE
    BY <1>1 DEF UncountedFrom
  <2>1. j >= Len(rows) /\ rows[j].typed = "blank" /\ rows[j].created = FALSE
    BY <1>1 DEF UncountedFrom
  <2>2. j # i
    BY <2>1
  <2> QED
    BY <1>1, <2>1, <2>2
<1>3. Countable(new, n, deletes, stored)
  BY <1>1, <1>2, CountsTyped DEF Countable
<1> QED
  BY <1>3 DEF new

(* Typing into the last row adds another.                                   *)
LEMMA AppendingCountable ==
    ASSUME NEW rows \in Seq(TriggerRow), NEW id \in EventIds, rows # <<>>,
           \A j \in DOMAIN rows : rows[j].id # id,
           NEW typed \in {"incomplete", "complete"},
           NEW n \in Int, NEW stored, Countable(rows, n, {}, stored)
    PROVE  /\ Countable(Append(Typing(rows, Len(rows), typed), BlankRow(id)), n + 1, {}, stored)
           /\ Append(Typing(rows, Len(rows), typed), BlankRow(id)) \in Seq(TriggerRow)
<1> DEFINE new == Typing(rows, Len(rows), typed)
           blank == BlankRow(id)
           more == Append(new, blank)
<1>1. Len(rows) \in DOMAIN rows /\ Len(rows) \in Nat /\ DOMAIN rows = 1 .. Len(rows)
  OBVIOUS
<1>2. /\ new \in Seq(TriggerRow) /\ Len(new) = Len(rows) /\ DOMAIN new = DOMAIN rows
      /\ \A j \in DOMAIN rows : new[j].id = rows[j].id /\ new[j].created = rows[j].created
  BY <1>1, TypingFields
<1>3. blank \in TriggerRow /\ blank.id = id /\ blank.typed = "blank" /\ blank.created = FALSE
  BY DEF BlankRow, TriggerRow
<1> HIDE DEF new, blank
<1>4. /\ more \in Seq(TriggerRow) /\ Len(more) = Len(rows) + 1
      /\ DOMAIN more = 1 .. Len(rows) + 1
      /\ more[Len(rows) + 1] = blank /\ \A j \in DOMAIN rows : more[j] = new[j]
  BY <1>1, <1>2, <1>3
<1> HIDE DEF more
<1>5. UncountedFrom(rows, n)
  BY DEF Countable, Counts
<1>6. UncountedFrom(more, n + 1)
  <2>1. n >= Len(rows) /\ n + 1 >= Len(more)
    BY <1>1, <1>4, <1>5 DEF UncountedFrom
  <2>2. \A j \in DOMAIN more : j >= n + 1 => j = Len(rows) + 1
    BY <1>1, <1>4, <2>1
  <2> QED
    BY <1>3, <1>4, <2>1, <2>2 DEF UncountedFrom
<1>7. Countable(more, n + 1, {}, stored)
  <2>1. \A j \in DOMAIN more : j = Len(rows) + 1 \/ j \in DOMAIN rows
    BY <1>1, <1>4
  <2>2. \A i, j \in DOMAIN more : more[i].id = more[j].id => i = j
    BY <1>2, <1>3, <1>4, <2>1 DEF Countable
  <2>3. \A j \in DOMAIN more : more[j].created = TRUE => more[j].id \in stored
    BY <1>2, <1>3, <1>4, <2>1 DEF Countable
  <2> QED
    BY <1>6, <2>2, <2>3 DEF Countable, Counts
<1> QED
  BY <1>4, <1>7 DEF more, new, blank

(* A row is taken out.                                                      *)
LEMMA RemovedRow ==
    ASSUME NEW S, NEW s \in Seq(S), NEW i \in DOMAIN s
    PROVE  /\ RemoveAt(s, i) \in Seq(S) /\ Len(RemoveAt(s, i)) = Len(s) - 1
           /\ \A k \in DOMAIN RemoveAt(s, i) :
                 /\ k < i => k \in DOMAIN s /\ RemoveAt(s, i)[k] = s[k]
                 /\ k >= i => k + 1 \in DOMAIN s /\ RemoveAt(s, i)[k] = s[k + 1]
<1> DEFINE before == SubSeq(s, 1, i - 1)
           after == SubSeq(s, i + 1, Len(s))
           left == before \o after
<1>1. i \in Int /\ 1 <= i /\ i <= Len(s) /\ Len(s) \in Nat /\ DOMAIN s = 1 .. Len(s)
  OBVIOUS
<1>2. /\ before \in Seq(S) /\ Len(before) = i - 1
      /\ \A k \in 1 .. i - 1 : before[k] = s[k]
  <2>1. /\ before \in Seq(S) /\ Len(before) = IF 1 <= i - 1 THEN i - 1 - 1 + 1 ELSE 0
        /\ \A k \in 1 .. i - 1 - 1 + 1 : before[k] = s[1 + k - 1]
    BY <1>1, SubSeqProperties
  <2> HIDE DEF before
  <2> QED
    BY <1>1, <2>1
<1>3. /\ after \in Seq(S) /\ Len(after) = Len(s) - i
      /\ \A k \in 1 .. Len(s) - i : after[k] = s[i + k]
  <2>1. /\ after \in Seq(S)
        /\ Len(after) = IF i + 1 <= Len(s) THEN Len(s) - (i + 1) + 1 ELSE 0
        /\ \A k \in 1 .. Len(s) - (i + 1) + 1 : after[k] = s[i + 1 + k - 1]
    BY <1>1, SubSeqProperties
  <2> HIDE DEF after
  <2>2. Len(s) - (i + 1) + 1 = Len(s) - i /\ Len(after) = Len(s) - i
    BY <1>1, <2>1
  <2>3. ASSUME NEW k \in 1 .. Len(s) - i PROVE after[k] = s[i + k]
    <3>1. after[k] = s[i + 1 + k - 1]
      BY <2>1, <2>2
    <3>2. i + 1 + k - 1 = i + k
      BY <1>1
    <3> QED
      BY <3>1, <3>2
  <2> QED
    BY <2>1, <2>2, <2>3
<1> HIDE DEF before, after
<1>4. /\ left \in Seq(S) /\ Len(left) = Len(before) + Len(after)
      /\ \A k \in 1 .. Len(before) + Len(after) :
            left[k] = IF k <= Len(before) THEN before[k] ELSE after[k - Len(before)]
  BY <1>2, <1>3, ConcatProperties
<1>5. left = RemoveAt(s, i)
  BY DEF RemoveAt, left, before, after
<1> HIDE DEF left
<1>6. DOMAIN left = 1 .. Len(s) - 1 /\ Len(left) = Len(s) - 1
  BY <1>1, <1>2, <1>3, <1>4
<1>7. ASSUME NEW k \in DOMAIN left
      PROVE  /\ k < i => k \in DOMAIN s /\ left[k] = s[k]
             /\ k >= i => k + 1 \in DOMAIN s /\ left[k] = s[k + 1]
  <2>1. k \in 1 .. Len(s) - 1
    BY <1>6
  <2>2. CASE k < i
    <3>1. k \in 1 .. i - 1
      BY <1>1, <2>1, <2>2
    <3> QED
      BY <1>1, <1>2, <1>3, <1>4, <2>1, <3>1
  <2>3. CASE k >= i
    <3>1. k - (i - 1) \in 1 .. Len(s) - i /\ i + (k - (i - 1)) = k + 1
      BY <1>1, <2>1, <2>3
    <3>2. left[k] = after[k - (i - 1)]
      BY <1>1, <1>2, <1>3, <1>4, <2>1, <2>3
    <3>3. left[k] = s[k + 1]
      <4> DEFINE m == k - (i - 1)
      <4>1. m \in 1 .. Len(s) - i /\ i + m = k + 1 /\ left[k] = after[m]
        BY <3>1, <3>2
      <4> HIDE DEF m
      <4>2. after[m] = s[i + m]
        BY <1>3, <4>1
      <4> QED
        BY <4>1, <4>2
    <3> QED
      BY <1>1, <2>1, <2>3, <3>3
  <2> QED
    BY <1>1, <2>1, <2>2, <2>3
<1> QED
  BY <1>4, <1>5, <1>6, <1>7

LEMMA RemovalCountable ==
    ASSUME NEW rows \in Seq(TriggerRow), NEW i \in DOMAIN rows, Len(rows) > 1,
           NEW n \in Int, NEW deletes \in SUBSET PendingDelete, NEW stored,
           Countable(rows, n, deletes, stored)
    PROVE  /\ Countable(RemoveAt(rows, i), n, deletes, stored)
           /\ rows[i].created = TRUE =>
                Countable(RemoveAt(rows, i), n,
                          deletes \cup {[id |-> rows[i].id, recordIndex |-> n]}, stored)
<1> DEFINE left == RemoveAt(rows, i)
           deleted == [id |-> rows[i].id, recordIndex |-> n]
<1>1. /\ left \in Seq(TriggerRow) /\ Len(left) = Len(rows) - 1
      /\ \A k \in DOMAIN left :
            /\ k < i => k \in DOMAIN rows /\ left[k] = rows[k]
            /\ k >= i => k + 1 \in DOMAIN rows /\ left[k] = rows[k + 1]
  BY RemovedRow
<1>2. i \in Int /\ Len(rows) \in Nat /\ i <= Len(rows) /\ DOMAIN rows = 1 .. Len(rows)
  OBVIOUS
<1>3. Len(left) \in Nat /\ \A k \in DOMAIN left : k \in Int /\ k <= Len(left)
  BY <1>1
<1> HIDE DEF left
<1>4. \A k \in Int : UncountedFrom(rows, k) => UncountedFrom(left, k)
  <2> SUFFICES ASSUME NEW k \in Int, UncountedFrom(rows, k) PROVE UncountedFrom(left, k)
    OBVIOUS
  <2>1. k >= Len(rows) /\ k > Len(left)
    BY <1>1, <1>2 DEF UncountedFrom
  <2>2. \A j \in DOMAIN left : ~ j >= k
    BY <1>3, <2>1
  <2> QED
    BY <1>3, <2>1, <2>2 DEF UncountedFrom
<1>5. /\ \A j, k \in DOMAIN left : left[j].id = left[k].id => j = k
      /\ \A j \in DOMAIN left : left[j].id # rows[i].id
  <2>1. \A j \in DOMAIN left : \E m \in DOMAIN rows :
           m = (IF j < i THEN j ELSE j + 1) /\ left[j] = rows[m] /\ m # i
    BY <1>1, <1>2, <1>3
  <2>2. \A l, m \in DOMAIN rows : rows[l].id = rows[m].id => l = m
    BY DEF Countable
  <2>3. ASSUME NEW j \in DOMAIN left, NEW k \in DOMAIN left, left[j].id = left[k].id
        PROVE  j = k
    <3>1. (IF j < i THEN j ELSE j + 1) = (IF k < i THEN k ELSE k + 1)
      BY <2>1, <2>2, <2>3
    <3> QED
      BY <1>2, <1>3, <3>1
  <2>4. \A j \in DOMAIN left : left[j].id # rows[i].id
    BY <2>1, <2>2
  <2> QED
    BY <2>3, <2>4
<1>6. /\ \A j \in DOMAIN left, d \in deletes : d.id # left[j].id
      /\ \A j \in DOMAIN left : left[j].created = TRUE => left[j].id \in stored
  <2>1. \A j \in DOMAIN left : \E m \in DOMAIN rows : left[j] = rows[m]
    BY <1>1, <1>2, <1>3
  <2> QED
    BY <2>1 DEF Countable
<1>7. Countable(left, n, deletes, stored)
  <2>1. Counts(n, deletes) \subseteq Int
    BY CountsTyped
  <2>2. \A k \in Counts(n, deletes) : UncountedFrom(left, k)
    BY <1>4, <2>1 DEF Countable
  <2> QED
    BY <1>5, <1>6, <2>2 DEF Countable
<1>8. ASSUME rows[i].created = TRUE
      PROVE  Countable(left, n, deletes \cup {deleted}, stored)
  <2>1. UncountedFrom(rows, n)
    BY DEF Countable, Counts
  <2>2. i < n /\ n - 1 >= Len(left)
    BY <1>1, <1>2, <1>8, <2>1 DEF UncountedFrom
  <2>3. UncountedFrom(left, n - 1)
    <3> SUFFICES ASSUME NEW j \in DOMAIN left, j >= n - 1
                 PROVE  left[j].typed = "blank" /\ left[j].created = FALSE
      BY <2>2 DEF UncountedFrom
    <3>1. j >= i /\ j + 1 >= n
      BY <1>2, <1>3, <2>2
    <3>2. j + 1 \in DOMAIN rows /\ left[j] = rows[j + 1]
      BY <1>1, <3>1
    <3> QED
      BY <2>1, <3>1, <3>2 DEF UncountedFrom
  <2>4. deleted.id = rows[i].id /\ deleted.recordIndex = n
    OBVIOUS
  <2> HIDE DEF deleted
  <2>5. \A k \in Counts(n, deletes \cup {deleted}) : k = n - 1 \/ k \in Counts(n, deletes)
    BY <2>4 DEF Counts
  <2>6. \A k \in Counts(n, deletes \cup {deleted}) : UncountedFrom(left, k)
    BY <1>7, <2>3, <2>5 DEF Countable
  <2>7. \A j \in DOMAIN left, d \in deletes \cup {deleted} : d.id # left[j].id
    BY <1>5, <1>6, <2>4
  <2> QED
    BY <1>5, <1>6, <2>6, <2>7 DEF Countable
<1> QED
  BY <1>7, <1>8 DEF left, deleted

(* Whatever n counts to, a table that has a row is counted to at least one. *)
LEMMA CountsToOne ==
    ASSUME NEW rows \in Seq(TriggerRow), rows # <<>>, NEW i \in DOMAIN rows,
           NEW n \in Int, NEW deletes \in SUBSET PendingDelete, NEW stored,
           Countable(rows, n, deletes, stored)
    PROVE  /\ \A k \in Counts(n, deletes) : k >= 1
           /\ rows[i].created = TRUE =>
                \A k \in Counts(n, deletes \cup {[id |-> rows[i].id, recordIndex |-> n]}) : k >= 1
<1>1. Len(rows) >= 1 /\ Len(rows) \in Nat /\ i >= 1 /\ i \in Nat
  OBVIOUS
<1>2. \A k \in Counts(n, deletes) : k >= Len(rows) /\ k \in Int /\ UncountedFrom(rows, k)
  BY CountsTyped DEF Countable, UncountedFrom
<1>3. \A k \in Counts(n, deletes) : k >= 1
  BY <1>1, <1>2
<1> DEFINE deleted == [id |-> rows[i].id, recordIndex |-> n]
<1>4. deleted.recordIndex = n
  OBVIOUS
<1> HIDE DEF deleted
<1>5. ASSUME rows[i].created = TRUE, NEW k \in Counts(n, deletes \cup {deleted}) PROVE k >= 1
  <2>1. n \in Counts(n, deletes)
    BY DEF Counts
  <2>2. UncountedFrom(rows, n)
    BY <1>2, <2>1
  <2>3. i < n
    BY <1>1, <1>5, <2>2 DEF UncountedFrom
  <2>4. k = n - 1 \/ k \in Counts(n, deletes)
    BY <1>4 DEF Counts
  <2> QED
    BY <1>1, <1>3, <2>3, <2>4
<1> QED
  BY <1>3, <1>5 DEF deleted

(* A deletion is answered, or fails.                                        *)
LEMMA AnswerCountable ==
    ASSUME NEW rows, NEW n, NEW deletes, NEW stored, NEW d \in deletes,
           Countable(rows, n, deletes, stored)
    PROVE  /\ Countable(rows, d.recordIndex - 1, deletes \ {d}, stored \ {d.id})
           /\ Countable(rows, n, deletes \ {d}, stored)
<1>1. /\ Counts(d.recordIndex - 1, deletes \ {d}) \subseteq Counts(n, deletes)
      /\ Counts(n, deletes \ {d}) \subseteq Counts(n, deletes)
  BY DEF Counts
<1> QED
  BY <1>1 DEF Countable

LEMMA AnswerComplete ==
    ASSUME NEW rows, NEW n, NEW deletes, NEW stored, NEW d \in deletes,
           Countable(rows, n, deletes, stored), CompleteAreIn(rows, stored)
    PROVE  CompleteAreIn(rows, stored \ {d.id})
BY DEF Countable, CompleteAreIn

(* The stored triggers, and a blank row.                                    *)
LEMMA NewIdIsNew ==
    ASSUME NEW used \in SUBSET EventIds, used # EventIds
    PROVE  NewId(used) \in EventIds /\ NewId(used) \notin used
<1>1. \E id \in EventIds : id \notin used
  OBVIOUS
<1> QED
  BY <1>1 DEF NewId

LEMMA OrderedIds ==
    ASSUME NEW stored \in SUBSET EventIds
    PROVE  /\ Cardinality(stored) \in Nat
           /\ SetToSeq(stored) \in [1 .. Cardinality(stored) -> stored]
           /\ \A i, j \in 1 .. Cardinality(stored) :
                 SetToSeq(stored)[i] = SetToSeq(stored)[j] => i = j
<1>1. IsFiniteSet(stored)
  BY EventsAssumption, FS_Subset
<1>2. Cardinality(stored) \in Nat /\ ExistsBijection(1 .. Cardinality(stored), stored)
  BY <1>1, FS_CardinalityType
<1>3. PICK f : f \in Bijection(1 .. Cardinality(stored), stored)
  BY <1>2 DEF ExistsBijection
<1>4. f \in [1 .. Cardinality(stored) -> stored] /\ IsInjective(f)
  BY <1>3 DEF Bijection, Injection, IsInjective
<1>5. /\ SetToSeq(stored) \in [1 .. Cardinality(stored) -> stored]
      /\ IsInjective(SetToSeq(stored))
  BY <1>4 DEF SetToSeq
<1> QED
  BY <1>2, <1>5 DEF IsInjective

LEMMA LoadedCountable ==
    ASSUME NEW stored \in SUBSET EventIds, NEW used \in SUBSET EventIds,
           stored \cup used # EventIds
    PROVE  /\ LoadedRows(stored, used) \in Seq(TriggerRow)
           /\ Countable(LoadedRows(stored, used), Cardinality(stored) + 1, {}, stored)
           /\ Cardinality(stored) \in Nat
<1> DEFINE ids == SetToSeq(stored)
           n == Cardinality(stored)
           rows == [i \in DOMAIN ids |-> [id |-> ids[i], typed |-> "complete", created |-> TRUE]]
           blank == BlankRow(NewId(stored \cup used))
           all == Append(rows, blank)
<1>1. /\ n \in Nat /\ ids \in [1 .. n -> stored]
      /\ \A i, j \in 1 .. n : ids[i] = ids[j] => i = j
  BY OrderedIds
<1>2. NewId(stored \cup used) \in EventIds /\ NewId(stored \cup used) \notin stored
  BY NewIdIsNew
<1>3. /\ blank \in TriggerRow /\ blank.id \notin stored
      /\ blank.typed = "blank" /\ blank.created = FALSE
  BY <1>2 DEF BlankRow, TriggerRow
<1> HIDE DEF ids, n, blank
<1>4. /\ rows \in [1 .. n -> TriggerRow]
      /\ \A i \in 1 .. n : rows[i].id = ids[i] /\ rows[i].created = TRUE
  BY <1>1 DEF TriggerRow
<1> HIDE DEF rows
<1>5. rows \in Seq(TriggerRow) /\ Len(rows) = n /\ DOMAIN rows = 1 .. n
  BY <1>1, <1>4
<1>6. /\ all \in Seq(TriggerRow) /\ Len(all) = n + 1 /\ DOMAIN all = 1 .. n + 1
      /\ all[n + 1] = blank /\ \A i \in 1 .. n : all[i] = rows[i]
  BY <1>1, <1>3, <1>5
<1>7. all = LoadedRows(stored, used)
  BY DEF LoadedRows, all, rows, ids, blank
<1> HIDE DEF all
<1>8. \A i \in DOMAIN all : i = n + 1 \/ (i \in 1 .. n /\ i < n + 1)
  BY <1>1, <1>6
<1>9. UncountedFrom(all, n + 1)
  <2>1. \A i \in DOMAIN all : i >= n + 1 => i = n + 1
    BY <1>1, <1>6
  <2> QED
    BY <1>1, <1>3, <1>6, <2>1 DEF UncountedFrom
<1>10. \A i, j \in DOMAIN all : all[i].id = all[j].id => i = j
  <2>1. \A i \in 1 .. n : all[i].id = ids[i] /\ ids[i] \in stored
    BY <1>1, <1>4, <1>6
  <2> QED
    BY <1>1, <1>3, <1>6, <1>8, <2>1
<1>11. \A i \in DOMAIN all : all[i].created = TRUE => all[i].id \in stored
  BY <1>1, <1>3, <1>4, <1>6, <1>8
<1>12. Countable(all, n + 1, {}, stored)
  BY <1>9, <1>10, <1>11 DEF Countable, Counts
<1> QED
  BY <1>1, <1>6, <1>7, <1>12 DEF n

(* What a save sends.                                                       *)
CountedOf(rows, n) == SubSeq(rows, 1, Min({Len(rows), n - 1}))

LEMMA CountedRows ==
    ASSUME NEW rows \in Seq(TriggerRow), NEW n \in Int
    PROVE  /\ CountedOf(rows, n) \in Seq(TriggerRow)
           /\ \A i \in DOMAIN CountedOf(rows, n) : i \in DOMAIN rows /\ CountedOf(rows, n)[i] = rows[i]
           /\ \A i \in DOMAIN rows : i < n => i \in DOMAIN CountedOf(rows, n)
<1> DEFINE m == Min({Len(rows), n - 1})
           counted == SubSeq(rows, 1, m)
<1>1. Len(rows) \in Nat /\ DOMAIN rows = 1 .. Len(rows)
  OBVIOUS
<1>2. m \in {Len(rows), n - 1} /\ m <= Len(rows) /\ m <= n - 1
  <2>1. \E x \in {Len(rows), n - 1} : \A y \in {Len(rows), n - 1} : x <= y
    <3>1. CASE Len(rows) <= n - 1
      BY <1>1, <3>1
    <3>2. CASE n - 1 <= Len(rows)
      BY <1>1, <3>2
    <3> QED
      BY <1>1, <3>1, <3>2
  <2> QED
    BY <2>1 DEF Min
<1> HIDE DEF m
<1>3. m \in Int /\ \A i \in 1 .. m : rows[i] \in TriggerRow /\ i \in DOMAIN rows
  BY <1>1, <1>2
<1>4. /\ counted \in Seq(TriggerRow) /\ Len(counted) = IF 1 <= m THEN m - 1 + 1 ELSE 0
      /\ \A i \in 1 .. m - 1 + 1 : counted[i] = rows[1 + i - 1]
  BY <1>3, SubSeqProperties
<1>5. CountedOf(rows, n) = counted
  BY DEF CountedOf, counted, m
<1> HIDE DEF counted
<1>6. DOMAIN counted = 1 .. m
  BY <1>3, <1>4
<1>7. \A i \in 1 .. m : counted[i] = rows[i]
  <2> SUFFICES ASSUME NEW i \in 1 .. m PROVE counted[i] = rows[i]
    OBVIOUS
  <2>1. 1 + i - 1 = i /\ i \in 1 .. m - 1 + 1
    BY <1>3
  <2> QED
    BY <1>4, <2>1
<1>8. \A i \in DOMAIN rows : i < n => i \in 1 .. m
  <2> SUFFICES ASSUME NEW i \in DOMAIN rows, i < n PROVE i \in 1 .. m
    OBVIOUS
  <2>1. i \in Int /\ 1 <= i /\ i <= Len(rows) /\ i <= n - 1
    BY <1>1
  <2>2. i <= m
    BY <1>2, <2>1
  <2> QED
    BY <1>3, <2>1, <2>2
<1> QED
  BY <1>3, <1>4, <1>5, <1>6, <1>7, <1>8

OperationsOf(first, counted) ==
    <<first>> \o [i \in DOMAIN counted |->
                    [op |-> IF counted[i].created THEN "update" ELSE "add",
                     id |-> counted[i].id]]

LEMMA OperationsTyped ==
    ASSUME NEW counted \in Seq(TriggerRow), NEW first \in WebhookOperation,
           first.op # "add"
    PROVE  /\ OperationsOf(first, counted) \in Seq(WebhookOperation)
           /\ OperationsOf(first, counted) # <<>>
           /\ Adding(OperationsOf(first, counted)) \subseteq EventIds
           /\ \A i \in DOMAIN counted :
                 counted[i].created = FALSE => counted[i].id \in Adding(OperationsOf(first, counted))
<1> DEFINE rest == [i \in DOMAIN counted |->
                      [op |-> IF counted[i].created THEN "update" ELSE "add",
                       id |-> counted[i].id]]
           operations == <<first>> \o rest
<1>1. \A i \in DOMAIN counted : rest[i] \in WebhookOperation /\ i \in 1 .. Len(counted)
  BY RowFields DEF WebhookOperation
<1>2. /\ DOMAIN rest = 1 .. Len(counted) /\ Len(counted) \in Nat
      /\ \A i \in DOMAIN counted : counted[i].created = FALSE =>
            rest[i].op = "add" /\ rest[i].id = counted[i].id
  OBVIOUS
<1>3. rest \in Seq(WebhookOperation) /\ Len(rest) = Len(counted)
  <2>1. rest \in [1 .. Len(counted) -> WebhookOperation]
    BY <1>1, <1>2
  <2> HIDE DEF rest
  <2> QED
    BY <1>2, <2>1
<1>4. <<first>> \in Seq(WebhookOperation) /\ Len(<<first>>) = 1
  OBVIOUS
<1> HIDE DEF rest
<1>5. /\ operations \in Seq(WebhookOperation) /\ Len(operations) = 1 + Len(rest)
      /\ \A i \in 1 .. 1 + Len(rest) :
            operations[i] = IF i <= 1 THEN <<first>>[i] ELSE rest[i - 1]
  BY <1>3, <1>4, ConcatProperties
<1>6. operations = OperationsOf(first, counted)
  BY DEF OperationsOf, operations, rest
<1> HIDE DEF operations
<1>7. operations # <<>> /\ DOMAIN operations = 1 .. 1 + Len(rest)
  BY <1>2, <1>3, <1>5
<1>8. ASSUME NEW i \in DOMAIN counted, counted[i].created = FALSE
      PROVE  counted[i].id \in Adding(operations)
  <2>1. i + 1 \in 1 .. 1 + Len(rest) /\ ~ i + 1 <= 1 /\ (i + 1) - 1 = i
    BY <1>1, <1>2, <1>3
  <2>2. operations[i + 1] = rest[(i + 1) - 1]
    BY <1>5, <2>1
  <2>3. operations[i + 1].op = "add" /\ operations[i + 1].id = counted[i].id
    BY <1>2, <1>8, <2>1, <2>2
  <2> QED
    BY <1>7, <2>1, <2>3 DEF Adding
<1>9. Adding(operations) \subseteq EventIds
  <2> SUFFICES ASSUME NEW k \in DOMAIN operations, operations[k].op = "add"
               PROVE  operations[k].id \in EventIds
    BY DEF Adding
  <2>1. k # 1
    BY <1>4, <1>5, <1>7
  <2>2. k - 1 \in 1 .. Len(rest) /\ operations[k] = rest[k - 1]
    BY <1>2, <1>3, <1>5, <1>7, <2>1
  <2>3. rest[k - 1].id = counted[k - 1].id /\ counted[k - 1].id \in EventIds
    <3>1. k - 1 \in DOMAIN counted
      BY <1>3, <2>2
    <3> QED
      BY <3>1, RowFields DEF rest
  <2> QED
    BY <2>2, <2>3
<1> QED
  BY <1>5, <1>6, <1>7, <1>8, <1>9

SentOf(rows, n) ==
    [i \in DOMAIN rows |-> [rows[i] EXCEPT !.created = rows[i].created \/ i < n]]

(* The rows that a save leaves: those it sent have been created.            *)
SentAs(sent, rows, n) ==
    /\ Len(sent) = Len(rows) /\ DOMAIN sent = DOMAIN rows
    /\ \A i \in DOMAIN rows :
          /\ sent[i].id = rows[i].id /\ sent[i].typed = rows[i].typed
          /\ sent[i].created = TRUE => rows[i].created = TRUE \/ i < n
          /\ rows[i].created = FALSE /\ ~ i < n => sent[i].created = FALSE

LEMMA SentRows ==
    ASSUME NEW rows \in Seq(TriggerRow), NEW n \in Int
    PROVE  SentOf(rows, n) \in Seq(TriggerRow) /\ SentAs(SentOf(rows, n), rows, n)
<1>1. /\ DOMAIN SentOf(rows, n) = DOMAIN rows /\ DOMAIN rows = 1 .. Len(rows)
      /\ Len(rows) \in Nat
  BY DEF SentOf
<1>2. ASSUME NEW i \in DOMAIN rows
      PROVE  /\ SentOf(rows, n)[i] \in TriggerRow
             /\ SentOf(rows, n)[i].id = rows[i].id
             /\ SentOf(rows, n)[i].typed = rows[i].typed
             /\ SentOf(rows, n)[i].created = TRUE => rows[i].created = TRUE \/ i < n
             /\ rows[i].created = FALSE /\ ~ i < n => SentOf(rows, n)[i].created = FALSE
  <2> DEFINE made == rows[i].created \/ i < n
             row == rows[i]
  <2>1. /\ made \in BOOLEAN /\ (made = TRUE => row.created = TRUE \/ i < n)
        /\ row.created = FALSE /\ ~ i < n => made = FALSE
    BY RowFields
  <2>2. row \in TriggerRow /\ SentOf(rows, n)[i] = [row EXCEPT !.created = made]
    BY RowFields DEF SentOf
  <2>3. row = [id |-> row.id, typed |-> row.typed, created |-> row.created]
    BY RowFields
  <2> HIDE DEF made
  <2>4. /\ [row EXCEPT !.created = made] \in TriggerRow
        /\ [row EXCEPT !.created = made].id = row.id
        /\ [row EXCEPT !.created = made].typed = row.typed
        /\ [row EXCEPT !.created = made].created = made
    <3> HIDE DEF row
    <3> QED
      BY <2>1, <2>2, <2>3 DEF TriggerRow
  <2> QED
    BY <2>1, <2>2, <2>4
<1>3. SentOf(rows, n) \in [1 .. Len(rows) -> TriggerRow]
  <2> DEFINE sent == SentOf(rows, n)
  <2>1. sent = [i \in DOMAIN rows |-> sent[i]]
    BY <1>1 DEF SentOf
  <2>2. \A i \in DOMAIN rows : sent[i] \in TriggerRow
    BY <1>2
  <2> HIDE DEF sent
  <2>3. sent \in [DOMAIN rows -> TriggerRow]
    BY <2>1, <2>2
  <2> QED
    BY <1>1, <2>3 DEF sent
<1>4. SentOf(rows, n) \in Seq(TriggerRow) /\ Len(SentOf(rows, n)) = Len(rows)
  BY <1>1, <1>3
<1> QED
  BY <1>1, <1>2, <1>4 DEF SentAs

LEMMA SentCountable ==
    ASSUME NEW rows \in Seq(TriggerRow), NEW n \in Int,
           NEW deletes \in SUBSET PendingDelete, NEW stored,
           NEW first \in WebhookOperation, first.op # "add", Countable(rows, n, deletes, stored),
           \A i \in DOMAIN CountedOf(rows, n) : CountedOf(rows, n)[i].typed = "complete"
    PROVE  LET operations == OperationsOf(first, CountedOf(rows, n)) IN
           /\ Countable(SentOf(rows, n), n, deletes, stored \cup Adding(operations))
           /\ CompleteAreIn(SentOf(rows, n), stored \cup Adding(operations))
<1> DEFINE counted == CountedOf(rows, n)
           operations == OperationsOf(first, counted)
           sent == SentOf(rows, n)
           there == stored \cup Adding(operations)
<1>1. /\ counted \in Seq(TriggerRow)
      /\ \A i \in DOMAIN counted : i \in DOMAIN rows /\ counted[i] = rows[i]
      /\ \A i \in DOMAIN rows : i < n => i \in DOMAIN counted
      /\ \A i \in DOMAIN counted : counted[i].typed = "complete"
  BY CountedRows
<1>2. \A i \in DOMAIN counted : counted[i].created = FALSE => counted[i].id \in there
  BY <1>1, OperationsTyped
<1>3. /\ Len(sent) = Len(rows) /\ DOMAIN sent = DOMAIN rows
      /\ \A i \in DOMAIN rows :
            /\ sent[i].id = rows[i].id /\ sent[i].typed = rows[i].typed
            /\ sent[i].created = TRUE => rows[i].created = TRUE \/ i < n
            /\ rows[i].created = FALSE /\ ~ i < n => sent[i].created = FALSE
  <2>1. SentAs(sent, rows, n)
    BY SentRows
  <2> HIDE DEF sent
  <2> QED
    BY <2>1 DEF SentAs
<1> HIDE DEF counted, operations, sent
<1>4. \A i \in DOMAIN rows : rows[i].created = TRUE => rows[i].id \in there
  BY DEF Countable
<1>5. \A i \in DOMAIN rows : i < n => rows[i].id \in there
  <2> SUFFICES ASSUME NEW i \in DOMAIN rows, i < n PROVE rows[i].id \in there
    OBVIOUS
  <2>1. rows[i].created = TRUE \/ rows[i].created = FALSE
    BY RowFields
  <2> QED
    BY <1>1, <1>2, <1>4, <2>1
<1>6. UncountedFrom(rows, n)
  BY DEF Countable, Counts
<1>7. CompleteAreIn(sent, there)
  <2> SUFFICES ASSUME NEW i \in DOMAIN rows, rows[i].typed = "complete"
               PROVE  rows[i].id \in there
    BY <1>3 DEF CompleteAreIn
  <2>1. ~ i >= n
    BY <1>6 DEF UncountedFrom
  <2>2. i < n
    BY <2>1, RowFields
  <2> QED
    BY <1>5, <2>2
<1>8. \A k \in Int : UncountedFrom(rows, k) => UncountedFrom(sent, k)
  <2> SUFFICES ASSUME NEW k \in Int, UncountedFrom(rows, k), NEW i \in DOMAIN rows, i >= k
               PROVE  sent[i].typed = "blank" /\ sent[i].created = FALSE
    BY <1>3 DEF UncountedFrom
  <2>1. /\ rows[i].typed = "blank" /\ rows[i].created = FALSE /\ k >= Len(rows)
        /\ n >= Len(rows)
    BY <1>6 DEF UncountedFrom
  <2>2. CASE ~ i < n
    BY <1>3, <2>1, <2>2
  <2>3. CASE i < n
    <3>1. i \in DOMAIN counted
      BY <1>1, <2>3
    <3>2. rows[i].typed = "complete"
      BY <1>1, <3>1
    <3> QED
      BY <2>1, <3>2
  <2> QED
    BY <2>2, <2>3
<1>9. Counts(n, deletes) \subseteq Int
  BY CountsTyped
<1>10. \A k \in Counts(n, deletes) : UncountedFrom(sent, k)
  BY <1>8, <1>9 DEF Countable
<1>11. Countable(sent, n, deletes, there)
  <2>1. \A i, j \in DOMAIN sent : sent[i].id = sent[j].id => i = j
    BY <1>3 DEF Countable
  <2>2. \A i \in DOMAIN sent, d \in deletes : d.id # sent[i].id
    BY <1>3 DEF Countable
  <2>3. \A i \in DOMAIN sent : sent[i].created = TRUE => sent[i].id \in there
    BY <1>3, <1>4, <1>5
  <2> QED
    BY <1>10, <2>1, <2>2, <2>3 DEF Countable
<1> QED
  BY <1>7, <1>11 DEF operations, counted, sent

--------------------------------------------------------------------------------
(* The handlers.                                                            *)
LEMMA PageFields ==
    ASSUME NEW p, NEW s, WebhookTypes(p, s)
    PROVE  /\ p \in WebhookPage /\ s \in WebhookStore
           /\ p.rows \in Seq(TriggerRow) /\ p.sent \in Seq(TriggerRow)
           /\ p.recordIndex \in Int /\ p.deletes \in SUBSET PendingDelete
           /\ p.operations \in Seq(WebhookOperation) /\ s.stored \in SUBSET EventIds
BY DEF WebhookTypes, WebhookPage, WebhookStore

PageShape ==
    page = [kind |-> page.kind, webhookId |-> page.webhookId, enabled |-> page.enabled,
            load |-> page.load, rows |-> page.rows, recordIndex |-> page.recordIndex,
            waiting |-> page.waiting, deletes |-> page.deletes,
            operations |-> page.operations, sent |-> page.sent,
            saved |-> page.saved, edited |-> page.edited, raced |-> page.raced]

LEMMA PageHasShape == ASSUME page \in WebhookPage PROVE PageShape
BY WebhookPageShape DEF PageShape

LEMMA InUseTyped ==
    ASSUME WebhookTypes(page, server)
    PROVE  /\ InUse \in SUBSET EventIds /\ server.stored \subseteq InUse
           /\ \A i \in DOMAIN page.rows : page.rows[i].id \in InUse
           /\ \A d \in page.deletes : d.id \in InUse
<1>1. /\ page.rows \in Seq(TriggerRow) /\ page.sent \in Seq(TriggerRow)
      /\ page.deletes \in SUBSET PendingDelete /\ server.stored \in SUBSET EventIds
  BY PageFields
<1>2. ASSUME NEW rows \in Seq(TriggerRow)
      PROVE  Ids(rows) = {rows[i].id : i \in DOMAIN rows} /\ Ids(rows) \subseteq EventIds
  <2>1. Range(rows) = {rows[i] : i \in DOMAIN rows}
    BY DEF Range
  <2>2. Ids(rows) = {rows[i].id : i \in DOMAIN rows}
    BY <2>1 DEF Ids
  <2> QED
    BY <2>2, RowFields
<1>3. {d.id : d \in page.deletes} \subseteq EventIds
  BY <1>1 DEF PendingDelete
<1> QED
  BY <1>1, <1>2, <1>3 DEF InUse

LEMMA UncountedMore ==
    ASSUME NEW rows \in Seq(TriggerRow), NEW m \in Int, NEW n \in Int, m <= n,
           UncountedFrom(rows, m)
    PROVE  UncountedFrom(rows, n)
<1>1. Len(rows) \in Nat /\ \A i \in DOMAIN rows : i \in Int
  OBVIOUS
<1> QED
  BY <1>1 DEF UncountedFrom

LEMMA LoadArrivesKeeps ==
    ASSUME WebhookInv, LoadArrives PROVE WebhookInv'
<1> DEFINE rows == LoadedRows(server.stored, InUse)
           n == Cardinality(server.stored) + 1
           raced == page.raced \/ page.edited
<1>1. /\ page \in WebhookPage /\ server \in WebhookStore
      /\ page.rows \in Seq(TriggerRow) /\ page.sent \in Seq(TriggerRow)
      /\ page.recordIndex \in Int /\ page.deletes \in SUBSET PendingDelete
      /\ page.operations \in Seq(WebhookOperation) /\ server.stored \in SUBSET EventIds
  BY PageFields DEF WebhookInv
<1>2. InUse \in SUBSET EventIds /\ server.stored \cup InUse # EventIds
  BY InUseTyped DEF WebhookInv, LoadArrives
<1>3. /\ rows \in Seq(TriggerRow) /\ n \in Int /\ n >= 1
      /\ Countable(rows, n, {}, server.stored)
  <2>1. /\ LoadedRows(server.stored, InUse) \in Seq(TriggerRow)
        /\ Countable(LoadedRows(server.stored, InUse), Cardinality(server.stored) + 1, {},
                     server.stored)
        /\ Cardinality(server.stored) \in Nat
    BY <1>1, <1>2, LoadedCountable
  <2> QED
    BY <2>1
<1>4. /\ raced \in BOOLEAN /\ server' = server
      /\ page' = [page EXCEPT !.load = FALSE, !.rows = rows, !.recordIndex = n,
                              !.raced = raced, !.edited = FALSE, !.saved = FALSE]
  BY <1>1 DEF LoadArrives, WebhookPage
<1>5. ~ raced => Calm(page) /\ Unread(page)
  BY DEF LoadArrives, Calm, Unread
<1> HIDE DEF rows, n, raced
<1>6. page' = [kind |-> page.kind, webhookId |-> page.webhookId, enabled |-> page.enabled,
               load |-> FALSE, rows |-> rows, recordIndex |-> n,
               waiting |-> page.waiting, deletes |-> page.deletes,
               operations |-> page.operations,
               sent |-> page.sent, saved |-> FALSE, edited |-> FALSE, raced |-> raced]
  <2>1. PageShape /\ page' = [page EXCEPT !.load = FALSE, !.rows = rows, !.recordIndex = n,
                              !.raced = raced, !.edited = FALSE, !.saved = FALSE]
    BY <1>1, <1>4, PageHasShape
  <2> QED
    BY ONLY <2>1 DEF PageShape
<1>7. page' \in WebhookPage
  BY <1>1, <1>3, <1>4, <1>6 DEF WebhookPage
<1>8. /\ page'.rows = rows /\ page'.recordIndex = n /\ page'.deletes = page.deletes
      /\ page'.operations = page.operations /\ page'.sent = page.sent
      /\ page'.waiting = page.waiting
      /\ page'.raced = raced /\ page'.load = FALSE /\ page'.saved = FALSE
  BY <1>6
<1>9. WebhookTypes(page', server')
  BY <1>1, <1>4, <1>7, <1>8 DEF WebhookInv, WebhookTypes, Waits
<1>10. ASSUME Calm(page') PROVE FormInv(page', server')
  <2>1. Calm(page) /\ Unread(page)
    BY <1>5, <1>8, <1>10 DEF Calm
  <2>2. /\ page.deletes = {} /\ page.recordIndex = 1
        /\ page.operations # <<>> => UncountedFrom(page.sent, 1)
    BY <2>1 DEF WebhookInv, FormInv, UnreadInv
  <2>3. SaveInv(page, server)
    BY <2>1 DEF WebhookInv, FormInv
  <2>4. TableInv(page', server')
    BY <1>3, <1>4, <1>8, <2>2 DEF TableInv, SaysSaved
  <2>5. page.operations # <<>> => UncountedFrom(page.sent, n)
    BY <1>1, <1>3, <2>2, UncountedMore
  <2>6. SaveInv(page', server')
    BY <1>4, <1>8, <2>2, <2>3, <2>5 DEF SaveInv, Countable, Counts
  <2>7. UnreadInv(page')
    BY <1>8 DEF UnreadInv, Unread
  <2> QED
    BY <2>4, <2>6, <2>7 DEF FormInv
<1> QED
  BY <1>9, <1>10 DEF WebhookInv

(* The form is shown: nothing is being saved.                               *)
LEMMA ShownIsIdle ==
    ASSUME WebhookInv, ~ page.waiting PROVE page.operations = <<>>
BY DEF WebhookInv, WebhookTypes, Waits

LEMMA HandleEventChangeKeeps ==
    ASSUME WebhookInv, HandleEventChange PROVE WebhookInv'
<1>1. /\ page \in WebhookPage /\ server \in WebhookStore
      /\ page.rows \in Seq(TriggerRow) /\ page.sent \in Seq(TriggerRow)
      /\ page.recordIndex \in Int /\ page.deletes \in SUBSET PendingDelete
      /\ page.operations \in Seq(WebhookOperation) /\ server.stored \in SUBSET EventIds
  BY PageFields DEF WebhookInv
<1>2. page.operations = <<>> /\ server' = server
  BY ShownIsIdle DEF HandleEventChange, FormShown
<1>3. PICK i \in DOMAIN page.rows, typed \in {"incomplete", "complete"} :
         LET rows == Typing(page.rows, i, typed) IN
         \/ /\ i = Len(rows) /\ Len(rows) < MaxRows /\ page.recordIndex <= MaxRows
            /\ InUse # EventIds
            /\ page' = [page EXCEPT !.rows = Append(rows, BlankRow(NewId(InUse))),
                            !.recordIndex = @ + 1, !.edited = page.load, !.saved = FALSE,
                            !.raced = @ \/ page.deletes # {}]
         \/ /\ i < Len(rows)
            /\ page' = [page EXCEPT !.rows = rows, !.edited = page.load, !.saved = FALSE]
  BY DEF HandleEventChange, Typing
<1> DEFINE typedIn == Typing(page.rows, i, typed)
           added == Append(typedIn, BlankRow(NewId(InUse)))
           n == page.recordIndex + 1
           raced == page.raced \/ page.deletes # {}
<1>4. typedIn \in Seq(TriggerRow) /\ Len(typedIn) = Len(page.rows)
  BY <1>1, TypingFields
<1>5. CASE /\ i = Len(typedIn) /\ InUse # EventIds
           /\ page' = [page EXCEPT !.rows = added, !.recordIndex = n,
                                   !.edited = page.load, !.saved = FALSE, !.raced = raced]
  <2>1. raced \in BOOLEAN /\ n \in Int /\ page.rows # <<>>
    BY <1>1 DEF WebhookPage
  <2>2. /\ NewId(InUse) \in EventIds
        /\ \A j \in DOMAIN page.rows : page.rows[j].id # NewId(InUse)
    BY <1>5, InUseTyped, NewIdIsNew DEF WebhookInv
  <2>3. added \in Seq(TriggerRow)
    <3>1. BlankRow(NewId(InUse)) \in TriggerRow
      BY <2>2 DEF BlankRow, TriggerRow
    <3> QED
      BY <1>4, <3>1
  <2>4. ~ raced => Calm(page) /\ page.deletes = {}
    BY DEF Calm
  <2>5. ASSUME ~ raced PROVE Countable(added, n, {}, server.stored)
    <3>1. Countable(page.rows, page.recordIndex, {}, server.stored)
      BY <2>4, <2>5 DEF WebhookInv, FormInv, TableInv
    <3>2. Countable(Append(Typing(page.rows, Len(page.rows), typed), BlankRow(NewId(InUse))),
                    page.recordIndex + 1, {}, server.stored)
      BY <1>1, <2>1, <2>2, <3>1, AppendingCountable
    <3> QED
      BY <1>4, <1>5, <3>2
  <2> HIDE DEF added, n, raced
  <2>6. page' = [kind |-> page.kind, webhookId |-> page.webhookId, enabled |-> page.enabled,
                 load |-> page.load, rows |-> added, recordIndex |-> n,
                 waiting |-> page.waiting, deletes |-> page.deletes,
                 operations |-> page.operations, sent |-> page.sent,
                 saved |-> FALSE, edited |-> page.load, raced |-> raced]
    <3>1. PageShape /\ page' = [page EXCEPT !.rows = added, !.recordIndex = n,
                                   !.edited = page.load, !.saved = FALSE, !.raced = raced]
      BY <1>1, <1>5, PageHasShape DEF added, n, raced
    <3> QED
      BY ONLY <3>1 DEF PageShape
  <2>7. page' \in WebhookPage
    BY <1>1, <2>1, <2>3, <2>6 DEF WebhookPage
  <2>8. /\ page'.rows = added /\ page'.recordIndex = n /\ page'.deletes = page.deletes
        /\ page'.operations = <<>> /\ page'.raced = raced /\ page'.saved = FALSE
        /\ page'.edited = page.load /\ page'.load = page.load
    BY <1>2, <2>6
  <2>9. WebhookTypes(page', server')
    BY <1>1, <1>2, <2>7, <2>8 DEF WebhookInv, WebhookTypes, Adding
  <2>10. ASSUME Calm(page') PROVE FormInv(page', server')
    <3>1. ~ raced
      BY <2>8, <2>10 DEF Calm
    <3>2. TableInv(page', server')
      BY <1>2, <2>4, <2>5, <2>8, <3>1 DEF TableInv, SaysSaved
    <3> QED
      BY <2>8, <3>2 DEF FormInv, SaveInv, UnreadInv, Unread
  <2> QED
    BY <2>9, <2>10 DEF WebhookInv
<1>6. CASE /\ i < Len(typedIn)
           /\ page' = [page EXCEPT !.rows = typedIn, !.edited = page.load, !.saved = FALSE]
  <2>1. Calm(page) => Countable(typedIn, page.recordIndex, page.deletes, server.stored)
    BY <1>1, <1>4, <1>6, TypingCountable DEF WebhookInv, FormInv, TableInv
  <2> HIDE DEF typedIn
  <2>2. page' = [kind |-> page.kind, webhookId |-> page.webhookId, enabled |-> page.enabled,
                 load |-> page.load, rows |-> typedIn, recordIndex |-> page.recordIndex,
                 waiting |-> page.waiting, deletes |-> page.deletes,
                 operations |-> page.operations, sent |-> page.sent,
                 saved |-> FALSE, edited |-> page.load, raced |-> page.raced]
    <3>1. /\ PageShape
          /\ page' = [page EXCEPT !.rows = typedIn, !.edited = page.load, !.saved = FALSE]
      BY <1>1, <1>6, PageHasShape DEF typedIn
    <3> QED
      BY ONLY <3>1 DEF PageShape
  <2>3. page' \in WebhookPage
    BY <1>1, <1>4, <2>2 DEF WebhookPage
  <2>4. /\ page'.rows = typedIn /\ page'.recordIndex = page.recordIndex
        /\ page'.deletes = page.deletes /\ page'.operations = <<>>
        /\ page'.raced = page.raced /\ page'.saved = FALSE
        /\ page'.edited = page.load /\ page'.load = page.load
    BY <1>2, <2>2
  <2>5. WebhookTypes(page', server')
    BY <1>1, <1>2, <2>3, <2>4 DEF WebhookInv, WebhookTypes, Adding
  <2>6. ASSUME Calm(page') PROVE FormInv(page', server')
    <3>1. TableInv(page', server')
      BY <1>2, <2>1, <2>4, <2>6 DEF TableInv, SaysSaved, Calm
    <3> QED
      BY <2>4, <3>1 DEF FormInv, SaveInv, UnreadInv, Unread
  <2> QED
    BY <2>5, <2>6 DEF WebhookInv
<1> QED
  BY <1>3, <1>5, <1>6

LEMMA LeavesRows ==
    ASSUME NEW rows \in Seq(TriggerRow), NEW i \in DOMAIN rows, RemoveAt(rows, i) # <<>>
    PROVE  Len(rows) > 1
<1> DEFINE left == RemoveAt(rows, i)
<1>1. left \in Seq(TriggerRow) /\ Len(left) = Len(rows) - 1 /\ Len(rows) \in Nat
  BY RemovedRow
<1> HIDE DEF left
<1>2. left # <<>>
  BY DEF left
<1>3. Len(left) # 0 /\ Len(left) \in Nat
  BY <1>1, <1>2, EmptySeq
<1> QED
  BY <1>1, <1>3

LEMMA OnDeleteRowKeeps ==
    ASSUME WebhookInv, OnDeleteRow PROVE WebhookInv'
<1>1. /\ page \in WebhookPage /\ server \in WebhookStore
      /\ page.rows \in Seq(TriggerRow) /\ page.sent \in Seq(TriggerRow)
      /\ page.recordIndex \in Int /\ page.deletes \in SUBSET PendingDelete
      /\ page.operations \in Seq(WebhookOperation) /\ server.stored \in SUBSET EventIds
  BY PageFields DEF WebhookInv
<1>2. page.operations = <<>> /\ server' = server
  BY ShownIsIdle DEF OnDeleteRow, FormShown
<1>3. PICK i \in DOMAIN page.rows :
         LET left == RemoveAt(page.rows, i) IN
         page' = [page EXCEPT
            !.rows = IF left = <<>> THEN <<BlankRow(NewId(InUse))>> ELSE left,
            !.edited = page.load, !.saved = FALSE,
            !.deletes = IF page.rows[i].created
                        THEN @ \cup {[id |-> page.rows[i].id, recordIndex |-> page.recordIndex]}
                        ELSE @]
  BY DEF OnDeleteRow
<1> DEFINE left == RemoveAt(page.rows, i)
           deleted == [id |-> page.rows[i].id, recordIndex |-> page.recordIndex]
           created == page.rows[i].created = TRUE
           rows == IF left = <<>> THEN <<BlankRow(NewId(InUse))>> ELSE left
           deletes == IF page.rows[i].created THEN page.deletes \cup {deleted}
                      ELSE page.deletes
<1>4. /\ NewId(InUse) \in EventIds
      /\ NewId(InUse) # page.rows[i].id
      /\ \A d \in page.deletes : d.id # NewId(InUse)
  BY InUseTyped, NewIdIsNew DEF WebhookInv, OnDeleteRow
<1>5. /\ left \in Seq(TriggerRow) /\ Len(left) = Len(page.rows) - 1
      /\ Len(page.rows) \in Nat /\ page.rows # <<>>
  BY <1>1, RemovedRow
<1>6. deletes = IF created THEN page.deletes \cup {deleted} ELSE page.deletes
  BY <1>1, RowFields
<1>7. /\ deleted \in PendingDelete /\ deleted.id = page.rows[i].id
      /\ deletes \in SUBSET PendingDelete
  BY <1>1, <1>6, RowFields DEF PendingDelete
<1>8. rows \in Seq(TriggerRow)
  <2>1. <<BlankRow(NewId(InUse))>> \in Seq(TriggerRow)
    BY <1>4 DEF BlankRow, TriggerRow
  <2> QED
    BY <1>5, <2>1
<1>9. ASSUME Calm(page) PROVE Countable(rows, page.recordIndex, deletes, server.stored)
  <2>1. Countable(page.rows, page.recordIndex, page.deletes, server.stored)
    BY <1>9 DEF WebhookInv, FormInv, TableInv
  <2>2. CASE left = <<>>
    <3>1. /\ \A k \in Counts(page.recordIndex, page.deletes) : k >= 1
          /\ created => \A k \in Counts(page.recordIndex, page.deletes \cup {deleted}) : k >= 1
      BY <1>1, <1>5, <2>1, CountsToOne
    <3>2. \A k \in Counts(page.recordIndex, deletes) : k >= 1
      <4> HIDE DEF deletes, deleted, created
      <4> QED
        BY <1>6, <3>1
    <3>3. \A d \in deletes : d.id # NewId(InUse)
      <4> HIDE DEF deletes, deleted, created
      <4> QED
        BY <1>4, <1>6, <1>7
    <3>4. Countable(<<BlankRow(NewId(InUse))>>, page.recordIndex, deletes, server.stored)
      <4> HIDE DEF deletes
      <4> QED
        BY <1>1, <1>4, <1>7, <3>2, <3>3, BlankCountable
    <3> QED
      BY <2>2, <3>4
  <2>3. CASE left # <<>>
    <3>1. Len(page.rows) > 1
      BY <1>1, <2>3, LeavesRows
    <3>2. /\ Countable(left, page.recordIndex, page.deletes, server.stored)
          /\ created =>
               Countable(left, page.recordIndex, page.deletes \cup {deleted}, server.stored)
      BY <1>1, <2>1, <3>1, RemovalCountable
    <3>3. Countable(left, page.recordIndex, deletes, server.stored)
      <4> HIDE DEF deletes, deleted, created
      <4> QED
        BY <1>6, <3>2
    <3> QED
      BY <2>3, <3>3
  <2> QED
    BY <2>2, <2>3
<1>10. page' = [page EXCEPT !.rows = rows, !.edited = page.load, !.saved = FALSE,
                            !.deletes = deletes]
  BY <1>3
<1> HIDE DEF rows, deletes, deleted, created, left
<1>11. page' = [kind |-> page.kind, webhookId |-> page.webhookId, enabled |-> page.enabled,
                load |-> page.load, rows |-> rows, recordIndex |-> page.recordIndex,
                waiting |-> page.waiting, deletes |-> deletes,
                operations |-> page.operations, sent |-> page.sent,
                saved |-> FALSE, edited |-> page.load, raced |-> page.raced]
  <2>1. PageShape
    BY <1>1, PageHasShape
  <2> QED
    BY ONLY <1>10, <2>1 DEF PageShape
<1>12. page' \in WebhookPage
  BY <1>1, <1>7, <1>8, <1>11 DEF WebhookPage
<1>13. /\ page'.rows = rows /\ page'.recordIndex = page.recordIndex
       /\ page'.deletes = deletes /\ page'.operations = <<>>
       /\ page'.raced = page.raced /\ page'.saved = FALSE
       /\ page'.edited = page.load /\ page'.load = page.load
  BY <1>2, <1>11
<1>14. WebhookTypes(page', server')
  BY <1>1, <1>2, <1>12, <1>13 DEF WebhookInv, WebhookTypes, Adding
<1>15. ASSUME Calm(page') PROVE FormInv(page', server')
  <2>1. TableInv(page', server')
    BY <1>2, <1>9, <1>13, <1>15 DEF TableInv, SaysSaved, Calm
  <2> QED
    BY <1>13, <2>1 DEF FormInv, SaveInv, UnreadInv, Unread
<1> QED
  BY <1>14, <1>15 DEF WebhookInv

(* The API has done what was asked about the deletion d, or has not.        *)
LEMMA DeleteAnsweredKeeps ==
    ASSUME WebhookInv, DeleteAnswered PROVE WebhookInv'
<1>1. /\ page \in WebhookPage /\ server \in WebhookStore
      /\ page.rows \in Seq(TriggerRow) /\ page.sent \in Seq(TriggerRow)
      /\ page.recordIndex \in Int /\ page.deletes \in SUBSET PendingDelete
      /\ page.operations \in Seq(WebhookOperation) /\ server.stored \in SUBSET EventIds
  BY PageFields DEF WebhookInv
<1>2. PICK d \in page.deletes :
        /\ page' = [page EXCEPT !.deletes = @ \ {d}, !.recordIndex = d.recordIndex - 1]
        /\ server' = [server EXCEPT !.stored = @ \ {d.id}]
  BY DEF DeleteAnswered
<1> DEFINE n == d.recordIndex - 1
           deletes == page.deletes \ {d}
           stored == server.stored \ {d.id}
<1>3. n \in Int /\ deletes \in SUBSET PendingDelete /\ stored \in SUBSET EventIds
  BY <1>1 DEF PendingDelete
<1>4. /\ page' = [page EXCEPT !.deletes = deletes, !.recordIndex = n]
      /\ server' = [server EXCEPT !.stored = stored]
  BY <1>2
<1>5. ASSUME Calm(page)
      PROVE  /\ Countable(page.rows, n, deletes, stored)
             /\ SaysSaved(page) => CompleteAreIn(page.rows, stored)
             /\ page.operations # <<>> =>
                  /\ Countable(page.sent, n, deletes, stored \cup Adding(page.operations))
                  /\ CompleteAreIn(page.sent, stored \cup Adding(page.operations))
             /\ ~ Unread(page)
  <2> DEFINE adding == Adding(page.operations)
  <2>1. /\ Countable(page.rows, page.recordIndex, page.deletes, server.stored)
        /\ SaysSaved(page) => CompleteAreIn(page.rows, server.stored)
        /\ page.operations # <<>> =>
             /\ Countable(page.sent, page.recordIndex, page.deletes, server.stored \cup adding)
             /\ CompleteAreIn(page.sent, server.stored \cup adding)
        /\ Unread(page) => page.deletes = {}
    BY <1>5 DEF WebhookInv, FormInv, TableInv, SaveInv, UnreadInv
  <2> HIDE DEF adding
  <2>2. (server.stored \cup adding) \ {d.id} \subseteq stored \cup adding
    OBVIOUS
  <2>3. /\ Countable(page.rows, n, deletes, stored)
        /\ SaysSaved(page) => CompleteAreIn(page.rows, stored)
    BY <2>1, AnswerCountable, AnswerComplete
  <2>4. ASSUME page.operations # <<>>
        PROVE  /\ Countable(page.sent, n, deletes, stored \cup adding)
               /\ CompleteAreIn(page.sent, stored \cup adding)
    <3>1. /\ Countable(page.sent, n, deletes, (server.stored \cup adding) \ {d.id})
          /\ CompleteAreIn(page.sent, (server.stored \cup adding) \ {d.id})
      BY <2>1, <2>4, AnswerCountable, AnswerComplete
    <3> HIDE DEF stored, n, deletes
    <3> QED
      BY <2>2, <3>1, CountableInMore, CompleteInMore
  <2>5. ~ Unread(page)
    BY <2>1
  <2> QED
    BY <2>3, <2>4, <2>5 DEF adding
<1> HIDE DEF n, deletes, stored
<1>6. page' = [kind |-> page.kind, webhookId |-> page.webhookId, enabled |-> page.enabled,
               load |-> page.load, rows |-> page.rows, recordIndex |-> n,
               waiting |-> page.waiting, deletes |-> deletes,
               operations |-> page.operations, sent |-> page.sent,
               saved |-> page.saved, edited |-> page.edited, raced |-> page.raced]
  <2>1. PageShape
    BY <1>1, PageHasShape
  <2> QED
    BY ONLY <1>4, <2>1 DEF PageShape
<1>7. page' \in WebhookPage
  BY <1>1, <1>3, <1>6 DEF WebhookPage
<1>8. server' = [hook |-> server.hook, stored |-> stored] /\ server' \in WebhookStore
  BY <1>1, <1>3, <1>4, WebhookStoreShape DEF WebhookStore
<1>9. /\ page'.rows = page.rows /\ page'.sent = page.sent
      /\ page'.recordIndex = n /\ page'.deletes = deletes /\ page'.operations = page.operations
      /\ page'.raced = page.raced /\ page'.saved = page.saved /\ page'.waiting = page.waiting
      /\ page'.load = page.load /\ page'.edited = page.edited
      /\ server'.stored = stored
  BY <1>6, <1>8
<1>10. WebhookTypes(page', server')
  BY <1>7, <1>8, <1>9 DEF WebhookInv, WebhookTypes, Waits
<1>11. ASSUME Calm(page') PROVE FormInv(page', server')
  <2>1. Calm(page)
    BY <1>9, <1>11 DEF Calm
  <2> QED
    BY <1>5, <1>9, <2>1 DEF FormInv, TableInv, SaveInv, UnreadInv, SaysSaved, Unread
<1> QED
  BY <1>10, <1>11 DEF WebhookInv

LEMMA DeleteFailsKeeps ==
    ASSUME WebhookInv, DeleteFails PROVE WebhookInv'
<1>1. /\ page \in WebhookPage /\ server \in WebhookStore
      /\ page.rows \in Seq(TriggerRow) /\ page.sent \in Seq(TriggerRow)
      /\ page.recordIndex \in Int /\ page.deletes \in SUBSET PendingDelete
      /\ page.operations \in Seq(WebhookOperation) /\ server.stored \in SUBSET EventIds
  BY PageFields DEF WebhookInv
<1>2. PICK d \in page.deletes : page' = [page EXCEPT !.deletes = @ \ {d}]
  BY DEF DeleteFails
<1>3. server' = server
  BY DEF DeleteFails
<1> DEFINE deletes == page.deletes \ {d}
<1>4. deletes \in SUBSET PendingDelete /\ page' = [page EXCEPT !.deletes = deletes]
  BY <1>1, <1>2
<1>5. ASSUME Calm(page)
      PROVE  /\ Countable(page.rows, page.recordIndex, deletes, server.stored)
             /\ page.operations # <<>> =>
                  Countable(page.sent, page.recordIndex, deletes,
                            server.stored \cup Adding(page.operations))
             /\ ~ Unread(page)
  <2>1. /\ TableInv(page, server) /\ SaveInv(page, server) /\ UnreadInv(page)
    BY <1>5 DEF WebhookInv, FormInv
  <2>2. ~ Unread(page)
    BY <2>1 DEF UnreadInv
  <2>3. Countable(page.rows, page.recordIndex, deletes, server.stored)
    BY <2>1, AnswerCountable DEF TableInv
  <2>4. page.operations # <<>> =>
           Countable(page.sent, page.recordIndex, deletes,
                     server.stored \cup Adding(page.operations))
    BY <2>1, AnswerCountable DEF SaveInv
  <2> QED
    BY <2>2, <2>3, <2>4
<1> HIDE DEF deletes
<1>6. page' = [kind |-> page.kind, webhookId |-> page.webhookId, enabled |-> page.enabled,
               load |-> page.load, rows |-> page.rows, recordIndex |-> page.recordIndex,
               waiting |-> page.waiting, deletes |-> deletes,
               operations |-> page.operations, sent |-> page.sent,
               saved |-> page.saved, edited |-> page.edited, raced |-> page.raced]
  <2>1. PageShape
    BY <1>1, PageHasShape
  <2> QED
    BY ONLY <1>4, <2>1 DEF PageShape
<1>7. page' \in WebhookPage
  BY <1>1, <1>4, <1>6 DEF WebhookPage
<1>8. /\ page'.rows = page.rows /\ page'.sent = page.sent
      /\ page'.recordIndex = page.recordIndex /\ page'.deletes = deletes
      /\ page'.operations = page.operations
      /\ page'.raced = page.raced /\ page'.saved = page.saved /\ page'.waiting = page.waiting
      /\ page'.load = page.load /\ page'.edited = page.edited
  BY <1>6
<1>9. WebhookTypes(page', server')
  BY <1>1, <1>3, <1>7, <1>8 DEF WebhookInv, WebhookTypes, Waits
<1>10. ASSUME Calm(page') PROVE FormInv(page', server')
  <2>1. Calm(page)
    BY <1>8, <1>10 DEF Calm
  <2>2. TableInv(page, server) /\ SaveInv(page, server)
    BY <2>1 DEF WebhookInv, FormInv
  <2> QED
    BY <1>3, <1>5, <1>8, <2>1, <2>2
    DEF FormInv, TableInv, SaveInv, UnreadInv, SaysSaved, Unread
<1> QED
  BY <1>9, <1>10 DEF WebhookInv

LEMMA HandleWebhookClickKeeps ==
    ASSUME WebhookInv, HandleWebhookClick PROVE WebhookInv'
<1>1. /\ page \in WebhookPage /\ server \in WebhookStore
      /\ page.rows \in Seq(TriggerRow) /\ page.sent \in Seq(TriggerRow)
      /\ page.recordIndex \in Int /\ page.deletes \in SUBSET PendingDelete
      /\ page.operations \in Seq(WebhookOperation) /\ server.stored \in SUBSET EventIds
  BY PageFields DEF WebhookInv
<1> DEFINE enabled == ~ page.enabled
<1>2. /\ enabled \in BOOLEAN /\ server' = server
      /\ page' = [page EXCEPT !.enabled = enabled, !.saved = FALSE]
  BY DEF HandleWebhookClick
<1> HIDE DEF enabled
<1>3. page' = [kind |-> page.kind, webhookId |-> page.webhookId, enabled |-> enabled,
               load |-> page.load, rows |-> page.rows, recordIndex |-> page.recordIndex,
               waiting |-> page.waiting, deletes |-> page.deletes,
               operations |-> page.operations, sent |-> page.sent,
               saved |-> FALSE, edited |-> page.edited, raced |-> page.raced]
  <2>1. PageShape
    BY <1>1, PageHasShape
  <2> QED
    BY ONLY <1>2, <2>1 DEF PageShape
<1>4. page' \in WebhookPage
  BY <1>1, <1>2, <1>3 DEF WebhookPage
<1>5. /\ page'.rows = page.rows /\ page'.sent = page.sent
      /\ page'.recordIndex = page.recordIndex /\ page'.deletes = page.deletes
      /\ page'.operations = page.operations
      /\ page'.raced = page.raced /\ page'.saved = FALSE /\ page'.waiting = page.waiting
      /\ page'.load = page.load /\ page'.edited = page.edited
  BY <1>3
<1>6. WebhookTypes(page', server')
  BY <1>1, <1>2, <1>4, <1>5 DEF WebhookInv, WebhookTypes, Waits
<1>7. ASSUME Calm(page') PROVE FormInv(page', server')
  BY <1>2, <1>5, <1>7
  DEF WebhookInv, Calm, FormInv, TableInv, SaveInv, UnreadInv, SaysSaved, Unread
<1> QED
  BY <1>6, <1>7 DEF WebhookInv

LEMMA OnFinishSaveKeeps ==
    ASSUME WebhookInv, OnFinishSave PROVE WebhookInv'
<1> DEFINE first == [op |-> IF page.webhookId THEN "updateWebhook" ELSE "addWebhook",
                     id |-> None]
           n == page.recordIndex
           operations == OperationsOf(first, CountedOf(page.rows, n))
           sent == SentOf(page.rows, n)
<1>1. /\ page \in WebhookPage /\ server \in WebhookStore
      /\ page.rows \in Seq(TriggerRow) /\ page.sent \in Seq(TriggerRow)
      /\ page.recordIndex \in Int /\ page.deletes \in SUBSET PendingDelete
      /\ page.operations \in Seq(WebhookOperation) /\ server.stored \in SUBSET EventIds
  BY PageFields DEF WebhookInv
<1>2. /\ server' = server
      /\ \A i \in DOMAIN CountedOf(page.rows, n) :
            CountedOf(page.rows, n)[i].typed = "complete"
      /\ page' = [page EXCEPT !.waiting = TRUE, !.sent = sent, !.operations = operations]
  BY DEF OnFinishSave, Counted, CountedOf, OperationsOf, SentOf
<1>3. first \in WebhookOperation /\ first.op # "add"
  BY DEF WebhookOperation
<1> HIDE DEF first
<1>4. /\ operations \in Seq(WebhookOperation) /\ operations # <<>>
      /\ Adding(operations) \subseteq EventIds
  BY <1>1, <1>3, CountedRows, OperationsTyped
<1>5. sent \in Seq(TriggerRow)
  BY <1>1, SentRows
<1>6. ASSUME Calm(page)
      PROVE  /\ Countable(sent, n, page.deletes, server.stored \cup Adding(operations))
             /\ CompleteAreIn(sent, server.stored \cup Adding(operations))
  <2>1. Countable(page.rows, n, page.deletes, server.stored)
    BY <1>6 DEF WebhookInv, FormInv, TableInv
  <2> QED
    BY <1>1, <1>2, <1>3, <2>1, SentCountable
<1> HIDE DEF operations, sent
<1>7. page' = [kind |-> page.kind, webhookId |-> page.webhookId, enabled |-> page.enabled,
               load |-> page.load, rows |-> page.rows, recordIndex |-> page.recordIndex,
               waiting |-> TRUE, deletes |-> page.deletes,
               operations |-> operations, sent |-> sent,
               saved |-> page.saved, edited |-> page.edited, raced |-> page.raced]
  <2>1. PageShape
    BY <1>1, PageHasShape
  <2> QED
    BY ONLY <1>2, <2>1 DEF PageShape
<1>8. page' \in WebhookPage
  BY <1>1, <1>4, <1>5, <1>7 DEF WebhookPage
<1>9. /\ page'.rows = page.rows /\ page'.sent = sent
      /\ page'.recordIndex = n /\ page'.deletes = page.deletes
      /\ page'.operations = operations
      /\ page'.raced = page.raced /\ page'.saved = page.saved /\ page'.waiting = TRUE
      /\ page'.load = page.load /\ page'.edited = page.edited
  BY <1>7
<1>10. WebhookTypes(page', server')
  BY <1>1, <1>2, <1>4, <1>8, <1>9 DEF WebhookTypes, Waits
<1>11. ASSUME Calm(page') PROVE FormInv(page', server')
  <2>1. Calm(page)
    BY <1>9, <1>11 DEF Calm
  <2>2. TableInv(page', server')
    BY <1>2, <1>9, <2>1 DEF WebhookInv, FormInv, TableInv, SaysSaved
  <2>3. SaveInv(page', server')
    BY <1>2, <1>6, <1>9, <2>1 DEF SaveInv
  <2>4. ASSUME Unread(page')
        PROVE  /\ page.deletes = {} /\ n = 1 /\ UncountedFrom(page.rows, 1)
               /\ UncountedFrom(sent, 1)
    <3>1. Unread(page)
      BY <1>9, <2>4 DEF Unread
    <3>2. page.deletes = {} /\ n = 1 /\ UncountedFrom(page.rows, 1)
      BY <2>1, <3>1 DEF WebhookInv, FormInv, UnreadInv
    <3>3. UncountedFrom(sent, n)
      BY <1>6, <2>1 DEF Countable, Counts
    <3> QED
      BY <3>2, <3>3
  <2>5. UnreadInv(page')
    BY <1>9, <2>4 DEF UnreadInv
  <2> QED
    BY <2>2, <2>3, <2>5 DEF FormInv
<1> QED
  BY <1>10, <1>11 DEF WebhookInv

LEMMA OnFinishDisableKeeps ==
    ASSUME WebhookInv, OnFinishDisable PROVE WebhookInv'
<1>1. /\ page \in WebhookPage /\ server \in WebhookStore
      /\ page.rows \in Seq(TriggerRow) /\ page.sent \in Seq(TriggerRow)
      /\ page.recordIndex \in Int /\ page.deletes \in SUBSET PendingDelete
      /\ page.operations \in Seq(WebhookOperation) /\ server.stored \in SUBSET EventIds
  BY PageFields DEF WebhookInv
<1> DEFINE rows == <<>>
<1>2. /\ page.operations = <<>>
      /\ page' = [page EXCEPT !.rows = rows, !.edited = page.load]
  BY ShownIsIdle DEF OnFinishDisable
<1>3. rows \in Seq(TriggerRow) /\ Len(rows) = 0 /\ DOMAIN rows = {}
  OBVIOUS
<1> HIDE DEF rows
<1>4. server' \in WebhookStore
  <2>1. server = [hook |-> server.hook, stored |-> server.stored]
    BY <1>1, WebhookStoreShape
  <2>2. server' = server \/ server' = [server EXCEPT !.hook = FALSE, !.stored = {}]
    BY DEF OnFinishDisable
  <2>3. CASE server' = [server EXCEPT !.hook = FALSE, !.stored = {}]
    <3>1. server' = [hook |-> FALSE, stored |-> {}]
      BY <2>1, <2>3
    <3> QED
      BY <3>1 DEF WebhookStore
  <2> QED
    BY <1>1, <2>2, <2>3
<1>5. page' = [kind |-> page.kind, webhookId |-> page.webhookId, enabled |-> page.enabled,
               load |-> page.load, rows |-> rows, recordIndex |-> page.recordIndex,
               waiting |-> page.waiting, deletes |-> page.deletes,
               operations |-> page.operations, sent |-> page.sent,
               saved |-> page.saved, edited |-> page.load, raced |-> page.raced]
  <2>1. PageShape
    BY <1>1, PageHasShape
  <2> QED
    BY ONLY <1>2, <2>1 DEF PageShape
<1>6. page' \in WebhookPage
  BY <1>1, <1>3, <1>5 DEF WebhookPage
<1>7. /\ page'.rows = rows /\ page'.recordIndex = page.recordIndex
      /\ page'.deletes = page.deletes /\ page'.operations = <<>>
      /\ page'.raced = page.raced
      /\ page'.edited = page.load /\ page'.load = page.load
  BY <1>2, <1>5
<1>8. WebhookTypes(page', server')
  BY <1>1, <1>4, <1>6, <1>7 DEF WebhookTypes, Adding
<1>9. ASSUME Calm(page') PROVE FormInv(page', server')
  <2>1. Countable(page.rows, page.recordIndex, page.deletes, server.stored)
    BY <1>7, <1>9 DEF WebhookInv, FormInv, TableInv, Calm
  <2>2. Counts(page.recordIndex, page.deletes) \subseteq Int /\ Len(page.rows) >= 0
    BY <1>1, CountsTyped
  <2>3. \A k \in Counts(page.recordIndex, page.deletes) : UncountedFrom(rows, k)
    <3> SUFFICES ASSUME NEW k \in Counts(page.recordIndex, page.deletes)
                 PROVE  UncountedFrom(rows, k)
      OBVIOUS
    <3>1. k >= Len(page.rows) /\ k \in Int /\ Len(page.rows) \in Nat
      BY <1>1, <2>1, <2>2 DEF Countable, UncountedFrom
    <3>2. k >= Len(rows)
      BY <1>3, <3>1
    <3> QED
      BY <1>3, <3>2 DEF UncountedFrom
  <2>4. TableInv(page', server')
    BY <1>3, <1>7, <2>3 DEF TableInv, Countable, CompleteAreIn
  <2> QED
    BY <1>7, <2>4 DEF FormInv, SaveInv, UnreadInv, Unread
<1> QED
  BY <1>8, <1>9 DEF WebhookInv

LEMMA OperationFailsKeeps ==
    ASSUME WebhookInv, OperationFails PROVE WebhookInv'
<1>1. /\ page \in WebhookPage /\ server \in WebhookStore
      /\ page.rows \in Seq(TriggerRow) /\ page.sent \in Seq(TriggerRow)
      /\ page.recordIndex \in Int /\ page.deletes \in SUBSET PendingDelete
      /\ page.operations \in Seq(WebhookOperation) /\ server.stored \in SUBSET EventIds
  BY PageFields DEF WebhookInv
<1> DEFINE none == <<>>
<1>2. page' = [page EXCEPT !.operations = none] /\ server' = server
  BY DEF OperationFails
<1>3. none \in Seq(WebhookOperation) /\ Adding(none) = {}
  BY DEF Adding
<1> HIDE DEF none
<1>4. page' = [kind |-> page.kind, webhookId |-> page.webhookId, enabled |-> page.enabled,
               load |-> page.load, rows |-> page.rows, recordIndex |-> page.recordIndex,
               waiting |-> page.waiting, deletes |-> page.deletes,
               operations |-> none, sent |-> page.sent,
               saved |-> page.saved, edited |-> page.edited, raced |-> page.raced]
  <2>1. PageShape
    BY <1>1, PageHasShape
  <2> QED
    BY ONLY <1>2, <2>1 DEF PageShape
<1>5. page' \in WebhookPage
  BY <1>1, <1>3, <1>4 DEF WebhookPage
<1>6. /\ page'.rows = page.rows /\ page'.recordIndex = page.recordIndex
      /\ page'.deletes = page.deletes /\ page'.operations = <<>>
      /\ page'.raced = page.raced /\ page'.saved = page.saved
      /\ page'.load = page.load /\ page'.edited = page.edited
  BY <1>4 DEF none
<1>7. WebhookTypes(page', server')
  BY <1>1, <1>2, <1>5, <1>6 DEF WebhookTypes, Adding
<1>8. ASSUME Calm(page') PROVE FormInv(page', server')
  BY <1>2, <1>6, <1>8
  DEF WebhookInv, Calm, FormInv, TableInv, SaveInv, UnreadInv, SaysSaved, Unread
<1> QED
  BY <1>7, <1>8 DEF WebhookInv

LEMMA WorkspacePolledKeeps ==
    ASSUME WebhookInv, WorkspacePolled PROVE WebhookInv'
<1>1. /\ page \in WebhookPage /\ server \in WebhookStore
      /\ page.rows \in Seq(TriggerRow) /\ page.sent \in Seq(TriggerRow)
      /\ page.recordIndex \in Int /\ page.deletes \in SUBSET PendingDelete
      /\ page.operations \in Seq(WebhookOperation) /\ server.stored \in SUBSET EventIds
  BY PageFields DEF WebhookInv
<1>2. page' = [page EXCEPT !.webhookId = TRUE] /\ server' = server
  BY DEF WorkspacePolled
<1>3. page' = [kind |-> page.kind, webhookId |-> TRUE, enabled |-> page.enabled,
               load |-> page.load, rows |-> page.rows, recordIndex |-> page.recordIndex,
               waiting |-> page.waiting, deletes |-> page.deletes,
               operations |-> page.operations, sent |-> page.sent,
               saved |-> page.saved, edited |-> page.edited, raced |-> page.raced]
  <2>1. PageShape
    BY <1>1, PageHasShape
  <2> QED
    BY ONLY <1>2, <2>1 DEF PageShape
<1>4. page' \in WebhookPage
  BY <1>1, <1>3 DEF WebhookPage
<1>5. /\ page'.rows = page.rows /\ page'.sent = page.sent
      /\ page'.recordIndex = page.recordIndex /\ page'.deletes = page.deletes
      /\ page'.operations = page.operations
      /\ page'.raced = page.raced /\ page'.saved = page.saved /\ page'.waiting = page.waiting
      /\ page'.load = page.load /\ page'.edited = page.edited
  BY <1>3
<1>6. WebhookTypes(page', server')
  BY <1>1, <1>2, <1>4, <1>5 DEF WebhookInv, WebhookTypes, Waits
<1>7. ASSUME Calm(page') PROVE FormInv(page', server')
  BY <1>2, <1>5, <1>7
  DEF WebhookInv, Calm, FormInv, TableInv, SaveInv, UnreadInv, SaysSaved, Unread
<1> QED
  BY <1>6, <1>7 DEF WebhookInv

(* A page that has just been mounted.                                       *)
LEMMA MountedKeeps ==
    ASSUME NEW hook \in BOOLEAN, NEW stored \in SUBSET EventIds, stored # EventIds,
           NEW s \in WebhookStore, s.stored = stored
    PROVE  /\ WebhookTypes(FormMounted(hook, stored), s)
           /\ FormInv(FormMounted(hook, stored), s)
<1> DEFINE rows == <<BlankRow(NewId(stored))>>
           new == FormMounted(hook, stored)
<1>1. NewId(stored) \in EventIds
  BY NewIdIsNew
<1>2. \A k \in Counts(1, {}) : k >= 1
  BY DEF Counts
<1>3. /\ Countable(rows, 1, {}, stored) /\ rows \in Seq(TriggerRow)
      /\ UncountedFrom(rows, 1) /\ CompleteAreIn(rows, stored)
  BY <1>1, <1>2, BlankCountable
<1>4. new = [kind |-> "webhook", webhookId |-> hook, enabled |-> hook,
             load |-> hook, rows |-> rows, recordIndex |-> 1,
             waiting |-> FALSE, deletes |-> {}, operations |-> <<>>, sent |-> <<>>,
             saved |-> FALSE, edited |-> FALSE, raced |-> FALSE]
  BY DEF FormMounted
<1> HIDE DEF rows, new
<1>5. new \in WebhookPage
  <2>1. <<>> \in Seq(TriggerRow) /\ <<>> \in Seq(WebhookOperation)
    OBVIOUS
  <2> QED
    BY <1>3, <1>4, <2>1 DEF WebhookPage
<1>6. /\ new.rows = rows /\ new.recordIndex = 1 /\ new.deletes = {}
      /\ new.operations = <<>> /\ new.saved = FALSE
  BY <1>4
<1>7. WebhookTypes(new, s)
  BY <1>5, <1>6 DEF WebhookTypes, Adding
<1>8. FormInv(new, s)
  BY <1>3, <1>6 DEF FormInv, TableInv, SaveInv, UnreadInv
<1> QED
  BY <1>7, <1>8 DEF new

LEMMA ReopenedKeeps ==
    ASSUME WebhookInv, Reopened PROVE WebhookInv'
<1>1. server \in WebhookStore /\ server.stored \in SUBSET EventIds /\ server.hook \in BOOLEAN
  BY PageFields DEF WebhookInv, WebhookStore
<1>2. /\ page' = FormMounted(server.hook, server.stored) /\ server' = server
      /\ server.stored # EventIds
  BY DEF Reopened
<1>3. WebhookTypes(page', server') /\ FormInv(page', server')
  BY <1>1, <1>2, MountedKeeps
<1> QED
  BY <1>3 DEF WebhookInv

LEMMA WebhookStarts == WebhookInit => WebhookInv
<1> SUFFICES ASSUME WebhookInit PROVE WebhookInv
  OBVIOUS
<1>1. PICK stored \in SUBSET EventIds, hook \in BOOLEAN :
         /\ stored # EventIds /\ server = [hook |-> hook, stored |-> stored]
         /\ page = FormMounted(hook, stored)
  BY DEF WebhookInit
<1>2. server \in WebhookStore /\ server.stored = stored
  BY <1>1 DEF WebhookStore
<1>3. WebhookTypes(page, server) /\ FormInv(page, server)
  BY <1>1, <1>2, MountedKeeps
<1> QED
  BY <1>3 DEF WebhookInv

(* The first of the operations is done, and the others are left.            *)
LEMMA OneOperationLess ==
    ASSUME NEW operations \in Seq(WebhookOperation), operations # <<>>
    PROVE  /\ Head(operations) \in WebhookOperation
           /\ Tail(operations) \in Seq(WebhookOperation)
           /\ Len(operations) > 1 => Tail(operations) # <<>>
           /\ ~ Len(operations) > 1 => Tail(operations) = <<>>
           /\ Adding(Tail(operations)) \subseteq Adding(operations)
           /\ Head(operations).op = "add" => Head(operations).id \in Adding(operations)
           /\ \A id \in Adding(operations) :
                 \/ id \in Adding(Tail(operations))
                 \/ Head(operations).op = "add" /\ id = Head(operations).id
<1> DEFINE head == Head(operations)
           tail == Tail(operations)
<1>1. /\ head = operations[1] /\ head \in WebhookOperation
      /\ tail \in Seq(WebhookOperation) /\ Len(tail) = Len(operations) - 1
      /\ DOMAIN operations = 1 .. Len(operations) /\ Len(operations) \in Nat
      /\ Len(operations) >= 1
      /\ \A k \in 1 .. Len(tail) : tail[k] = operations[k + 1]
  BY HeadTailProperties, EmptySeq
<1> HIDE DEF head, tail
<1>2. DOMAIN tail = 1 .. Len(tail) /\ Len(tail) \in Nat
  BY <1>1
<1>3. (Len(operations) > 1 => tail # <<>>) /\ (~ Len(operations) > 1 => tail = <<>>)
  <2>1. tail = <<>> <=> Len(tail) = 0
    BY <1>1, EmptySeq
  <2> QED
    BY <1>1, <2>1
<1>4. Adding(tail) \subseteq Adding(operations)
  <2> SUFFICES ASSUME NEW k \in DOMAIN tail, tail[k].op = "add"
               PROVE  tail[k].id \in Adding(operations)
    BY DEF Adding
  <2>1. k + 1 \in DOMAIN operations /\ tail[k] = operations[k + 1]
    BY <1>1, <1>2
  <2> QED
    BY <2>1 DEF Adding
<1>5. head.op = "add" => head.id \in Adding(operations)
  <2>1. 1 \in DOMAIN operations
    BY <1>1
  <2> QED
    BY <1>1, <2>1 DEF Adding
<1>6. ASSUME NEW k \in DOMAIN operations, operations[k].op = "add"
      PROVE  operations[k].id \in Adding(tail) \/ (head.op = "add" /\ operations[k].id = head.id)
  <2>1. CASE k = 1
    BY <1>1, <1>6, <2>1
  <2>2. CASE k # 1
    <3>1. k - 1 \in DOMAIN tail /\ tail[k - 1] = operations[k]
      <4>1. k - 1 \in 1 .. Len(tail) /\ (k - 1) + 1 = k
        BY <1>1, <1>2, <2>2
      <4>2. tail[k - 1] = operations[(k - 1) + 1]
        BY <1>1, <4>1
      <4> QED
        BY <1>2, <4>1, <4>2
    <3> QED
      BY <1>6, <3>1 DEF Adding
  <2> QED
    BY <2>1, <2>2
<1>7. \A id \in Adding(operations) : id \in Adding(tail) \/ (head.op = "add" /\ id = head.id)
  BY <1>6 DEF Adding
<1> QED
  BY <1>1, <1>3, <1>4, <1>5, <1>7 DEF head, tail

(* What the API has stored once it has done an operation.                   *)
Stored(operation, s) ==
    IF operation.op = "add" THEN s.stored \cup {operation.id} ELSE s.stored

LEMMA OperationStores ==
    ASSUME NEW operation \in WebhookOperation, NEW s \in WebhookStore, NEW t,
           operation.op = "add" => operation.id \in EventIds,
           t = CASE operation.op = "addWebhook" -> [s EXCEPT !.hook = TRUE]
                 [] operation.op = "add" -> [s EXCEPT !.stored = @ \cup {operation.id}]
                 [] OTHER -> s
    PROVE  t \in WebhookStore /\ t.stored = Stored(operation, s)
<1>1. s = [hook |-> s.hook, stored |-> s.stored]
  BY WebhookStoreShape
<1>2. CASE operation.op = "addWebhook"
  <2>1. t = [s EXCEPT !.hook = TRUE]
    BY <1>2
  <2>2. t = [hook |-> TRUE, stored |-> s.stored]
    BY <1>1, <2>1
  <2> QED
    BY <1>2, <2>2 DEF WebhookStore, Stored
<1>3. CASE operation.op = "add"
  <2> DEFINE more == s.stored \cup {operation.id}
  <2>1. t = [s EXCEPT !.stored = more] /\ more \in SUBSET EventIds
    BY <1>3 DEF WebhookStore
  <2> HIDE DEF more
  <2>2. t = [hook |-> s.hook, stored |-> more]
    BY <1>1, <2>1
  <2>3. t \in WebhookStore /\ t.stored = more
    BY <2>1, <2>2 DEF WebhookStore
  <2> QED
    BY <1>3, <2>3 DEF Stored, more
<1>4. CASE operation.op # "addWebhook" /\ operation.op # "add"
  BY <1>4 DEF Stored
<1> QED
  BY <1>2, <1>3, <1>4

LEMMA ExecuteOperationKeeps ==
    ASSUME WebhookInv, ExecuteOperation PROVE WebhookInv'
<1> DEFINE operation == Head(page.operations)
           tail == Tail(page.operations)
           stored == Stored(operation, server)
<1>1. /\ page \in WebhookPage /\ server \in WebhookStore
      /\ page.rows \in Seq(TriggerRow) /\ page.sent \in Seq(TriggerRow)
      /\ page.recordIndex \in Int /\ page.deletes \in SUBSET PendingDelete
      /\ page.operations \in Seq(WebhookOperation) /\ server.stored \in SUBSET EventIds
  BY PageFields DEF WebhookInv
<1>2. page.operations # <<>> /\ Waits(page) /\ Adding(page.operations) \subseteq EventIds
  BY DEF ExecuteOperation, WebhookInv, WebhookTypes
<1>3. /\ operation \in WebhookOperation /\ tail \in Seq(WebhookOperation)
      /\ Len(page.operations) > 1 => tail # <<>>
      /\ ~ Len(page.operations) > 1 => tail = <<>>
      /\ Adding(tail) \subseteq Adding(page.operations)
      /\ operation.op = "add" => operation.id \in Adding(page.operations)
      /\ \A id \in Adding(page.operations) :
            id \in Adding(tail) \/ (operation.op = "add" /\ id = operation.id)
  BY <1>1, <1>2, OneOperationLess
<1>4. server' = CASE operation.op = "addWebhook" -> [server EXCEPT !.hook = TRUE]
                  [] operation.op = "add" -> [server EXCEPT !.stored = @ \cup {operation.id}]
                  [] OTHER -> server
  BY DEF ExecuteOperation
<1>5. \/ /\ Len(page.operations) > 1
         /\ page' = [page EXCEPT !.operations = tail]
      \/ /\ ~ Len(page.operations) > 1
         /\ page' = [page EXCEPT !.operations = <<>>, !.waiting = FALSE, !.saved = TRUE,
                                 !.rows = page.sent, !.sent = <<>>]
  BY DEF ExecuteOperation
<1> HIDE DEF operation, tail
<1>6. server' \in WebhookStore /\ server'.stored = stored
  BY <1>1, <1>2, <1>3, <1>4, OperationStores
<1>7. /\ server.stored \subseteq stored
      /\ server.stored \cup Adding(page.operations) \subseteq stored \cup Adding(tail)
  BY <1>3 DEF Stored
<1>8. Adding(tail) \subseteq EventIds
  BY <1>2, <1>3
<1> HIDE DEF stored
<1>9. ASSUME Calm(page)
      PROVE  /\ Countable(page.rows, page.recordIndex, page.deletes, stored)
             /\ SaysSaved(page) => CompleteAreIn(page.rows, stored)
             /\ Countable(page.sent, page.recordIndex, page.deletes, stored \cup Adding(tail))
             /\ CompleteAreIn(page.sent, stored \cup Adding(tail))
             /\ UnreadInv(page)
             /\ Unread(page) => UncountedFrom(page.sent, 1)
  <2>1. TableInv(page, server) /\ SaveInv(page, server) /\ UnreadInv(page)
    BY <1>9 DEF WebhookInv, FormInv
  <2>2. /\ Countable(page.rows, page.recordIndex, page.deletes, stored)
        /\ SaysSaved(page) => CompleteAreIn(page.rows, stored)
    BY <1>7, <2>1, CountableInMore, CompleteInMore DEF TableInv
  <2>3. /\ Countable(page.sent, page.recordIndex, page.deletes,
                     server.stored \cup Adding(page.operations))
        /\ CompleteAreIn(page.sent, server.stored \cup Adding(page.operations))
    BY <1>2, <2>1 DEF SaveInv
  <2>4. /\ Countable(page.sent, page.recordIndex, page.deletes, stored \cup Adding(tail))
        /\ CompleteAreIn(page.sent, stored \cup Adding(tail))
    BY <1>7, <2>3, CountableInMore, CompleteInMore
  <2>5. Unread(page) => UncountedFrom(page.sent, 1)
    BY <1>2, <2>1 DEF UnreadInv
  <2> QED
    BY <2>1, <2>2, <2>4, <2>5
<1>10. CASE /\ Len(page.operations) > 1
            /\ page' = [page EXCEPT !.operations = tail]
  <2>1. page' = [kind |-> page.kind, webhookId |-> page.webhookId, enabled |-> page.enabled,
                 load |-> page.load, rows |-> page.rows, recordIndex |-> page.recordIndex,
                 waiting |-> page.waiting, deletes |-> page.deletes,
                 operations |-> tail, sent |-> page.sent,
                 saved |-> page.saved, edited |-> page.edited, raced |-> page.raced]
    <3>1. PageShape
      BY <1>1, PageHasShape
    <3> QED
      BY ONLY <1>10, <3>1 DEF PageShape
  <2>2. page' \in WebhookPage
    BY <1>1, <1>3, <2>1 DEF WebhookPage
  <2>3. /\ page'.rows = page.rows /\ page'.sent = page.sent
        /\ page'.recordIndex = page.recordIndex /\ page'.deletes = page.deletes
        /\ page'.operations = tail
        /\ page'.raced = page.raced /\ page'.saved = page.saved /\ page'.waiting = page.waiting
        /\ page'.load = page.load /\ page'.edited = page.edited
    BY <2>1
  <2>4. WebhookTypes(page', server')
    BY <1>2, <1>6, <1>8, <2>2, <2>3 DEF WebhookTypes, Waits
  <2>5. ASSUME Calm(page') PROVE FormInv(page', server')
    <3>1. Calm(page)
      BY <2>3, <2>5 DEF Calm
    <3>2. TableInv(page', server')
      BY <1>6, <1>9, <2>3, <3>1 DEF TableInv, SaysSaved
    <3>3. SaveInv(page', server')
      BY <1>6, <1>9, <2>3, <3>1 DEF SaveInv
    <3>4. UnreadInv(page')
      BY <1>9, <2>3, <3>1 DEF UnreadInv, Unread
    <3> QED
      BY <3>2, <3>3, <3>4 DEF FormInv
  <2> QED
    BY <2>4, <2>5 DEF WebhookInv
<1>11. CASE /\ ~ Len(page.operations) > 1
            /\ page' = [page EXCEPT !.operations = <<>>, !.waiting = FALSE, !.saved = TRUE,
                                    !.rows = page.sent, !.sent = <<>>]
  <2>1. Adding(tail) = {} /\ tail = <<>>
    BY <1>3, <1>11 DEF Adding
  <2> DEFINE noRows == <<>>
             noOperations == <<>>
  <2>2. noRows \in Seq(TriggerRow) /\ noOperations \in Seq(WebhookOperation)
    OBVIOUS
  <2>3. page' = [page EXCEPT !.operations = noOperations, !.waiting = FALSE, !.saved = TRUE,
                             !.rows = page.sent, !.sent = noRows]
    BY <1>11
  <2>4. noOperations = <<>>
    OBVIOUS
  <2> HIDE DEF noRows, noOperations
  <2>5. page' = [kind |-> page.kind, webhookId |-> page.webhookId, enabled |-> page.enabled,
                 load |-> page.load, rows |-> page.sent, recordIndex |-> page.recordIndex,
                 waiting |-> FALSE, deletes |-> page.deletes,
                 operations |-> noOperations, sent |-> noRows,
                 saved |-> TRUE, edited |-> page.edited, raced |-> page.raced]
    <3>1. PageShape
      BY <1>1, PageHasShape
    <3> QED
      BY ONLY <2>3, <3>1 DEF PageShape
  <2>6. page' \in WebhookPage
    BY <1>1, <2>2, <2>5 DEF WebhookPage
  <2>7. /\ page'.rows = page.sent
        /\ page'.recordIndex = page.recordIndex /\ page'.deletes = page.deletes
        /\ page'.operations = <<>> /\ page'.raced = page.raced
        /\ page'.load = page.load /\ page'.edited = page.edited
    BY <2>4, <2>5
  <2>8. WebhookTypes(page', server')
    BY <1>6, <2>6, <2>7 DEF WebhookTypes, Adding
  <2>9. ASSUME Calm(page') PROVE FormInv(page', server')
    <3>1. Calm(page)
      BY <2>7, <2>9 DEF Calm
    <3>2. stored \cup Adding(tail) = stored
      BY <2>1
    <3>3. TableInv(page', server')
      BY <1>6, <1>9, <2>7, <3>1, <3>2 DEF TableInv
    <3>4. UnreadInv(page')
      BY <1>9, <2>7, <3>1 DEF UnreadInv, Unread
    <3> QED
      BY <2>7, <3>3, <3>4 DEF FormInv, SaveInv
  <2> QED
    BY <2>8, <2>9 DEF WebhookInv
<1> QED
  BY <1>5, <1>10, <1>11

--------------------------------------------------------------------------------
LEMMA WebhookStep == WebhookInv /\ [WebhookNext]_pageVars => WebhookInv'
<1> SUFFICES ASSUME WebhookInv, [WebhookNext]_pageVars PROVE WebhookInv'
  OBVIOUS
<1>1. CASE LoadArrives
  BY <1>1, LoadArrivesKeeps
<1>2. CASE HandleEventChange
  BY <1>2, HandleEventChangeKeeps
<1>3. CASE OnDeleteRow
  BY <1>3, OnDeleteRowKeeps
<1>4. CASE DeleteAnswered
  BY <1>4, DeleteAnsweredKeeps
<1>5. CASE DeleteFails
  BY <1>5, DeleteFailsKeeps
<1>6. CASE HandleWebhookClick
  BY <1>6, HandleWebhookClickKeeps
<1>7. CASE OnFinishSave
  BY <1>7, OnFinishSaveKeeps
<1>8. CASE OnFinishDisable
  BY <1>8, OnFinishDisableKeeps
<1>9. CASE ExecuteOperation
  BY <1>9, ExecuteOperationKeeps
<1>10. CASE OperationFails
  BY <1>10, OperationFailsKeeps
<1>11. CASE WorkspacePolled
  BY <1>11, WorkspacePolledKeeps
<1>12. CASE Reopened
  BY <1>12, ReopenedKeeps
<1>13. CASE UNCHANGED pageVars
  BY <1>13 DEF pageVars, WebhookInv
<1> QED
  BY <1>1, <1>2, <1>3, <1>4, <1>5, <1>6, <1>7, <1>8, <1>9, <1>10, <1>11, <1>12, <1>13
  DEF WebhookNext

(* The table of triggers always says which of them the API has, for as long *)
(* as its rows are counted right.                                           *)
THEOREM WebhookInvariant == WebhookSpec => []WebhookInv
<1>1. WebhookInit => WebhookInv
  BY WebhookStarts
<1>2. WebhookInv /\ [WebhookNext]_pageVars => WebhookInv'
  BY WebhookStep
<1> QED
  BY <1>1, <1>2, PTL DEF WebhookSpec

(* A save that reports success has stored every trigger that the user       *)
(* completed, unless the count of rows went wrong before it.                *)
THEOREM SavesAreStored == WebhookSpec => []SavedTriggersAreStored
<1>1. WebhookInv => SavedTriggersAreStored
  BY DEF WebhookInv, FormInv, TableInv, CompleteAreIn, Calm, SaysSaved, SavedTriggersAreStored
<1> QED
  BY <1>1, WebhookInvariant, PTL
================================================================================
