----------------------------- MODULE UiApplyProgress -----------------------------
(****************************************************************************)
(* The progress of an apply, read off the console log of Terraform          *)
(* (applyProgressParser.ts, ApplyProgress.tsx).  Terraform, which works on  *)
(* several resources at once and prints the errors when it is done, writes  *)
(* the log line by line; the page parses what there is of it, once with the *)
(* resources of the plan and once, as for a plan it does not have, without. *)
(****************************************************************************)
EXTENDS UiPage

CONSTANTS Addresses, Plans   \* Plans: what Terraform may set out to do

(* The actions Terraform plans for an address.                              *)
Changes == {{"create"}, {"update"}, {"delete"}, {"delete", "create"}, {"read"}}

(* A plan has actions for every address, none of which is the word for none.*)
ASSUME PlansAssumption == None \notin Addresses /\ Plans \subseteq [Addresses -> Changes]

(* getPlanChangeActionLabel                                                 *)
ActionLabel(actions) ==
    IF {"delete", "create"} \subseteq actions THEN "replace"
    ELSE CHOOSE action \in actions : TRUE

(* What Terraform does for them; a replacement in either order.             *)
OperationsFor(actions) ==
    {ops \in {<<x>> : x \in actions} \cup {<<x, y>> : x, y \in actions} :
        /\ Len(ops) = Cardinality(actions)
        /\ {ops[i] : i \in DOMAIN ops} = actions}
--------------------------------------------------------------------------------
(* The parser: one entry per address, what it counts, and the error block   *)
(* it is in.                                                                *)
Untouched == [action |-> None, state |-> "absent"]
NoBlock == [open |-> FALSE, with |-> None]

(* plannedFromChanges: the changes of the plan, data sources left out.      *)
ParserStart(planned) ==
    [resources |-> [a \in Addresses |->
        IF a \in DOMAIN planned /\ planned[a] # {"read"}
        THEN [action |-> ActionLabel(planned[a]), state |-> "pending"] ELSE Untouched],
     halves |-> [a \in Addresses |-> 0],
     block |-> NoBlock]

(* closeErrorBlock: the error is charged to the address it names.           *)
WithError(r) == [action |-> IF r.action = None THEN "create" ELSE r.action, state |-> "error"]

CloseErrorBlock(p) ==
    IF ~ p.block.open THEN p
    ELSE LET a == p.block.with IN
         [p EXCEPT !.block = NoBlock,
                   !.resources = IF a = None THEN @
                                 ELSE [@ EXCEPT ![a] = WithError(p.resources[a])]]

(* Bug to catch: the second operation on an address replaces the first.     *)
StartedOver(p, a, op) ==
    [p EXCEPT !.resources[a] =
        [action |-> IF @.action = "replace" THEN "replace" ELSE op, state |-> "running"]]

(* STARTED: a replacement shows as two operations on one address.           *)
Started(p, a, op) ==
    LET previous == p.resources[a]
        second == /\ previous.state \notin {"absent", "pending"}
                  /\ previous.action # op
        merged == IF previous.action = "replace" \/ second THEN "replace" ELSE op
    IN  [p EXCEPT !.resources[a] = [action |-> merged, state |-> "running"]]

(* Bug to catch: the first completion finishes a replacement.               *)
FinishedAtOnce(p, a, op) ==
    [p EXCEPT !.halves[a] = @ + 1,
              !.resources[a] = [action |-> IF @ = Untouched THEN op ELSE @.action, state |-> "done"]]

(* Bug to catch: half a replacement waits for its other half.               *)
FinishedAsPending(p, a, op) ==
    LET action == IF p.resources[a] = Untouched THEN op ELSE p.resources[a].action
    IN  [p EXCEPT !.halves[a] = @ + 1,
                  !.resources[a] = [action |-> action,
                                    state |-> IF action = "replace" /\ p.halves[a] = 0
                                              THEN "pending" ELSE "done"]]

(* FINISHED: only the second completion finishes a replacement.             *)
Finished(p, a, op) ==
    LET action == IF p.resources[a] = Untouched THEN op ELSE p.resources[a].action
        completions == p.halves[a] + 1
        midReplace == action = "replace" /\ completions < 2
    IN  [p EXCEPT !.halves[a] = completions,
                  !.resources[a] = [action |-> action,
                                    state |-> IF midReplace THEN "running" ELSE "done"]]

(* One line of the log.  Boxed lines belong to an error block that is open; *)
(* any other line closes it first.  A boxed "Error:" opens a block, the     *)
(* first "with <address>" of it names the resource.                         *)
ParseLine(parser, line) ==
    IF parser.block.open /\ line.is \in {"error", "with", "text"}
    THEN IF line.is = "with" /\ parser.block.with = None
         THEN [parser EXCEPT !.block.with = line.address] ELSE parser
    ELSE LET p == CloseErrorBlock(parser) IN
         CASE line.is = "started"  /\ line.op # "read" -> Started(p, line.address, line.op)
           [] line.is = "finished" /\ line.op # "read" -> Finished(p, line.address, line.op)
           [] line.is = "error" -> [p EXCEPT !.block.open = TRUE]
           [] OTHER -> p

(* Bug to catch: an error block that is still open is left out.             *)
ProgressOfClosedBlocks(parser) == parser.resources

(* parseApplyProgress of the log so far: the last block may still be open.  *)
Progress(parser) == CloseErrorBlock(parser).resources

(* The rows of ApplyProgress: what a step that stopped left unfinished      *)
(* counts as failed.                                                        *)
ProgressRows(parser, isRunning) ==
    [a \in {b \in Addresses : Progress(parser)[b] # Untouched} |->
        IF Progress(parser)[a].state = "running" /\ ~ isRunning
        THEN "error" ELSE Progress(parser)[a].state]
--------------------------------------------------------------------------------
(* Terraform: `left` are the operations it has still to do, `busy` those    *)
(* under way, `diagnostics` what it prints at the end, line by line.        *)
ApplyInit ==
    \E plan \in Plans :
        \E left \in [Addresses -> UNION {OperationsFor(plan[a]) : a \in Addresses}] :
            /\ \A a \in Addresses : left[a] \in OperationsFor(plan[a])
            /\ page = [kind |-> "apply", plan |-> plan, isRunning |-> TRUE,
                       withPlan |-> ParserStart(plan), bare |-> ParserStart(<<>>)]
            /\ server = [left |-> left, busy |-> {}, failed |-> {}, named |-> {},
                         diagnostics |-> <<>>]

(* The log grows by a line and the page parses it.                          *)
Emit(line) ==
    page' = [page EXCEPT !.withPlan = ParseLine(@, line), !.bare = ParseLine(@, line)]

Walking == server.diagnostics = <<>> /\ page.isRunning

StartOperation(a) ==
    /\ Walking /\ server.left[a] # <<>> /\ a \notin server.busy \cup server.failed
    /\ Emit([is |-> "started", address |-> a, op |-> Head(server.left[a])])
    /\ server' = [server EXCEPT !.busy = @ \cup {a}]

EndOperation(a) ==
    /\ Walking /\ a \in server.busy
    /\ Emit([is |-> "finished", address |-> a, op |-> Head(server.left[a])])
    /\ server' = [server EXCEPT !.busy = @ \ {a}, !.left[a] = Tail(@)]

FailOperation(a) ==
    /\ Walking /\ a \in server.busy
    /\ server' = [server EXCEPT !.busy = @ \ {a}, !.failed = @ \cup {a}]
    /\ UNCHANGED page

Boxed(is, address) == [is |-> is, address |-> address, op |-> None]

(* An error names its resource or, as those of a provider, does not; a      *)
(* warning is a box that names a resource without being an error.           *)
ErrorBox(a) ==
    << Boxed("corner", None), Boxed("error", None), Boxed("text", None),
       Boxed("with", a), Boxed("text", None), Boxed("corner", None) >>
WarningBox(a) ==
    << Boxed("corner", None), Boxed("text", None), Boxed("with", a), Boxed("corner", None) >>

(* Nothing is under way: the warnings and errors are put in some order.     *)
Diagnose ==
    /\ Walking /\ server.busy = {}
    /\ server.failed # {} \/ \A a \in Addresses : server.left[a] = <<>>
    /\ \E w \in Addresses :
         \/ server.failed = {} /\ server' = [server EXCEPT !.diagnostics = WarningBox(w)]
         \/ \E a, b \in server.failed :
              /\ server.failed = {a, b}
              /\ server' = [server EXCEPT !.diagnostics =
                              WarningBox(w) \o ErrorBox(a) \o (IF a = b THEN <<>> ELSE ErrorBox(b))]
    /\ UNCHANGED page

PrintDiagnostic ==
    /\ server.diagnostics # <<>>
    /\ LET line == Head(server.diagnostics) IN
       /\ Emit(line)
       /\ server' = [server EXCEPT
            !.diagnostics = Tail(@),
            !.named = IF line.is = "with" /\ page.withPlan.block.open
                      THEN @ \cup {line.address} ELSE @]

(* The step ends with the log, or is cut off by a cancel or a lost executor.*)
StepEnds ==
    /\ page.isRunning
    /\ page' = [page EXCEPT !.isRunning = FALSE]
    /\ server' = [server EXCEPT !.diagnostics = <<>>]

ApplyNext ==
    /\ On("apply")
    /\ \/ \E a \in Addresses : StartOperation(a) \/ EndOperation(a) \/ FailOperation(a)
       \/ Diagnose \/ PrintDiagnostic \/ StepEnds
--------------------------------------------------------------------------------
Managed(a) == page.plan[a] # {"read"}

Shown == ProgressRows(page.withPlan, page.isRunning)

(* With the plan at hand, a resource is shown complete exactly when all its *)
(* operations are: no half of a replacement, in whichever order, counts.    *)
CompleteIsComplete ==
    On("apply") =>
        \A a \in Addresses : Managed(a) =>
            (Shown[a] = "done"  <=>  server.left[a] = <<>>)

(* While the step runs, exactly the resources that a printed error names    *)
(* are shown as failed, and no warning fails one.  Once it has ended, those *)
(* it was working on join them.                                             *)
ErrorsNameTheirResource ==
    On("apply") =>
        {a \in DOMAIN Shown : Shown[a] = "error"} =
            server.named \cup
            (IF page.isRunning THEN {}
             ELSE {a \in Addresses : Progress(page.withPlan)[a].state = "running"})

(* Whether or not the page has the plan, it shows the same of every         *)
(* resource that was worked on, once no operation is half done.             *)
PlanMakesNoDifference ==
    On("apply") /\ server.busy = {} =>
        \A a \in Addresses :
            LET bare == Progress(page.bare)[a]
                known == Progress(page.withPlan)[a]
            IN  /\ server.left[a] = <<>> => bare = known
                /\ a \in server.named => bare.state = known.state

StateRank == [absent |-> 0, pending |-> 0, running |-> 1, done |-> 2, error |-> 2]

(* As the log grows, a resource of the plan never falls back.               *)
ProgressNeverFallsBack ==
    [][On("apply") /\ On("apply")' =>
          \A a \in Addresses :
            StateRank[Progress(page.withPlan)[a].state]
                <= StateRank[Progress(page'.withPlan)[a].state]]_pageVars
================================================================================
