------------------------------ MODULE UiApplyProofs ------------------------------
(****************************************************************************)
(* The progress of an apply is what its log says, for any addresses and     *)
(* plans, in whatever order the operations are interleaved.                 *)
(****************************************************************************)
EXTENDS UiApplyProgress, FiniteSetTheorems, SequenceTheorems, TLAPS

ApplySpec == ApplyInit /\ [][ApplyNext]_pageVars

Actions == {"create", "update", "delete", "read"}
Labels == {"create", "update", "delete", "read", "replace", None}
States == {"absent", "pending", "running", "done", "error"}

Resource == [action : Labels, state : States]
Block == {NoBlock} \cup [open : {TRUE}, with : Addresses \cup {None}]
Parser == [resources : [Addresses -> Resource], halves : [Addresses -> Nat], block : Block]
LogLine == [is : {"error", "with", "text", "corner"}, address : Addresses \cup {None},
            op : {None}]

ApplyPage == [kind : {"apply"}, plan : [Addresses -> Changes], isRunning : BOOLEAN,
              withPlan : Parser, bare : Parser]
ApplyLog == [left : [Addresses -> Seq(Actions)], busy : SUBSET Addresses,
             failed : SUBSET Addresses, named : SUBSET Addresses,
             diagnostics : Seq(LogLine)]

(* What is left of the operations for some actions.                         *)
Replacing(actions) == actions = {"delete", "create"}

LeftOf(actions, left) ==
    \/ \E x \in Actions : actions = {x} /\ left \in {<<x>>, <<>>}
    \/ /\ Replacing(actions)
       /\ left \in {<<"delete", "create">>, <<"create", "delete">>,
                    <<"delete">>, <<"create">>, <<>>}

(* Half a replacement is done.                                              *)
Half(actions, left) == Replacing(actions) /\ Len(left) = 1

(* How often an operation on the resource was completed.                    *)
Completed(actions, left) ==
    IF actions = {"read"} THEN 0
    ELSE IF Replacing(actions) THEN 2 - Len(left) ELSE 1 - Len(left)

(* A resource is active while an operation on it is under way or has        *)
(* failed, until an error names it.                                         *)
Phase(s, a) ==
    IF a \in s.named THEN "named"
    ELSE IF a \in s.busy \cup s.failed THEN "active" ELSE "idle"

(* What a parser that has the plan makes of a resource.                     *)
KnownAs(actions, left, phase) ==
    IF actions = {"read"} THEN Untouched
    ELSE [action |-> ActionLabel(actions),
          state |-> IF left = <<>> THEN "done"
                    ELSE IF phase # "idle" \/ Half(actions, left) THEN "running" ELSE "pending"]

(* And one that has to guess: half a replacement passes for the operation   *)
(* that is done.                                                            *)
Other(op) == IF op = "create" THEN "delete" ELSE "create"

BareAs(actions, left, phase) ==
    IF actions = {"read"} THEN Untouched
    ELSE IF left = <<>> THEN [action |-> ActionLabel(actions), state |-> "done"]
    ELSE IF phase # "idle"
    THEN [action |-> IF Half(actions, left) THEN "replace" ELSE Head(left), state |-> "running"]
    ELSE IF Half(actions, left) THEN [action |-> Other(Head(left)), state |-> "done"]
    ELSE Untouched

(* Once an error has named it.                                              *)
AsNamed(r, phase) == IF phase = "named" THEN WithError(r) ELSE r

WorkInv(p, s) ==
    /\ \A a \in Addresses : LeftOf(p.plan[a], s.left[a])
    /\ \A a \in s.busy \cup s.failed : s.left[a] # <<>>
    /\ s.named \subseteq s.failed /\ s.busy \cap s.failed = {}

ReadAs(p, s, a) ==
    LET actions == p.plan[a]
        left == s.left[a]
        phase == Phase(s, a)
    IN  /\ Progress(p.withPlan)[a] = AsNamed(KnownAs(actions, left, phase), phase)
        /\ Progress(p.bare)[a] = AsNamed(BareAs(actions, left, phase), phase)
        /\ p.withPlan.halves[a] = Completed(actions, left)
        /\ p.bare.halves[a] = Completed(actions, left)

(* Boxes: the line of an error is followed by that of a resource which has  *)
(* failed, and an open box is closed before the next one.                   *)
Is(lines, k, is) == k \in DOMAIN lines /\ lines[k].is = is

Names(lines, k, failed) ==
    Is(lines, k, "with") /\ lines[k].address \in failed /\ Is(lines, k + 1, "text")
        /\ Is(lines, k + 2, "corner")

Boxes(lines, failed) ==
    \A k \in DOMAIN lines :
        lines[k].is = "error" => Is(lines, k + 1, "text") /\ Names(lines, k + 2, failed)

Closing(block, lines, failed) ==
    block.open =>
        IF block.with = None
        THEN Names(lines, 1, failed) \/ (Is(lines, 1, "text") /\ Names(lines, 2, failed))
        ELSE Is(lines, 1, "corner") \/ (Is(lines, 1, "text") /\ Is(lines, 2, "corner"))

BoxesInv(p, s) ==
    /\ p.withPlan.block = p.bare.block
    /\ p.isRunning => /\ Boxes(s.diagnostics, s.failed)
                      /\ Closing(p.withPlan.block, s.diagnostics, s.failed)
    /\ ~ p.isRunning => s.diagnostics = <<>>

Inv(p, s) ==
    /\ p \in ApplyPage /\ s \in ApplyLog
    /\ WorkInv(p, s) /\ BoxesInv(p, s)
    /\ \A a \in Addresses : ReadAs(p, s, a)

ApplyInv == Inv(page, server)
--------------------------------------------------------------------------------
(* The parser, resource by resource.                                        *)
StartedAs(r, op) ==
    LET second == r.state \notin {"absent", "pending"} /\ r.action # op
    IN  [action |-> IF r.action = "replace" \/ second THEN "replace" ELSE op,
         state |-> "running"]

FinishedAs(r, halves, op) ==
    LET action == IF r = Untouched THEN op ELSE r.action
    IN  [action |-> action,
         state |-> IF action = "replace" /\ halves + 1 < 2 THEN "running" ELSE "done"]

Line(is, a, op) == [is |-> is, address |-> a, op |-> op]

LEMMA ParserFields ==
    ASSUME NEW p \in Parser
    PROVE  /\ p.resources \in [Addresses -> Resource] /\ p.halves \in [Addresses -> Nat]
           /\ p.block \in Block
           /\ p = [resources |-> p.resources, halves |-> p.halves, block |-> p.block]
  BY DEF Parser

LEMMA ResourceTypes ==
    /\ \A r \in Resource, op \in Actions : StartedAs(r, op) \in Resource
    /\ \A r \in Resource, n \in Nat, op \in Actions : FinishedAs(r, n, op) \in Resource
    /\ \A r \in Resource : WithError(r) \in Resource
  <1>1. \A r \in Resource, op \in Actions : StartedAs(r, op) \in Resource
    BY DEF StartedAs, Resource, Labels, States, Actions
  <1>2. \A r \in Resource, n \in Nat, op \in Actions : FinishedAs(r, n, op) \in Resource
    BY DEF FinishedAs, Resource, Labels, States, Actions
  <1>3. \A r \in Resource : WithError(r) \in Resource
    BY DEF WithError, Resource, Labels, States
  <1> QED  BY <1>1, <1>2, <1>3

LEMMA ClosedBlock ==
    ASSUME NEW p \in Parser, ~ p.block.open
    PROVE  CloseErrorBlock(p) = p /\ Progress(p) = p.resources /\ p.block = NoBlock
  BY DEF CloseErrorBlock, Progress, Parser, Block

LEMMA OpenBlock ==
    ASSUME NEW p \in Parser, p.block.open
    PROVE  /\ p.block.with \in Addresses \cup {None}
           /\ p.block = [open |-> TRUE, with |-> p.block.with]
  <1>1. p.block # NoBlock  BY DEF NoBlock
  <1>2. p.block \in [open : {TRUE}, with : Addresses \cup {None}]
    BY <1>1, ParserFields DEF Block
  <1> QED  BY <1>2

LEMMA StartedLine ==
    ASSUME NEW p \in Parser, ~ p.block.open, NEW a \in Addresses, NEW op \in Actions
    PROVE  LET q == ParseLine(p, Line("started", a, op)) IN
           /\ q \in Parser /\ q.block = p.block /\ q.halves = p.halves
           /\ q.resources = IF op = "read" THEN p.resources
                            ELSE [p.resources EXCEPT ![a] = StartedAs(p.resources[a], op)]
  <1>1. ParseLine(p, Line("started", a, op)) = IF op # "read" THEN Started(p, a, op) ELSE p
    BY ClosedBlock DEF ParseLine, Line
  <1>2. Started(p, a, op) = [p EXCEPT !.resources[a] = StartedAs(p.resources[a], op)]
    BY DEF Started, StartedAs
  <1>3. StartedAs(p.resources[a], op) \in Resource  BY ParserFields, ResourceTypes
  <1>4. Started(p, a, op) =
            [resources |-> [p.resources EXCEPT ![a] = StartedAs(p.resources[a], op)],
             halves |-> p.halves, block |-> p.block]
    BY <1>2, ParserFields
  <1>5. [p.resources EXCEPT ![a] = StartedAs(p.resources[a], op)] \in [Addresses -> Resource]
    BY <1>3, ParserFields
  <1>6. Started(p, a, op) \in Parser  BY <1>4, <1>5, ParserFields DEF Parser
  <1> QED  BY <1>1, <1>4, <1>6

LEMMA FinishedLine ==
    ASSUME NEW p \in Parser, ~ p.block.open, NEW a \in Addresses, NEW op \in Actions
    PROVE  LET q == ParseLine(p, Line("finished", a, op)) IN
           /\ q \in Parser /\ q.block = p.block
           /\ q.halves = IF op = "read" THEN p.halves
                         ELSE [p.halves EXCEPT ![a] = p.halves[a] + 1]
           /\ q.resources = IF op = "read" THEN p.resources
                            ELSE [p.resources EXCEPT
                                    ![a] = FinishedAs(p.resources[a], p.halves[a], op)]
  <1> DEFINE r == FinishedAs(p.resources[a], p.halves[a], op)
             n == p.halves[a] + 1
  <1>1. ParseLine(p, Line("finished", a, op)) = IF op # "read" THEN Finished(p, a, op) ELSE p
    BY ClosedBlock DEF ParseLine, Line
  <1>2. Finished(p, a, op) = [p EXCEPT !.halves[a] = n, !.resources[a] = r]
    BY DEF Finished, FinishedAs
  <1>3. r \in Resource /\ n \in Nat  BY ParserFields, ResourceTypes
  <1> HIDE DEF r, n
  <1>4. Finished(p, a, op) =
            [resources |-> [p.resources EXCEPT ![a] = r],
             halves |-> [p.halves EXCEPT ![a] = n], block |-> p.block]
    <2> DEFINE rs == [p.resources EXCEPT ![a] = r]
               ns == [p.halves EXCEPT ![a] = n]
    <2>1. Finished(p, a, op) = [p EXCEPT !.halves = ns, !.resources = rs]
      BY <1>2, ParserFields
    <2> HIDE DEF rs, ns
    <2>2. Finished(p, a, op) = [resources |-> rs, halves |-> ns, block |-> p.block]
      BY <2>1, ParserFields
    <2> QED  BY <2>2 DEF rs, ns
  <1>5. /\ [p.resources EXCEPT ![a] = r] \in [Addresses -> Resource]
        /\ [p.halves EXCEPT ![a] = n] \in [Addresses -> Nat]
    BY <1>3, ParserFields
  <1>6. Finished(p, a, op) \in Parser  BY <1>4, <1>5, ParserFields DEF Parser
  <1> QED  BY <1>1, <1>4, <1>6 DEF r, n

(* A boxed line outside of a block, or in one whose resource is known,      *)
(* changes nothing but the block.                                           *)
LEMMA LineOutside ==
    ASSUME NEW p \in Parser, ~ p.block.open, NEW line \in LogLine, line.is # "error"
    PROVE  ParseLine(p, line) = p
  BY ClosedBlock DEF ParseLine, LogLine

LEMMA ErrorOpens ==
    ASSUME NEW p \in Parser, ~ p.block.open, NEW line \in LogLine, line.is = "error"
    PROVE  LET q == ParseLine(p, line) IN
           /\ q \in Parser /\ q.block = [open |-> TRUE, with |-> None]
           /\ Progress(q) = Progress(p) /\ q.halves = p.halves
  <1>1. ParseLine(p, line) = [p EXCEPT !.block.open = TRUE]
    BY ClosedBlock DEF ParseLine, LogLine
  <1>2. p.block = [open |-> FALSE, with |-> None]  BY ClosedBlock DEF NoBlock
  <1>3. ParseLine(p, line) = [resources |-> p.resources, halves |-> p.halves,
                              block |-> [open |-> TRUE, with |-> None]]
    <2> DEFINE b == [p.block EXCEPT !.open = TRUE]
    <2>1. b = [open |-> TRUE, with |-> None]
      <3> DEFINE yes == TRUE
      <3>1. yes \in BOOLEAN  OBVIOUS
      <3> HIDE DEF yes
      <3>2. [p.block EXCEPT !.open = yes] = [open |-> yes, with |-> None]  BY <1>2, <3>1
      <3> QED  BY <3>2 DEF yes
    <2>2. ParseLine(p, line) = [p EXCEPT !.block = b]  BY <1>1, ParserFields
    <2> HIDE DEF b
    <2>3. ParseLine(p, line) = [resources |-> p.resources, halves |-> p.halves, block |-> b]
      BY <2>2, ParserFields
    <2> QED  BY <2>1, <2>3
  <1>4. ParseLine(p, line) \in Parser  BY <1>3, ParserFields DEF Parser, Block
  <1>5. Progress(ParseLine(p, line)) = p.resources  BY <1>3 DEF Progress, CloseErrorBlock
  <1> QED  BY <1>3, <1>4, <1>5, ClosedBlock

LEMMA LineInside ==
    ASSUME NEW p \in Parser, p.block.open, NEW line \in LogLine, line.is # "corner",
           line.is = "with" => p.block.with # None
    PROVE  ParseLine(p, line) = p
  BY DEF ParseLine, LogLine

LEMMA WithNames ==
    ASSUME NEW p \in Parser, p.block.open, p.block.with = None,
           NEW line \in LogLine, line.is = "with", line.address \in Addresses
    PROVE  LET q == ParseLine(p, line)
               a == line.address
           IN  /\ q \in Parser /\ q.block = [open |-> TRUE, with |-> a]
               /\ q.halves = p.halves /\ Progress(p) = p.resources
               /\ Progress(q) = [p.resources EXCEPT ![a] = WithError(p.resources[a])]
  <1> DEFINE a == line.address
             q == ParseLine(p, line)
  <1>1. q = [p EXCEPT !.block.with = a]
    <2>1. p.block.open /\ line.is \in {"error", "with", "text"}  OBVIOUS
    <2>2. line.is = "with" /\ p.block.with = None  OBVIOUS
    <2> QED  BY <2>1, <2>2, Zenon DEF ParseLine
  <1>2. p.block = [open |-> TRUE, with |-> None]  BY OpenBlock
  <1>3. q = [resources |-> p.resources, halves |-> p.halves,
             block |-> [open |-> TRUE, with |-> a]]
    <2> DEFINE b == [p.block EXCEPT !.with = a]
    <2>1. b = [open |-> TRUE, with |-> a]
      <3> DEFINE yes == TRUE
      <3>1. p.block = [open |-> yes, with |-> None]  BY <1>2
      <3> HIDE DEF yes, a
      <3>2. [p.block EXCEPT !.with = a] = [open |-> yes, with |-> a]  BY ONLY <3>1
      <3> QED  BY <3>2 DEF yes
    <2>2. q = [p EXCEPT !.block = b]  BY <1>1, Zenon
    <2>3. p = [resources |-> p.resources, halves |-> p.halves, block |-> p.block]
      BY ParserFields
    <2> HIDE DEF q, a, b
    <2>4. q = [resources |-> p.resources, halves |-> p.halves, block |-> b]
      BY ONLY <2>2, <2>3
    <2> QED  BY ONLY <2>1, <2>4
  <1>4. q \in Parser  BY <1>3, ParserFields DEF Parser, Block
  <1>5. Progress(p) = p.resources  BY <1>2, ParserFields DEF Progress, CloseErrorBlock
  <1>6. a # None  BY PlansAssumption
  <1>7. Progress(q) = [p.resources EXCEPT ![a] = WithError(p.resources[a])]
    BY <1>3, <1>6 DEF Progress, CloseErrorBlock
  <1> QED  BY <1>3, <1>4, <1>5, <1>7

LEMMA CornerCloses ==
    ASSUME NEW p \in Parser, p.block.open, NEW line \in LogLine, line.is = "corner"
    PROVE  LET q == ParseLine(p, line) IN
           /\ q \in Parser /\ q.block = NoBlock
           /\ q.halves = p.halves /\ Progress(q) = Progress(p)
  <1> DEFINE q == CloseErrorBlock(p)
             a == p.block.with
             charged == [p.resources EXCEPT ![a] = WithError(p.resources[a])]
             rs == IF a = None THEN p.resources ELSE charged
  <1>1. ParseLine(p, line) = q  BY DEF ParseLine, LogLine
  <1>2. q = [resources |-> rs, halves |-> p.halves, block |-> NoBlock]
    <2>1. q = [p EXCEPT !.block = NoBlock, !.resources = rs]
      <3>1. CASE a = None
        <4>1. q = [p EXCEPT !.block = NoBlock, !.resources = p.resources]
          BY <3>1, Zenon DEF CloseErrorBlock
        <4> QED  BY <4>1, <3>1, ParserFields
      <3>2. CASE a # None
        <4>1. q = [p EXCEPT !.block = NoBlock, !.resources =
                      [p.resources EXCEPT ![a] = WithError(p.resources[a])]]
          BY <3>2, Zenon DEF CloseErrorBlock
        <4> QED  BY <4>1, <3>2
      <3> QED  BY <3>1, <3>2
    <2> HIDE DEF q, rs
    <2>2. p = [resources |-> p.resources, halves |-> p.halves, block |-> p.block]
      BY ParserFields
    <2> QED  BY ONLY <2>1, <2>2
  <1>3. rs \in [Addresses -> Resource]
    <2>1. CASE a = None  BY <2>1, ParserFields
    <2>2. CASE a # None
      <3>1. a \in Addresses  BY <2>2, OpenBlock
      <3>2. p.resources[a] \in Resource  BY <3>1, ParserFields
      <3>3. WithError(p.resources[a]) \in Resource  BY <3>2, ResourceTypes
      <3> QED  BY <2>2, <3>1, <3>3, ParserFields
    <2> QED  BY <2>1, <2>2
  <1>4. Progress(p) = rs  BY <1>2 DEF Progress
  <1> HIDE DEF q, rs
  <1>5. q \in Parser  BY <1>2, <1>3, ParserFields DEF Parser, Block
  <1>6. Progress(q) = rs  BY <1>2 DEF Progress, CloseErrorBlock, NoBlock
  <1> QED  BY <1>1, <1>2, <1>4, <1>5, <1>6

LEMMA ProgressTyped ==
    ASSUME NEW p \in Parser
    PROVE  Progress(p) \in [Addresses -> Resource]
  <1>1. CASE ~ p.block.open  BY <1>1, ClosedBlock, ParserFields
  <1>2. CASE p.block.open
    <2> DEFINE a == p.block.with
    <2>1. CASE a = None
      <3>1. CloseErrorBlock(p) = [p EXCEPT !.block = NoBlock, !.resources = p.resources]
        BY <1>2, <2>1, Zenon DEF CloseErrorBlock
      <3>2. Progress(p) = p.resources  BY <3>1, ParserFields DEF Progress
      <3> QED  BY <3>2, ParserFields
    <2>2. CASE a # None
      <3> DEFINE rs == [p.resources EXCEPT ![a] = WithError(p.resources[a])]
      <3>1. CloseErrorBlock(p) = [p EXCEPT !.block = NoBlock, !.resources = rs]
        BY <1>2, <2>2, Zenon DEF CloseErrorBlock
      <3>2. a \in Addresses  BY <1>2, <2>2, OpenBlock
      <3>3. WithError(p.resources[a]) \in Resource  BY <3>2, ParserFields, ResourceTypes
      <3>4. rs \in [Addresses -> Resource]  BY <3>2, <3>3, ParserFields
      <3> HIDE DEF rs
      <3>5. Progress(p) = rs  BY <3>1, ParserFields DEF Progress
      <3> QED  BY <3>4, <3>5
    <2> QED  BY <2>1, <2>2
  <1> QED  BY <1>1, <1>2
--------------------------------------------------------------------------------
(* The operations of a resource and what a log of them is read as.          *)
Whole(actions, left) ==
    \/ \E x \in Actions : actions = {x} /\ left = <<x>>
    \/ Replacing(actions) /\ left \in {<<"delete", "create">>, <<"create", "delete">>}

LEMMA ActionsOf ==
    ASSUME NEW actions \in Changes
    PROVE  (\E x \in Actions : actions = {x}) \/ Replacing(actions)
  BY DEF Changes, Actions, Replacing

LEMMA OperationsShape ==
    ASSUME NEW actions \in Changes, NEW ops \in OperationsFor(actions)
    PROVE  Whole(actions, ops)
  <1>1. CASE \E x \in Actions : actions = {x}
    <2>1. PICK x \in Actions : actions = {x}  BY <1>1
    <2>2. Cardinality(actions) = 1  BY <2>1, FS_Singleton
    <2>3. Len(ops) = 1  BY <2>2 DEF OperationsFor
    <2>4. (\E y \in actions : ops = <<y>>) \/ (\E y, z \in actions : ops = <<y, z>>)
      BY DEF OperationsFor
    <2>5. ops = <<x>>  BY <2>1, <2>3, <2>4
    <2> QED  BY <2>1, <2>5 DEF Whole
  <1>2. CASE Replacing(actions)
    <2>1. Cardinality(actions) = 2
      <3>1. IsFiniteSet({"delete"}) /\ Cardinality({"delete"}) = 1  BY FS_Singleton
      <3>2. actions = {"delete"} \cup {"create"}  BY <1>2 DEF Replacing
      <3>3. "create" \notin {"delete"}  OBVIOUS
      <3>4. Cardinality({"delete"} \cup {"create"}) = Cardinality({"delete"}) + 1
        BY <3>1, <3>3, FS_AddElement
      <3> QED  BY <3>1, <3>2, <3>4
    <2>2. Len(ops) = 2 /\ {ops[i] : i \in DOMAIN ops} = actions  BY <2>1 DEF OperationsFor
    <2>3. (\E y \in actions : ops = <<y>>) \/ (\E y, z \in actions : ops = <<y, z>>)
      BY DEF OperationsFor
    <2>4. PICK y \in actions, z \in actions : ops = <<y, z>>  BY <2>2, <2>3
    <2>5. DOMAIN ops = 1 .. 2 /\ ops[1] = y /\ ops[2] = z  BY <2>4
    <2>6. y # z
      <3>1. SUFFICES ASSUME y = z PROVE FALSE  OBVIOUS
      <3>2. \A i \in DOMAIN ops : ops[i] = y  BY <2>5, <3>1
      <3>3. "delete" \in actions /\ "create" \in actions  BY <1>2 DEF Replacing
      <3>4. "delete" = y /\ "create" = y  BY <2>2, <3>2, <3>3
      <3> QED  BY <3>4
    <2>7. actions = {"delete", "create"}  BY <1>2 DEF Replacing
    <2>8. y \in {"delete", "create"} /\ z \in {"delete", "create"}  BY <2>4, <2>7
    <2>9. ops = <<"delete", "create">> \/ ops = <<"create", "delete">>
      BY <2>4, <2>6, <2>8
    <2> QED  BY <1>2, <2>9 DEF Whole
  <1> QED  BY <1>1, <1>2, ActionsOf

LEMMA Labelled ==
    /\ \A x \in Actions : ActionLabel({x}) = x
    /\ \A actions : Replacing(actions) => ActionLabel(actions) = "replace"
  <1>1. ASSUME NEW x \in Actions PROVE ActionLabel({x}) = x
    <2>1. ~ ({"delete", "create"} \subseteq {x})  OBVIOUS
    <2>2. (CHOOSE action \in {x} : TRUE) \in {x}  OBVIOUS
    <2> QED  BY <2>1, <2>2 DEF ActionLabel
  <1>2. ASSUME NEW actions, Replacing(actions) PROVE ActionLabel(actions) = "replace"
    BY <1>2 DEF ActionLabel, Replacing
  <1> QED  BY <1>1, <1>2

(* The head and the rest of what is left, case by case.                     *)
One(actions, left) == \E x \in Actions : actions = {x} /\ left = <<x>>
Two(actions, left, x, y) == Replacing(actions) /\ left = <<x, y>>
Last(actions, left, x) == Replacing(actions) /\ left = <<x>>

LEMMA LeftCases ==
    ASSUME NEW actions, NEW left, LeftOf(actions, left), left # <<>>
    PROVE  \/ \E x \in Actions : actions = {x} /\ left = <<x>>
           \/ Two(actions, left, "delete", "create") \/ Two(actions, left, "create", "delete")
           \/ Last(actions, left, "delete") \/ Last(actions, left, "create")
  BY DEF LeftOf, Two, Last

LEMMA Pairs ==
    ASSUME NEW x, NEW y
    PROVE  /\ Len(<<x>>) = 1 /\ Head(<<x>>) = x /\ Tail(<<x>>) = <<>> /\ <<x>> # <<>>
           /\ Len(<<x, y>>) = 2 /\ Head(<<x, y>>) = x /\ Tail(<<x, y>>) = <<y>>
           /\ <<x, y>> # <<>> /\ Len(<<>>) = 0
  OBVIOUS

LEMMA LeftFacts ==
    ASSUME NEW actions, NEW left, LeftOf(actions, left)
    PROVE  /\ left \in Seq(Actions)
           /\ left # <<>> => /\ Head(left) \in Actions
                             /\ (Head(left) = "read" <=> actions = {"read"})
                             /\ LeftOf(actions, Tail(left))
  <1>1. CASE left = <<>>  BY <1>1
  <1>2. CASE \E x \in Actions : actions = {x} /\ left = <<x>>
    <2>1. PICK x \in Actions : actions = {x} /\ left = <<x>>  BY <1>2
    <2>2. Head(left) = x /\ Tail(left) = <<>>  BY <2>1, Pairs
    <2> QED  BY <2>1, <2>2 DEF LeftOf
  <1>3. ASSUME NEW x \in {"delete", "create"}, NEW y \in {"delete", "create"},
               Two(actions, left, x, y)
        PROVE  left \in Seq(Actions) /\ Head(left) = x /\ LeftOf(actions, Tail(left))
    <2>1. Head(left) = x /\ Tail(left) = <<y>>  BY <1>3, Pairs DEF Two
    <2> QED  BY <1>3, <2>1 DEF Two, LeftOf, Actions
  <1>4. ASSUME NEW x \in {"delete", "create"}, Last(actions, left, x)
        PROVE  left \in Seq(Actions) /\ Head(left) = x /\ LeftOf(actions, Tail(left))
    <2>1. Head(left) = x /\ Tail(left) = <<>>  BY <1>4, Pairs DEF Last
    <2> QED  BY <1>4, <2>1 DEF Last, LeftOf, Actions
  <1>5. Replacing(actions) => actions # {"read"}  BY DEF Replacing
  <1> QED  BY <1>1, <1>2, <1>3, <1>4, <1>5, LeftCases DEF Two, Last, Actions
(* What a parser makes of a resource, in every case.                        *)
Res(action, state) == [action |-> action, state |-> state]

OneRead(x) ==
    /\ KnownAs({x}, <<x>>, "idle") = Res(x, "pending") /\ BareAs({x}, <<x>>, "idle") = Untouched
    /\ KnownAs({x}, <<x>>, "active") = Res(x, "running")
    /\ BareAs({x}, <<x>>, "active") = Res(x, "running")
    /\ KnownAs({x}, <<>>, "idle") = Res(x, "done") /\ BareAs({x}, <<>>, "idle") = Res(x, "done")
    /\ Completed({x}, <<x>>) = 0 /\ Completed({x}, <<>>) = 1

LEMMA OneAs ==
    ASSUME NEW x \in Actions, x # "read"
    PROVE  OneRead(x)
  <1>1. {x} # {"read"} /\ ~ Replacing({x})  BY DEF Replacing
  <1>2. ActionLabel({x}) = x  BY Labelled
  <1>3. <<x>> # <<>> /\ Len(<<x>>) = 1 /\ Head(<<x>>) = x /\ Len(<<>>) = 0  BY Pairs
  <1>4. /\ KnownAs({x}, <<x>>, "idle") = Res(x, "pending")
        /\ KnownAs({x}, <<x>>, "active") = Res(x, "running")
        /\ KnownAs({x}, <<>>, "idle") = Res(x, "done")
    BY <1>1, <1>2, <1>3 DEF KnownAs, Half, Res
  <1>5. /\ BareAs({x}, <<x>>, "idle") = Untouched
        /\ BareAs({x}, <<x>>, "active") = Res(x, "running")
        /\ BareAs({x}, <<>>, "idle") = Res(x, "done")
    BY <1>1, <1>2, <1>3 DEF BareAs, Half, Res
  <1>6. Completed({x}, <<x>>) = 0 /\ Completed({x}, <<>>) = 1
    BY <1>1, <1>3 DEF Completed
  <1> QED  BY <1>4, <1>5, <1>6 DEF OneRead

TwoRead(actions, x, y) ==
    /\ KnownAs(actions, <<x, y>>, "idle") = Res("replace", "pending")
    /\ KnownAs(actions, <<x, y>>, "active") = Res("replace", "running")
    /\ KnownAs(actions, <<y>>, "idle") = Res("replace", "running")
    /\ KnownAs(actions, <<y>>, "active") = Res("replace", "running")
    /\ KnownAs(actions, <<>>, "idle") = Res("replace", "done")
    /\ BareAs(actions, <<x, y>>, "idle") = Untouched
    /\ BareAs(actions, <<x, y>>, "active") = Res(x, "running")
    /\ BareAs(actions, <<y>>, "idle") = Res(x, "done")
    /\ BareAs(actions, <<y>>, "active") = Res("replace", "running")
    /\ BareAs(actions, <<>>, "idle") = Res("replace", "done")
    /\ Completed(actions, <<x, y>>) = 0 /\ Completed(actions, <<y>>) = 1
    /\ Completed(actions, <<>>) = 2

LEMMA TwoAs ==
    ASSUME NEW actions, Replacing(actions),
           NEW x \in {"delete", "create"}, NEW y \in {"delete", "create"}, x # y
    PROVE  TwoRead(actions, x, y)
  <1>1. actions # {"read"}  BY DEF Replacing
  <1>2. ActionLabel(actions) = "replace"  BY Labelled
  <1>3. /\ <<x, y>> # <<>> /\ Len(<<x, y>>) = 2 /\ Head(<<x, y>>) = x
        /\ <<y>> # <<>> /\ Len(<<y>>) = 1 /\ Head(<<y>>) = y /\ Len(<<>>) = 0
    BY Pairs
  <1>4. Other(y) = x  BY DEF Other
  <1>5. /\ ~ Half(actions, <<x, y>>) /\ Half(actions, <<y>>)
        /\ Completed(actions, <<x, y>>) = 0 /\ Completed(actions, <<y>>) = 1
        /\ Completed(actions, <<>>) = 2
    BY <1>1, <1>3 DEF Half, Completed
  <1>6. /\ KnownAs(actions, <<x, y>>, "idle") = Res("replace", "pending")
        /\ KnownAs(actions, <<x, y>>, "active") = Res("replace", "running")
        /\ KnownAs(actions, <<y>>, "idle") = Res("replace", "running")
        /\ KnownAs(actions, <<y>>, "active") = Res("replace", "running")
        /\ KnownAs(actions, <<>>, "idle") = Res("replace", "done")
    BY <1>1, <1>2, <1>3, <1>5 DEF KnownAs, Res
  <1>7. /\ BareAs(actions, <<x, y>>, "idle") = Untouched
        /\ BareAs(actions, <<x, y>>, "active") = Res(x, "running")
        /\ BareAs(actions, <<y>>, "idle") = Res(x, "done")
        /\ BareAs(actions, <<y>>, "active") = Res("replace", "running")
        /\ BareAs(actions, <<>>, "idle") = Res("replace", "done")
    BY <1>1, <1>2, <1>3, <1>4, <1>5 DEF BareAs, Res
  <1> QED  BY <1>5, <1>6, <1>7 DEF TwoRead

LEMMA Lines ==
    /\ \A x \in Actions, op \in Actions : StartedAs(Res(x, "pending"), op) = Res(op, "running")
    /\ \A op \in Actions : StartedAs(Untouched, op) = Res(op, "running")
    /\ \A s \in States, op \in Actions :
         StartedAs(Res("replace", s), op) = Res("replace", "running")
    /\ \A x \in Actions, op \in Actions :
         x # op => StartedAs(Res(x, "done"), op) = Res("replace", "running")
    /\ \A x \in Actions, n \in Nat, op \in Actions :
         FinishedAs(Res(x, "running"), n, op) = Res(x, "done")
    /\ \A op \in Actions :
         /\ FinishedAs(Res("replace", "running"), 0, op) = Res("replace", "running")
         /\ FinishedAs(Res("replace", "running"), 1, op) = Res("replace", "done")
  <1>1. \A x \in Actions : x # "replace"  BY DEF Actions
  <1>2. \A x \in Actions, op \in Actions : StartedAs(Res(x, "pending"), op) = Res(op, "running")
    BY <1>1 DEF StartedAs, Res
  <1>3. \A op \in Actions : StartedAs(Untouched, op) = Res(op, "running")
    BY DEF StartedAs, Res, Untouched, None
  <1>4. \A x \in Actions, n \in Nat, op \in Actions :
          FinishedAs(Res(x, "running"), n, op) = Res(x, "done")
    BY <1>1 DEF FinishedAs, Res, Untouched
  <1>5. \A op \in Actions :
          /\ FinishedAs(Res("replace", "running"), 0, op) = Res("replace", "running")
          /\ FinishedAs(Res("replace", "running"), 1, op) = Res("replace", "done")
    BY DEF FinishedAs, Res, Untouched
  <1>6. \A s \in States, op \in Actions :
          StartedAs(Res("replace", s), op) = Res("replace", "running")
    BY DEF StartedAs, Res
  <1>7. \A x \in Actions, op \in Actions :
          x # op => StartedAs(Res(x, "done"), op) = Res("replace", "running")
    BY <1>1 DEF StartedAs, Res
  <1> QED  BY <1>2, <1>3, <1>4, <1>5, <1>6, <1>7

(* The log of an operation that starts, and of one that ends, keeps what    *)
(* both parsers make of its resource in step with what is left of it.       *)
StartAgrees(actions, left) ==
    LET op == Head(left) IN
    /\ StartedAs(KnownAs(actions, left, "idle"), op) = KnownAs(actions, left, "active")
    /\ StartedAs(BareAs(actions, left, "idle"), op) = BareAs(actions, left, "active")

EndAgrees(actions, left) ==
    LET op == Head(left)
        n == Completed(actions, left)
        rest == Tail(left)
    IN  /\ n \in Nat /\ n + 1 = Completed(actions, rest)
        /\ FinishedAs(KnownAs(actions, left, "active"), n, op) = KnownAs(actions, rest, "idle")
        /\ FinishedAs(BareAs(actions, left, "active"), n, op) = BareAs(actions, rest, "idle")

LEMMA Operations ==
    ASSUME NEW actions, NEW left, LeftOf(actions, left), left # <<>>, actions # {"read"}
    PROVE  StartAgrees(actions, left) /\ EndAgrees(actions, left)
  <1>1. ASSUME NEW x \in Actions, actions = {x}, left = <<x>>
        PROVE  StartAgrees(actions, left) /\ EndAgrees(actions, left)
    <2>1. OneRead(x)
      <3>1. x # "read"  BY <1>1
      <3> QED  BY <3>1, OneAs
    <2>2. Head(<<x>>) = x /\ Tail(<<x>>) = <<>>  BY Pairs
    <2>3. /\ StartedAs(Res(x, "pending"), x) = Res(x, "running")
          /\ StartedAs(Untouched, x) = Res(x, "running")
          /\ FinishedAs(Res(x, "running"), 0, x) = Res(x, "done")
      BY Lines
    <2>4. StartAgrees({x}, <<x>>)  BY <2>1, <2>2, <2>3, Zenon DEF OneRead, StartAgrees
    <2>5. EndAgrees({x}, <<x>>)
      <3>1. 0 \in Nat /\ 0 + 1 = 1  OBVIOUS
      <3> QED  BY <3>1, <2>1, <2>2, <2>3, Zenon DEF OneRead, EndAgrees
    <2> QED  BY <1>1, <2>4, <2>5, Zenon
  <1>2. ASSUME NEW x \in {"delete", "create"}, NEW y \in {"delete", "create"}, x # y,
               Replacing(actions)
        PROVE  /\ StartAgrees(actions, <<x, y>>) /\ EndAgrees(actions, <<x, y>>)
               /\ StartAgrees(actions, <<y>>) /\ EndAgrees(actions, <<y>>)
    <2>1. TwoRead(actions, x, y)  BY <1>2, TwoAs
    <2>2. /\ Head(<<x, y>>) = x /\ Tail(<<x, y>>) = <<y>>
          /\ Head(<<y>>) = y /\ Tail(<<y>>) = <<>>
      BY Pairs
    <2>3. /\ x \in Actions /\ y \in Actions
          /\ "pending" \in States /\ "running" \in States /\ x # y
      BY <1>2 DEF Actions, States
    <2>4. /\ StartedAs(Res("replace", "pending"), x) = Res("replace", "running")
          /\ StartedAs(Untouched, x) = Res(x, "running")
          /\ FinishedAs(Res("replace", "running"), 0, x) = Res("replace", "running")
          /\ FinishedAs(Res(x, "running"), 0, x) = Res(x, "done")
          /\ StartedAs(Res("replace", "running"), y) = Res("replace", "running")
          /\ StartedAs(Res(x, "done"), y) = Res("replace", "running")
          /\ FinishedAs(Res("replace", "running"), 1, y) = Res("replace", "done")
      BY <2>3, Lines
    <2>5. 0 \in Nat /\ 0 + 1 = 1 /\ 1 \in Nat /\ 1 + 1 = 2  OBVIOUS
    <2>6. StartAgrees(actions, <<x, y>>)  BY <2>1, <2>2, <2>4, Zenon DEF TwoRead, StartAgrees
    <2>7. StartAgrees(actions, <<y>>)  BY <2>1, <2>2, <2>4, Zenon DEF TwoRead, StartAgrees
    <2>8. EndAgrees(actions, <<x, y>>)
      BY <2>1, <2>2, <2>4, <2>5, Zenon DEF TwoRead, EndAgrees
    <2>9. EndAgrees(actions, <<y>>)
      BY <2>1, <2>2, <2>4, <2>5, Zenon DEF TwoRead, EndAgrees
    <2> QED  BY <2>6, <2>7, <2>8, <2>9
  <1>3. CASE Replacing(actions) /\ left \in {<<"delete", "create">>, <<"create", "delete">>,
                                             <<"delete">>, <<"create">>}
    <2> DEFINE Both(l) == StartAgrees(actions, l) /\ EndAgrees(actions, l)
    <2>1. /\ Both(<<"delete", "create">>) /\ Both(<<"create", "delete">>)
          /\ Both(<<"delete">>) /\ Both(<<"create">>)
      BY <1>2, <1>3
    <2> HIDE DEF Both
    <2>2. Both(left)  BY <1>3, <2>1
    <2> QED  BY <2>2 DEF Both
  <1> QED  BY <1>1, <1>3 DEF LeftOf
--------------------------------------------------------------------------------
(* What Terraform prints at the end.                                        *)
LEMMA NextLine ==
    ASSUME NEW lines \in Seq(LogLine), lines # <<>>
    PROVE  /\ Tail(lines) \in Seq(LogLine) /\ Head(lines) = lines[1] /\ Head(lines) \in LogLine
           /\ 1 \in DOMAIN lines
           /\ \A k \in DOMAIN Tail(lines) : k + 1 \in DOMAIN lines /\ Tail(lines)[k] = lines[k + 1]
           /\ \A k \in Nat \ {0} : k + 1 \in DOMAIN lines => k \in DOMAIN Tail(lines)
  <1>1. Tail(lines) \in Seq(LogLine) /\ Len(Tail(lines)) = Len(lines) - 1 /\ Len(lines) # 0
    BY EmptySeq, HeadTailProperties
  <1>2. DOMAIN lines = 1 .. Len(lines) /\ DOMAIN Tail(lines) = 1 .. (Len(lines) - 1)
    BY <1>1, LenProperties
  <1>3. \A k \in 1 .. (Len(lines) - 1) : Tail(lines)[k] = lines[k + 1]
    BY <1>1, HeadTailProperties
  <1>4. Head(lines) = lines[1] /\ Head(lines) \in LogLine  BY HeadTailProperties
  <1>5. Len(lines) \in Nat  OBVIOUS
  <1> QED  BY <1>1, <1>2, <1>3, <1>4, <1>5

LEMMA IsNext ==
    ASSUME NEW lines \in Seq(LogLine), lines # <<>>, NEW k \in Nat \ {0}, NEW is, NEW failed
    PROVE  /\ Is(lines, k + 1, is) => Is(Tail(lines), k, is)
           /\ Names(lines, k + 1, failed) => Names(Tail(lines), k, failed)
  <1>1. \A x : \A i \in Nat \ {0} : Is(lines, i + 1, x) => /\ Is(Tail(lines), i, x)
                                                     /\ Tail(lines)[i] = lines[i + 1]
    BY NextLine DEF Is
  <1>2. ASSUME Names(lines, k + 1, failed) PROVE Names(Tail(lines), k, failed)
    <2>1. /\ Is(lines, k + 1, "with") /\ Is(lines, (k + 1) + 1, "text")
          /\ Is(lines, (k + 2) + 1, "corner") /\ lines[k + 1].address \in failed
      <3>1. (k + 1) + 2 = (k + 2) + 1  OBVIOUS
      <3> QED  BY <1>2, <3>1 DEF Names
    <2>2. k + 1 \in Nat \ {0} /\ k + 2 \in Nat \ {0}  OBVIOUS
    <2>3. Is(Tail(lines), k, "with") /\ Tail(lines)[k] = lines[k + 1]  BY <1>1, <2>1
    <2>4. Is(Tail(lines), k + 1, "text")  BY <1>1, <2>1, <2>2
    <2>5. Is(Tail(lines), k + 2, "corner")  BY <1>1, <2>1, <2>2
    <2> QED  BY <2>1, <2>3, <2>4, <2>5 DEF Names
  <1> QED  BY <1>1, <1>2

LEMMA BoxesNext ==
    ASSUME NEW lines \in Seq(LogLine), lines # <<>>, NEW failed, Boxes(lines, failed)
    PROVE  Boxes(Tail(lines), failed)
  <1>1. SUFFICES ASSUME NEW k \in DOMAIN Tail(lines), Tail(lines)[k].is = "error"
                 PROVE  Is(Tail(lines), k + 1, "text") /\ Names(Tail(lines), k + 2, failed)
    BY DEF Boxes
  <1>2. k \in Nat \ {0}
    <2>1. Tail(lines) \in Seq(LogLine)  BY NextLine
    <2> QED  BY <2>1, LenProperties
  <1>3. k + 1 \in DOMAIN lines /\ lines[k + 1].is = "error"  BY <1>1, NextLine
  <1>4. Is(lines, (k + 1) + 1, "text") /\ Names(lines, (k + 1) + 2, failed)
    BY <1>3 DEF Boxes
  <1>5. (k + 1) + 2 = (k + 2) + 1 /\ k + 1 \in Nat \ {0} /\ k + 2 \in Nat \ {0}  BY <1>2
  <1> QED  BY <1>4, <1>5, IsNext

(* How a line moves the block, which is the same for both parsers.          *)
NextBlock(block, line) ==
    IF ~ block.open
    THEN IF line.is = "error" THEN [open |-> TRUE, with |-> None] ELSE NoBlock
    ELSE IF line.is = "corner" THEN NoBlock
    ELSE IF line.is = "with" THEN [open |-> TRUE, with |-> line.address] ELSE block

Charges(block, line) == line.is = "with" /\ block.open

LEMMA PrintedLine ==
    ASSUME NEW p \in Parser, NEW lines \in Seq(LogLine), lines # <<>>,
           NEW failed \in SUBSET Addresses, Boxes(lines, failed), Closing(p.block, lines, failed)
    PROVE  LET line == Head(lines)
               q == ParseLine(p, line)
               a == line.address
           IN  /\ q \in Parser /\ q.halves = p.halves /\ q.block = NextBlock(p.block, line)
               /\ Closing(q.block, Tail(lines), failed)
               /\ Charges(p.block, line) =>
                    a \in failed /\ Progress(q) = [Progress(p) EXCEPT ![a] = WithError(@)]
               /\ ~ Charges(p.block, line) => Progress(q) = Progress(p)
  <1> DEFINE line == Head(lines)
             q == ParseLine(p, line)
             a == line.address
  <1>1. line \in LogLine /\ line = lines[1] /\ 1 \in DOMAIN lines  BY NextLine
  <1>2. CASE ~ p.block.open /\ line.is # "error"
    <2>1. q = p  BY <1>1, <1>2, LineOutside
    <2>2. NextBlock(p.block, line) = p.block  BY <1>2, ClosedBlock DEF NextBlock
    <2> QED  BY <1>2, <2>1, <2>2, Zenon DEF Closing, Charges
  <1>3. CASE ~ p.block.open /\ line.is = "error"
    <2>1. /\ q \in Parser /\ q.block = [open |-> TRUE, with |-> None]
          /\ Progress(q) = Progress(p) /\ q.halves = p.halves
      BY <1>1, <1>3, ErrorOpens
    <2>2. NextBlock(p.block, line) = q.block  BY <1>3, <2>1 DEF NextBlock
    <2>3. Is(lines, 1 + 1, "text") /\ Names(lines, 1 + 2, failed)
      BY <1>1, <1>3 DEF Boxes
    <2>4. Is(Tail(lines), 1, "text") /\ Names(Tail(lines), 2, failed)
      <3>1. 1 + 2 = 2 + 1 /\ 1 \in Nat \ {0} /\ 2 \in Nat \ {0}  OBVIOUS
      <3> QED  BY <2>3, <3>1, IsNext
    <2>5. Closing(q.block, Tail(lines), failed)  BY <2>1, <2>4 DEF Closing
    <2>6. ~ Charges(p.block, line)  BY <1>3 DEF Charges
    <2> QED  BY <2>1, <2>2, <2>5, <2>6
  <1>4. CASE p.block.open /\ p.block.with = None
    <2>1. Names(lines, 1, failed) \/ (Is(lines, 1, "text") /\ Names(lines, 2, failed))
      BY <1>4 DEF Closing
    <2>2. CASE Names(lines, 1, failed)
      <3>1. /\ line.is = "with" /\ a \in failed
            /\ Is(lines, 1 + 1, "text") /\ Is(lines, 1 + 2, "corner")
        BY <1>1, <2>2 DEF Names, Is
      <3>2. a \in Addresses  BY <3>1
      <3>3. /\ q \in Parser /\ q.block = [open |-> TRUE, with |-> a] /\ q.halves = p.halves
            /\ Progress(q) = [Progress(p) EXCEPT ![a] = WithError(Progress(p)[a])]
        BY <1>1, <1>4, <3>1, <3>2, WithNames
      <3>4. Is(Tail(lines), 1, "text") /\ Is(Tail(lines), 2, "corner")
        <4>1. 1 + 2 = 2 + 1 /\ 1 \in Nat \ {0} /\ 2 \in Nat \ {0}  OBVIOUS
        <4> QED  BY <3>1, <4>1, IsNext
      <3>5. a # None  BY <3>2, PlansAssumption
      <3>6. Closing(q.block, Tail(lines), failed)  BY <3>3, <3>4, <3>5 DEF Closing
      <3>7. NextBlock(p.block, line) = q.block  BY <1>4, <3>1, <3>3 DEF NextBlock
      <3>8. Charges(p.block, line)  BY <1>4, <3>1 DEF Charges
      <3> QED  BY <3>1, <3>3, <3>6, <3>7, <3>8
    <2>3. CASE Is(lines, 1, "text") /\ Names(lines, 1 + 1, failed)
      <3>1. line.is = "text"  BY <1>1, <2>3 DEF Is
      <3>2. q = p  BY <1>1, <1>4, <3>1, LineInside
      <3>3. Names(Tail(lines), 1, failed)
        <4>1. 1 \in Nat \ {0}  OBVIOUS
        <4> QED  BY <2>3, <4>1, IsNext
      <3>4. Closing(q.block, Tail(lines), failed)  BY <1>4, <3>2, <3>3 DEF Closing
      <3>5. NextBlock(p.block, line) = p.block  BY <1>4, <3>1 DEF NextBlock
      <3>6. ~ Charges(p.block, line)  BY <3>1 DEF Charges
      <3> QED  BY <3>2, <3>4, <3>5, <3>6
    <2>4. 1 + 1 = 2  OBVIOUS
    <2> QED  BY <2>1, <2>2, <2>3, <2>4
  <1>5. CASE p.block.open /\ p.block.with # None
    <2>1. Is(lines, 1, "corner") \/ (Is(lines, 1, "text") /\ Is(lines, 2, "corner"))
      BY <1>5 DEF Closing
    <2>2. CASE Is(lines, 1, "corner")
      <3>1. line.is = "corner"  BY <1>1, <2>2 DEF Is
      <3>2. /\ q \in Parser /\ q.block = NoBlock /\ q.halves = p.halves
            /\ Progress(q) = Progress(p)
        BY <1>1, <1>5, <3>1, CornerCloses
      <3>3. NextBlock(p.block, line) = NoBlock  BY <1>5, <3>1 DEF NextBlock
      <3>4. Closing(q.block, Tail(lines), failed)  BY <3>2 DEF Closing, NoBlock
      <3>5. ~ Charges(p.block, line)  BY <3>1 DEF Charges
      <3> QED  BY <3>2, <3>3, <3>4, <3>5
    <2>3. CASE Is(lines, 1, "text") /\ Is(lines, 1 + 1, "corner")
      <3>1. line.is = "text"  BY <1>1, <2>3 DEF Is
      <3>2. q = p  BY <1>1, <1>5, <3>1, LineInside
      <3>3. Is(Tail(lines), 1, "corner")
        <4>1. 1 \in Nat \ {0}  OBVIOUS
        <4> QED  BY <2>3, <4>1, IsNext
      <3>4. Closing(q.block, Tail(lines), failed)  BY <1>5, <3>2, <3>3 DEF Closing
      <3>5. NextBlock(p.block, line) = p.block  BY <1>5, <3>1 DEF NextBlock
      <3>6. ~ Charges(p.block, line)  BY <3>1 DEF Charges
      <3> QED  BY <3>2, <3>4, <3>5, <3>6
    <2>4. 1 + 1 = 2  OBVIOUS
    <2> QED  BY <2>1, <2>2, <2>3, <2>4
  <1> QED  BY <1>2, <1>3, <1>4, <1>5
LEMMA BoxesConcat ==
    ASSUME NEW s \in Seq(LogLine), NEW t \in Seq(LogLine), NEW failed,
           Boxes(s, failed), Boxes(t, failed)
    PROVE  s \o t \in Seq(LogLine) /\ Boxes(s \o t, failed)
  <1> DEFINE st == s \o t
             n == Len(s)
             m == Len(t)
  <1>1. /\ st \in Seq(LogLine) /\ DOMAIN st = 1 .. (n + m) /\ n \in Nat /\ m \in Nat
        /\ DOMAIN s = 1 .. n /\ DOMAIN t = 1 .. m
        /\ \A i \in 1 .. (n + m) : st[i] = IF i <= n THEN s[i] ELSE t[i - n]
    BY ConcatProperties, LenProperties
  <1> HIDE DEF st
  <1>2. \A x : \A i : Is(s, i, x) => Is(st, i, x) /\ st[i] = s[i]
    BY <1>1 DEF Is
  <1>3. \A x : \A i : Is(t, i, x) => Is(st, n + i, x) /\ st[n + i] = t[i]
    BY <1>1 DEF Is
  <1>4. ASSUME NEW k \in DOMAIN st, st[k].is = "error"
        PROVE  Is(st, k + 1, "text") /\ Names(st, k + 2, failed)
    <2>1. CASE k <= n
      <3>1. k \in DOMAIN s /\ s[k].is = "error"  BY <1>1, <1>4, <2>1
      <3>2. Is(s, k + 1, "text") /\ Names(s, k + 2, failed)  BY <3>1 DEF Boxes
      <3> QED  BY <3>2, <1>2 DEF Names
    <2>2. CASE ~ (k <= n)
      <3> DEFINE j == k - n
      <3>1. j \in DOMAIN t /\ t[j].is = "error" /\ k = n + j /\ j \in Nat
        <4>1. k \in 1 .. (n + m) /\ k \in Nat /\ n \in Nat /\ m \in Nat  BY <1>1
        <4>2. j \in 1 .. m /\ k = n + j /\ j \in Nat  BY <4>1, <2>2
        <4>3. st[k] = t[k - n]  BY <1>1, <4>1, <2>2
        <4> QED  BY <4>2, <4>3, <1>1, <1>4
      <3> HIDE DEF j
      <3>2. Is(t, j + 1, "text") /\ Names(t, j + 2, failed)  BY <3>1 DEF Boxes
      <3>3. /\ n + (j + 1) = k + 1 /\ n + (j + 2) = k + 2
            /\ n + ((j + 2) + 1) = (k + 2) + 1 /\ n + ((j + 2) + 2) = (k + 2) + 2
        BY <3>1, <1>1
      <3>4. Is(st, k + 1, "text")  BY <3>2, <3>3, <1>3
      <3>5. /\ Is(st, k + 2, "with") /\ st[k + 2] = t[j + 2]
            /\ Is(st, (k + 2) + 1, "text") /\ Is(st, (k + 2) + 2, "corner")
        <4>1. /\ Is(t, j + 2, "with") /\ Is(t, (j + 2) + 1, "text")
              /\ Is(t, (j + 2) + 2, "corner")
          BY <3>2 DEF Names
        <4>2. /\ Is(st, n + (j + 2), "with") /\ st[n + (j + 2)] = t[j + 2]
              /\ Is(st, n + ((j + 2) + 1), "text") /\ Is(st, n + ((j + 2) + 2), "corner")
          BY <4>1, <1>3
        <4> QED  BY <4>2, <3>3
      <3> QED  BY <3>2, <3>4, <3>5 DEF Names
    <2> QED  BY <2>1, <2>2
  <1> QED  BY <1>1, <1>4 DEF Boxes, st

LEMMA BoxedLine ==
    ASSUME NEW is \in {"error", "with", "text", "corner"}, NEW a \in Addresses \cup {None}
    PROVE  Boxed(is, a) \in LogLine /\ Boxed(is, a).is = is /\ Boxed(is, a).address = a
  BY DEF Boxed, LogLine

LEMMA WarningBoxed ==
    ASSUME NEW w \in Addresses, NEW failed
    PROVE  WarningBox(w) \in Seq(LogLine) /\ Boxes(WarningBox(w), failed) /\ WarningBox(w) # <<>>
  <1> DEFINE corner == Boxed("corner", None)
             text == Boxed("text", None)
             with == Boxed("with", w)
  <1>1. /\ corner \in LogLine /\ text \in LogLine /\ with \in LogLine
        /\ corner.is # "error" /\ text.is # "error" /\ with.is # "error"
    BY BoxedLine
  <1> HIDE DEF corner, text, with
  <1>2. /\ <<corner, text, with, corner>> \in Seq(LogLine)
        /\ <<corner, text, with, corner>> # <<>>
        /\ \A k \in DOMAIN <<corner, text, with, corner>> :
             <<corner, text, with, corner>>[k].is # "error"
    BY <1>1
  <1>3. WarningBox(w) = <<corner, text, with, corner>>
    BY DEF WarningBox, corner, text, with
  <1> QED  BY <1>2, <1>3 DEF Boxes

LEMMA ErrorBoxed ==
    ASSUME NEW a \in Addresses, NEW failed, a \in failed
    PROVE  ErrorBox(a) \in Seq(LogLine) /\ Boxes(ErrorBox(a), failed)
  <1> DEFINE corner == Boxed("corner", None)
             error == Boxed("error", None)
             text == Boxed("text", None)
             with == Boxed("with", a)
             box == << corner, error, text, with, text, corner >>
  <1>1. /\ corner \in LogLine /\ text \in LogLine /\ with \in LogLine /\ error \in LogLine
        /\ corner.is = "corner" /\ text.is = "text" /\ with.is = "with" /\ error.is = "error"
        /\ with.address = a
    BY BoxedLine
  <1> HIDE DEF corner, text, with, error
  <1>2. /\ box \in Seq(LogLine) /\ DOMAIN box = 1 .. 6 /\ box[1] = corner /\ box[2] = error
        /\ box[3] = text /\ box[4] = with /\ box[5] = text /\ box[6] = corner
    BY <1>1
  <1>3. ErrorBox(a) = box
    BY DEF ErrorBox, corner, text, with, error
  <1> HIDE DEF box
  <1>4. \A k \in DOMAIN box : box[k].is = "error" => k = 2
    BY <1>1, <1>2
  <1>5. Is(box, 2 + 1, "text") /\ Names(box, 2 + 2, failed)
    BY <1>1, <1>2 DEF Is, Names
  <1>6. Boxes(box, failed)  BY <1>4, <1>5 DEF Boxes
  <1> QED  BY <1>2, <1>3, <1>6
--------------------------------------------------------------------------------
(* The steps.                                                               *)
PageIs(p, plan, isRunning, withPlan, bare) ==
    p = [kind |-> "apply", plan |-> plan, isRunning |-> isRunning,
         withPlan |-> withPlan, bare |-> bare]

LogIs(s, left, busy, failed, named, diagnostics) ==
    s = [left |-> left, busy |-> busy, failed |-> failed, named |-> named,
         diagnostics |-> diagnostics]

LEMMA PageFields ==
    ASSUME NEW p, p \in ApplyPage
    PROVE  /\ PageIs(p, p.plan, p.isRunning, p.withPlan, p.bare)
           /\ p.plan \in [Addresses -> Changes] /\ p.isRunning \in BOOLEAN
           /\ p.withPlan \in Parser /\ p.bare \in Parser /\ p.kind = "apply"
  BY DEF ApplyPage, PageIs

LEMMA PageType ==
    ASSUME NEW p, NEW plan \in [Addresses -> Changes], NEW isRunning \in BOOLEAN,
           NEW withPlan \in Parser, NEW bare \in Parser,
           PageIs(p, plan, isRunning, withPlan, bare)
    PROVE  /\ p \in ApplyPage /\ p.plan = plan /\ p.isRunning = isRunning
           /\ p.withPlan = withPlan /\ p.bare = bare
  BY DEF ApplyPage, PageIs

LEMMA LogFields ==
    ASSUME NEW s, s \in ApplyLog
    PROVE  /\ LogIs(s, s.left, s.busy, s.failed, s.named, s.diagnostics)
           /\ s.left \in [Addresses -> Seq(Actions)] /\ s.busy \subseteq Addresses
           /\ s.failed \subseteq Addresses /\ s.named \subseteq Addresses
           /\ s.diagnostics \in Seq(LogLine)
  BY DEF ApplyLog, LogIs

LEMMA LogType ==
    ASSUME NEW s, NEW left \in [Addresses -> Seq(Actions)], NEW busy \in SUBSET Addresses,
           NEW failed \in SUBSET Addresses, NEW named \in SUBSET Addresses,
           NEW diagnostics \in Seq(LogLine),
           LogIs(s, left, busy, failed, named, diagnostics)
    PROVE  /\ s \in ApplyLog /\ s.left = left /\ s.busy = busy /\ s.failed = failed
           /\ s.named = named /\ s.diagnostics = diagnostics
  BY DEF ApplyLog, LogIs

LEMMA Emitted ==
    ASSUME page \in ApplyPage, NEW line, Emit(line),
           ParseLine(page.withPlan, line) \in Parser, ParseLine(page.bare, line) \in Parser
    PROVE  /\ page' \in ApplyPage /\ page'.plan = page.plan /\ page'.isRunning = page.isRunning
           /\ page'.withPlan = ParseLine(page.withPlan, line)
           /\ page'.bare = ParseLine(page.bare, line)
  <1> DEFINE w == ParseLine(page.withPlan, line)
             b == ParseLine(page.bare, line)
  <1>1. page' = [page EXCEPT !.withPlan = w, !.bare = b]
    BY PageFields DEF Emit
  <1> DEFINE plan == page.plan
             isRunning == page.isRunning
             w0 == page.withPlan
             b0 == page.bare
  <1>2. PageIs(page, plan, isRunning, w0, b0)  BY PageFields
  <1> HIDE DEF w, b, plan, isRunning, w0, b0
  <1>3. PageIs(page', plan, isRunning, w, b)  BY ONLY <1>1, <1>2 DEF PageIs
  <1>4. w \in Parser /\ b \in Parser  BY DEF w, b
  <1>5. page.plan \in [Addresses -> Changes] /\ page.isRunning \in BOOLEAN  BY PageFields
  <1>6. /\ page' \in ApplyPage /\ page'.plan = page.plan /\ page'.isRunning = page.isRunning
        /\ page'.withPlan = w /\ page'.bare = b
    BY <1>3, <1>4, <1>5, PageType DEF plan, isRunning
  <1> QED  BY <1>6 DEF w, b

(* While Terraform is at work no block is open.                             *)
LEMMA NoBlockOpen ==
    ASSUME Inv(page, server), Walking
    PROVE  /\ page.withPlan \in Parser /\ ~ page.withPlan.block.open
           /\ page.bare \in Parser /\ ~ page.bare.block.open
           /\ Progress(page.withPlan) = page.withPlan.resources
           /\ Progress(page.bare) = page.bare.resources
  <1>1. page.withPlan \in Parser /\ page.bare \in Parser  BY PageFields DEF Inv
  <1>2. server.diagnostics = <<>> /\ page.isRunning  BY DEF Walking
  <1>3. Closing(page.withPlan.block, <<>>, server.failed)  BY <1>2 DEF Inv, BoxesInv
  <1>4. \A k, is : ~ Is(<<>>, k, is)  BY DEF Is
  <1>5. ~ page.withPlan.block.open  BY <1>3, <1>4 DEF Closing, Names
  <1>6. ~ page.bare.block.open  BY <1>5 DEF Inv, BoxesInv
  <1> QED  BY <1>1, <1>5, <1>6, ClosedBlock

(* A data source is no change, whatever happens to it.                      *)
LEMMA DataSource ==
    ASSUME NEW left, NEW phase
    PROVE  /\ KnownAs({"read"}, left, phase) = Untouched
           /\ BareAs({"read"}, left, phase) = Untouched
           /\ Completed({"read"}, left) = 0
  BY DEF KnownAs, BareAs, Completed

LEMMA WorkFacts ==
    ASSUME NEW p, NEW s, Inv(p, s), NEW a \in Addresses
    PROVE  /\ p.plan[a] \in Changes /\ LeftOf(p.plan[a], s.left[a]) /\ ReadAs(p, s, a)
           /\ a \in s.busy \cup s.failed => s.left[a] # <<>>
           /\ a \in s.named => a \in s.failed
           /\ ~ (a \in s.busy /\ a \in s.failed)
  BY PageFields, LogFields DEF Inv, WorkInv

LEMMA Starts ==
    ASSUME Inv(page, server), NEW a \in Addresses, StartOperation(a)
    PROVE  Inv(page', server')
  <1> DEFINE op == Head(server.left[a])
             line == Line("started", a, op)
             w == ParseLine(page.withPlan, line)
             b == ParseLine(page.bare, line)
             busy == server.busy \cup {a}
  <1>1. /\ Walking /\ server.left[a] # <<>> /\ a \notin server.busy /\ a \notin server.failed
        /\ Emit(line) /\ server' = [server EXCEPT !.busy = busy]
    BY LogFields DEF StartOperation, Line, Inv
  <1>2. LeftOf(page.plan[a], server.left[a]) /\ ReadAs(page, server, a)  BY WorkFacts
  <1>3. op \in Actions /\ (op = "read" <=> page.plan[a] = {"read"})
    BY <1>1, <1>2, LeftFacts
  <1>4. /\ page.withPlan \in Parser /\ ~ page.withPlan.block.open
        /\ page.bare \in Parser /\ ~ page.bare.block.open
        /\ Progress(page.withPlan) = page.withPlan.resources
        /\ Progress(page.bare) = page.bare.resources
    BY <1>1, NoBlockOpen
  <1>5. /\ w \in Parser /\ w.block = page.withPlan.block /\ w.halves = page.withPlan.halves
        /\ w.resources = IF op = "read" THEN page.withPlan.resources
                         ELSE [page.withPlan.resources EXCEPT
                                 ![a] = StartedAs(page.withPlan.resources[a], op)]
    BY <1>3, <1>4, StartedLine
  <1>6. /\ b \in Parser /\ b.block = page.bare.block /\ b.halves = page.bare.halves
        /\ b.resources = IF op = "read" THEN page.bare.resources
                         ELSE [page.bare.resources EXCEPT
                                 ![a] = StartedAs(page.bare.resources[a], op)]
    BY <1>3, <1>4, StartedLine
  <1> HIDE DEF op
  <1>7. /\ page' \in ApplyPage /\ page'.plan = page.plan /\ page'.isRunning = page.isRunning
        /\ page'.withPlan = w /\ page'.bare = b
    BY <1>1, <1>5, <1>6, Emitted DEF Inv
  <1> HIDE DEF w, b, line
  <1>8. Progress(w) = w.resources /\ Progress(b) = b.resources
    BY <1>4, <1>5, <1>6, ClosedBlock
  <1>9. LogIs(server', server.left, busy, server.failed, server.named, server.diagnostics)
    <2>1. LogIs(server, server.left, server.busy, server.failed, server.named,
                server.diagnostics)
      BY LogFields DEF Inv
    <2> HIDE DEF busy
    <2> QED  BY ONLY <1>1, <2>1 DEF LogIs
  <1>10. /\ server' \in ApplyLog /\ server'.left = server.left /\ server'.busy = busy
         /\ server'.failed = server.failed /\ server'.named = server.named
         /\ server'.diagnostics = server.diagnostics
    BY <1>9, LogFields, LogType DEF Inv
  <1>11. WorkInv(page', server')
    BY <1>1, <1>7, <1>10 DEF Inv, WorkInv
  <1>12. BoxesInv(page', server')
    BY <1>5, <1>6, <1>7, <1>10 DEF Inv, BoxesInv
  <1>13. ASSUME NEW c \in Addresses, c # a PROVE ReadAs(page', server', c)
    <2>1. ReadAs(page, server, c)  BY WorkFacts
    <2>2. Phase(server', c) = Phase(server, c)  BY <1>10, <1>13 DEF Phase
    <2>3. w.resources[c] = page.withPlan.resources[c] /\ b.resources[c] = page.bare.resources[c]
      BY <1>4, <1>5, <1>6, <1>13, ParserFields
    <2> QED  BY <2>1, <2>2, <2>3, <1>4, <1>5, <1>6, <1>7, <1>8, <1>10 DEF ReadAs
  <1>14. ReadAs(page', server', a)
    <2>1. Phase(server, a) = "idle" /\ Phase(server', a) = "active"
      BY <1>1, <1>10, WorkFacts DEF Phase
    <2>2. /\ page.withPlan.resources[a]
               = KnownAs(page.plan[a], server.left[a], "idle")
          /\ page.bare.resources[a] = BareAs(page.plan[a], server.left[a], "idle")
          /\ page.withPlan.halves[a] = Completed(page.plan[a], server.left[a])
          /\ page.bare.halves[a] = Completed(page.plan[a], server.left[a])
      BY <1>2, <1>4, <2>1 DEF ReadAs, AsNamed
    <2>3. /\ w.resources[a] = KnownAs(page.plan[a], server.left[a], "active")
          /\ b.resources[a] = BareAs(page.plan[a], server.left[a], "active")
      <3>1. CASE op = "read"  BY <1>3, <1>5, <1>6, <2>2, <3>1, DataSource
      <3>2. CASE op # "read"
        <4>1. StartAgrees(page.plan[a], server.left[a])  BY <1>1, <1>2, <1>3, <3>2, Operations
        <4>2. /\ w.resources[a] = StartedAs(page.withPlan.resources[a], op)
              /\ b.resources[a] = StartedAs(page.bare.resources[a], op)
          BY <1>4, <1>5, <1>6, <3>2, ParserFields
        <4> QED  BY <2>2, <4>1, <4>2 DEF StartAgrees, op
      <3> QED  BY <3>1, <3>2
    <2> QED  BY <2>1, <2>2, <2>3, <1>5, <1>6, <1>7, <1>8, <1>10 DEF ReadAs, AsNamed
  <1> QED  BY <1>7, <1>10, <1>11, <1>12, <1>13, <1>14 DEF Inv
LEMMA Ends ==
    ASSUME Inv(page, server), NEW a \in Addresses, EndOperation(a)
    PROVE  Inv(page', server')
  <1> DEFINE op == Head(server.left[a])
             rest == Tail(server.left[a])
             line == Line("finished", a, op)
             w == ParseLine(page.withPlan, line)
             b == ParseLine(page.bare, line)
             busy == server.busy \ {a}
             left == [server.left EXCEPT ![a] = rest]
  <1>1. /\ Walking /\ a \in server.busy /\ Emit(line)
        /\ server' = [server EXCEPT !.busy = busy, !.left = left]
    BY LogFields DEF EndOperation, Line, Inv
  <1>2. /\ page.plan[a] \in Changes /\ LeftOf(page.plan[a], server.left[a])
        /\ ReadAs(page, server, a) /\ server.left[a] # <<>>
        /\ a \notin server.failed /\ a \notin server.named
    BY <1>1, WorkFacts
  <1>3. /\ op \in Actions /\ (op = "read" <=> page.plan[a] = {"read"})
        /\ LeftOf(page.plan[a], rest) /\ rest \in Seq(Actions)
    BY <1>2, LeftFacts
  <1>4. /\ page.withPlan \in Parser /\ ~ page.withPlan.block.open
        /\ page.bare \in Parser /\ ~ page.bare.block.open
        /\ Progress(page.withPlan) = page.withPlan.resources
        /\ Progress(page.bare) = page.bare.resources
    BY <1>1, NoBlockOpen
  <1> DEFINE Halves(p) == IF op = "read" THEN p.halves
                          ELSE [p.halves EXCEPT ![a] = p.halves[a] + 1]
             Resources(p) == IF op = "read" THEN p.resources
                             ELSE [p.resources EXCEPT
                                     ![a] = FinishedAs(p.resources[a], p.halves[a], op)]
  <1> HIDE DEF op, rest
  <1>0. ASSUME NEW p \in Parser, ~ p.block.open
        PROVE  LET q == ParseLine(p, line) IN
               /\ q \in Parser /\ q.block = p.block
               /\ q.halves = Halves(p) /\ q.resources = Resources(p)
    BY <1>0, <1>3, FinishedLine, Zenon
  <1>5. /\ w \in Parser /\ w.block = page.withPlan.block
        /\ w.halves = Halves(page.withPlan) /\ w.resources = Resources(page.withPlan)
    <2> HIDE DEF line, Halves, Resources
    <2> QED  BY <1>0, <1>4
  <1>6. /\ b \in Parser /\ b.block = page.bare.block
        /\ b.halves = Halves(page.bare) /\ b.resources = Resources(page.bare)
    <2> HIDE DEF line, Halves, Resources
    <2> QED  BY <1>0, <1>4
  <1>7. /\ page' \in ApplyPage /\ page'.plan = page.plan /\ page'.isRunning = page.isRunning
        /\ page'.withPlan = w /\ page'.bare = b
    BY <1>1, <1>5, <1>6, Emitted DEF Inv
  <1> HIDE DEF w, b, line
  <1>8. Progress(w) = w.resources /\ Progress(b) = b.resources
    BY <1>4, <1>5, <1>6, ClosedBlock
  <1>9. left \in [Addresses -> Seq(Actions)] /\ busy \in SUBSET Addresses
    BY <1>3, LogFields DEF Inv
  <1>10. LogIs(server', left, busy, server.failed, server.named, server.diagnostics)
    <2>1. LogIs(server, server.left, server.busy, server.failed, server.named,
                server.diagnostics)
      BY LogFields DEF Inv
    <2> HIDE DEF busy, left
    <2> QED  BY ONLY <1>1, <2>1 DEF LogIs
  <1>11. /\ server' \in ApplyLog /\ server'.left = left /\ server'.busy = busy
         /\ server'.failed = server.failed /\ server'.named = server.named
         /\ server'.diagnostics = server.diagnostics
    <2>1. /\ server.failed \in SUBSET Addresses /\ server.named \in SUBSET Addresses
          /\ server.diagnostics \in Seq(LogLine)
      BY LogFields DEF Inv
    <2> HIDE DEF left, busy
    <2> QED  BY <1>9, <1>10, <2>1 DEF LogIs, ApplyLog
  <1>12. /\ left[a] = rest /\ \A c \in Addresses \ {a} : left[c] = server.left[c]
    BY LogFields DEF Inv
  <1>13. WorkInv(page', server')
    <2>1. \A c \in Addresses : LeftOf(page'.plan[c], server'.left[c])
      <3>1. \A c \in Addresses : LeftOf(page.plan[c], server.left[c])  BY WorkFacts
      <3>2. page'.plan = page.plan /\ server'.left = left  BY <1>7, <1>11
      <3> HIDE DEF left, rest
      <3> QED  BY ONLY <1>3, <1>12, <3>1, <3>2
    <2>2. \A c \in server'.busy \cup server'.failed :
            c \in Addresses \ {a} /\ server'.left[c] # <<>>
      <3>1. \A c \in server.busy \cup server.failed : c \in Addresses /\ server.left[c] # <<>>
        BY LogFields DEF Inv, WorkInv
      <3>2. server'.busy = server.busy \ {a} /\ server'.failed = server.failed
            /\ server'.left = left
        BY <1>11
      <3> HIDE DEF left, busy
      <3> QED  BY ONLY <1>2, <1>12, <3>1, <3>2
    <2>3. /\ server'.named \subseteq server'.failed
          /\ server'.busy \cap server'.failed = {}
      BY <1>11 DEF Inv, WorkInv
    <2> QED  BY <2>1, <2>2, <2>3 DEF WorkInv
  <1>14. BoxesInv(page', server')
    BY <1>5, <1>6, <1>7, <1>11 DEF Inv, BoxesInv
  <1>15. ASSUME NEW c \in Addresses, c # a PROVE ReadAs(page', server', c)
    <2>1. ReadAs(page, server, c)  BY WorkFacts
    <2>2. Phase(server', c) = Phase(server, c)  BY <1>11, <1>15 DEF Phase
    <2>3. server'.left[c] = server.left[c]  BY <1>11, <1>12, <1>15
    <2>4. /\ w.resources[c] = page.withPlan.resources[c]
          /\ b.resources[c] = page.bare.resources[c]
          /\ w.halves[c] = page.withPlan.halves[c] /\ b.halves[c] = page.bare.halves[c]
      BY <1>4, <1>5, <1>6, <1>15, ParserFields
    <2> QED  BY <2>1, <2>2, <2>3, <2>4, <1>4, <1>7, <1>8 DEF ReadAs
  <1>16. ReadAs(page', server', a)
    <2>1. Phase(server, a) = "active" /\ Phase(server', a) = "idle"
      BY <1>1, <1>2, <1>11 DEF Phase
    <2>2. /\ page.withPlan.resources[a]
               = KnownAs(page.plan[a], server.left[a], "active")
          /\ page.bare.resources[a] = BareAs(page.plan[a], server.left[a], "active")
          /\ page.withPlan.halves[a] = Completed(page.plan[a], server.left[a])
          /\ page.bare.halves[a] = Completed(page.plan[a], server.left[a])
      BY <1>2, <1>4, <2>1 DEF ReadAs, AsNamed
    <2>3. /\ w.resources[a] = KnownAs(page.plan[a], rest, "idle")
          /\ b.resources[a] = BareAs(page.plan[a], rest, "idle")
          /\ w.halves[a] = Completed(page.plan[a], rest)
          /\ b.halves[a] = Completed(page.plan[a], rest)
      <3>1. CASE op = "read"  BY <1>3, <1>5, <1>6, <2>2, <3>1, DataSource
      <3>2. CASE op # "read"
        <4>1. EndAgrees(page.plan[a], server.left[a])  BY <1>2, <1>3, <3>2, Operations
        <4>2. /\ w.resources[a]
                   = FinishedAs(page.withPlan.resources[a], page.withPlan.halves[a], op)
              /\ b.resources[a] = FinishedAs(page.bare.resources[a], page.bare.halves[a], op)
              /\ w.halves[a] = page.withPlan.halves[a] + 1
              /\ b.halves[a] = page.bare.halves[a] + 1
          BY <1>4, <1>5, <1>6, <3>2, ParserFields
        <4> QED  BY <2>2, <4>1, <4>2 DEF EndAgrees, op, rest
      <3> QED  BY <3>1, <3>2
    <2>4. server'.left[a] = rest  BY <1>11, <1>12
    <2> QED  BY <2>1, <2>3, <2>4, <1>7, <1>8 DEF ReadAs, AsNamed
  <1> QED  BY <1>7, <1>11, <1>13, <1>14, <1>15, <1>16 DEF Inv

(* The steps that print nothing.                                            *)
LEMMA Fails ==
    ASSUME Inv(page, server), NEW a \in Addresses, FailOperation(a)
    PROVE  Inv(page', server')
  <1> DEFINE busy == server.busy \ {a}
             failed == server.failed \cup {a}
  <1>1. /\ Walking /\ a \in server.busy /\ page' = page
        /\ server' = [server EXCEPT !.busy = busy, !.failed = failed]
    BY LogFields DEF FailOperation, Inv
  <1>2. LogIs(server', server.left, busy, failed, server.named, server.diagnostics)
    <2>1. LogIs(server, server.left, server.busy, server.failed, server.named,
                server.diagnostics)
      BY LogFields DEF Inv
    <2> HIDE DEF busy, failed
    <2> QED  BY ONLY <1>1, <2>1 DEF LogIs
  <1>3. busy \in SUBSET Addresses /\ failed \in SUBSET Addresses  BY LogFields DEF Inv
  <1>4. /\ server' \in ApplyLog /\ server'.left = server.left /\ server'.busy = busy
        /\ server'.failed = failed /\ server'.named = server.named
        /\ server'.diagnostics = server.diagnostics
    <2>1. /\ server.left \in [Addresses -> Seq(Actions)] /\ server.named \in SUBSET Addresses
          /\ server.diagnostics \in Seq(LogLine)
      BY LogFields DEF Inv
    <2> HIDE DEF failed, busy
    <2> QED  BY <1>2, <1>3, <2>1 DEF LogIs, ApplyLog
  <1>5. WorkInv(page', server')
    BY <1>1, <1>4 DEF Inv, WorkInv
  <1>6. BoxesInv(page', server')
    <2>1. server.diagnostics = <<>> /\ page.isRunning /\ ~ page.withPlan.block.open
      BY <1>1, NoBlockOpen DEF Walking
    <2>2. Boxes(<<>>, failed)  BY DEF Boxes
    <2> QED  BY <1>1, <1>4, <2>1, <2>2 DEF Inv, BoxesInv, Closing
  <1>7. ASSUME NEW c \in Addresses PROVE ReadAs(page', server', c)
    <2>1. Phase(server', c) = Phase(server, c)  BY <1>1, <1>4 DEF Phase
    <2> QED  BY <2>1, <1>1, <1>4, WorkFacts DEF ReadAs
  <1> QED  BY <1>1, <1>4, <1>5, <1>6, <1>7 DEF Inv

LEMMA Diagnoses ==
    ASSUME Inv(page, server), Diagnose
    PROVE  Inv(page', server')
  <1>1. PICK d \in Seq(LogLine) :
          Boxes(d, server.failed) /\ server' = [server EXCEPT !.diagnostics = d]
    <2>1. PICK w \in Addresses :
            \/ server' = [server EXCEPT !.diagnostics = WarningBox(w)]
            \/ \E a, b \in server.failed :
                 server' = [server EXCEPT !.diagnostics =
                    WarningBox(w) \o ErrorBox(a) \o (IF a = b THEN <<>> ELSE ErrorBox(b))]
      BY DEF Diagnose
    <2>2. WarningBox(w) \in Seq(LogLine) /\ Boxes(WarningBox(w), server.failed)
      BY WarningBoxed
    <2>3. ASSUME NEW a \in server.failed, NEW b \in server.failed
          PROVE  LET d == WarningBox(w) \o ErrorBox(a) \o (IF a = b THEN <<>> ELSE ErrorBox(b))
                 IN  d \in Seq(LogLine) /\ Boxes(d, server.failed)
      <3> DEFINE wa == WarningBox(w) \o ErrorBox(a)
                 more == IF a = b THEN <<>> ELSE ErrorBox(b)
      <3>1. a \in Addresses /\ b \in Addresses  BY LogFields DEF Inv
      <3>2. /\ ErrorBox(a) \in Seq(LogLine) /\ Boxes(ErrorBox(a), server.failed)
            /\ ErrorBox(b) \in Seq(LogLine) /\ Boxes(ErrorBox(b), server.failed)
        BY <3>1, ErrorBoxed
      <3>3. wa \in Seq(LogLine) /\ Boxes(wa, server.failed)  BY <2>2, <3>2, BoxesConcat
      <3>4. Boxes(<<>>, server.failed) /\ <<>> \in Seq(LogLine)  BY DEF Boxes
      <3>5. more \in Seq(LogLine) /\ Boxes(more, server.failed)  BY <3>2, <3>4
      <3> HIDE DEF wa, more
      <3>6. wa \o more \in Seq(LogLine) /\ Boxes(wa \o more, server.failed)
        BY <3>3, <3>5, BoxesConcat
      <3> QED  BY <3>6 DEF wa, more
    <2> QED  BY <2>1, <2>2, <2>3
  <1>2. Walking /\ page' = page  BY DEF Diagnose
  <1>3. LogIs(server', server.left, server.busy, server.failed, server.named, d)
    <2>1. LogIs(server, server.left, server.busy, server.failed, server.named,
                server.diagnostics)
      BY LogFields DEF Inv
    <2> QED  BY ONLY <1>1, <2>1 DEF LogIs
  <1>4. /\ server' \in ApplyLog /\ server'.left = server.left /\ server'.busy = server.busy
        /\ server'.failed = server.failed /\ server'.named = server.named
        /\ server'.diagnostics = d
    <2>1. /\ server.left \in [Addresses -> Seq(Actions)] /\ server.busy \in SUBSET Addresses
          /\ server.failed \in SUBSET Addresses /\ server.named \in SUBSET Addresses
      BY LogFields DEF Inv
    <2> QED  BY ONLY <1>1, <1>3, <2>1 DEF LogIs, ApplyLog
  <1>5. WorkInv(page', server')  BY <1>2, <1>4 DEF Inv, WorkInv
  <1>6. BoxesInv(page', server')
    <2>1. page.isRunning /\ ~ page.withPlan.block.open  BY <1>2, NoBlockOpen DEF Walking
    <2> QED  BY <1>1, <1>2, <1>4, <2>1 DEF Inv, BoxesInv, Closing
  <1>7. ASSUME NEW c \in Addresses PROVE ReadAs(page', server', c)
    <2>1. Phase(server', c) = Phase(server, c)  BY <1>4 DEF Phase
    <2> QED  BY <2>1, <1>2, <1>4, WorkFacts DEF ReadAs
  <1> QED  BY <1>2, <1>4, <1>5, <1>6, <1>7 DEF Inv
LEMMA Prints ==
    ASSUME Inv(page, server), PrintDiagnostic
    PROVE  Inv(page', server')
  <1> DEFINE line == Head(server.diagnostics)
             rest == Tail(server.diagnostics)
             charged == Charges(page.withPlan.block, line)
             a == line.address
             w == ParseLine(page.withPlan, line)
             b == ParseLine(page.bare, line)
             named == IF line.is = "with" /\ page.withPlan.block.open
                      THEN server.named \cup {a} ELSE server.named
  <1>1. /\ server.diagnostics # <<>> /\ Emit(line)
        /\ server' = [server EXCEPT !.diagnostics = rest, !.named = named]
    BY LogFields DEF PrintDiagnostic, Inv
  <1>2. page.isRunning = TRUE
    BY <1>1, PageFields DEF Inv, BoxesInv
  <1>3. /\ page.withPlan \in Parser /\ page.bare \in Parser
        /\ page.withPlan.block = page.bare.block
        /\ server.diagnostics \in Seq(LogLine) /\ server.failed \in SUBSET Addresses
        /\ Boxes(server.diagnostics, server.failed)
        /\ Closing(page.withPlan.block, server.diagnostics, server.failed)
    BY <1>2, PageFields, LogFields DEF Inv, BoxesInv
  <1>4. /\ w \in Parser /\ w.halves = page.withPlan.halves
        /\ w.block = NextBlock(page.withPlan.block, line)
        /\ Closing(w.block, rest, server.failed)
        /\ charged => /\ a \in server.failed
                      /\ Progress(w) = [Progress(page.withPlan) EXCEPT ![a] = WithError(@)]
        /\ ~ charged => Progress(w) = Progress(page.withPlan)
    BY <1>1, <1>3, PrintedLine
  <1>5. /\ b \in Parser /\ b.halves = page.bare.halves
        /\ b.block = NextBlock(page.withPlan.block, line)
        /\ charged => Progress(b) = [Progress(page.bare) EXCEPT ![a] = WithError(@)]
        /\ ~ charged => Progress(b) = Progress(page.bare)
    <2>1. Closing(page.bare.block, server.diagnostics, server.failed)  BY <1>3
    <2>2. charged <=> Charges(page.bare.block, line)  BY <1>3
    <2> QED  BY <1>1, <1>3, <2>1, <2>2, PrintedLine
  <1>6. /\ page' \in ApplyPage /\ page'.plan = page.plan /\ page'.isRunning = page.isRunning
        /\ page'.withPlan = w /\ page'.bare = b
    BY <1>1, <1>4, <1>5, Emitted DEF Inv
  <1>7. /\ charged => named = server.named \cup {a}
        /\ ~ charged => named = server.named
    BY DEF Charges
  <1>8. rest \in Seq(LogLine) /\ Boxes(rest, server.failed)
    BY <1>1, <1>3, NextLine, BoxesNext
  <1>9. named \in SUBSET Addresses /\ named \subseteq server.failed
    BY <1>4, <1>7, LogFields DEF Inv, WorkInv
  <1> HIDE DEF w, b, line, rest, charged, a, named
  <1>10. LogIs(server', server.left, server.busy, server.failed, named, rest)
    <2>1. LogIs(server, server.left, server.busy, server.failed, server.named,
                server.diagnostics)
      BY LogFields DEF Inv
    <2> QED  BY ONLY <1>1, <2>1 DEF LogIs
  <1>11. /\ server' \in ApplyLog /\ server'.left = server.left /\ server'.busy = server.busy
         /\ server'.failed = server.failed /\ server'.named = named
         /\ server'.diagnostics = rest
    <2>1. /\ server.left \in [Addresses -> Seq(Actions)] /\ server.busy \in SUBSET Addresses
          /\ server.failed \in SUBSET Addresses
      BY LogFields DEF Inv
    <2>2. rest \in Seq(LogLine) /\ named \in SUBSET Addresses  BY <1>8, <1>9
    <2> QED  BY <1>10, <2>1, <2>2 DEF LogIs, ApplyLog
  <1>12. WorkInv(page', server')  BY <1>6, <1>9, <1>11 DEF Inv, WorkInv
  <1>13. BoxesInv(page', server')
    BY <1>2, <1>4, <1>5, <1>6, <1>8, <1>11 DEF BoxesInv
  <1>14. ASSUME NEW c \in Addresses, ~ charged \/ c # a PROVE ReadAs(page', server', c)
    <2>1. ReadAs(page, server, c)  BY WorkFacts
    <2>2. Phase(server', c) = Phase(server, c)
      <3>1. c \in named <=> c \in server.named  BY <1>7, <1>14
      <3> QED  BY <3>1, <1>11 DEF Phase
    <2>3. Progress(w)[c] = Progress(page.withPlan)[c] /\ Progress(b)[c] = Progress(page.bare)[c]
      <3>1. c \in DOMAIN Progress(page.withPlan) /\ c \in DOMAIN Progress(page.bare)
        BY <1>3, ProgressTyped
      <3>2. CASE ~ charged  BY <1>4, <1>5, <3>2
      <3>3. CASE charged
        <4>1. c # a  BY <1>14, <3>3
        <4>2. /\ Progress(w) = [Progress(page.withPlan) EXCEPT ![a] = WithError(@)]
              /\ Progress(b) = [Progress(page.bare) EXCEPT ![a] = WithError(@)]
          BY <1>4, <1>5, <3>3
        <4> QED  BY <3>1, <4>1, <4>2
      <3> QED  BY <3>2, <3>3
    <2> QED  BY <2>1, <2>2, <2>3, <1>4, <1>5, <1>6, <1>11 DEF ReadAs
  <1>15. ASSUME charged PROVE a \in Addresses /\ ReadAs(page', server', a)
    <2>1. a \in Addresses /\ a \in server.failed /\ a \in named
      BY <1>3, <1>4, <1>7, <1>15
    <2>2. ReadAs(page, server, a)  BY <2>1, WorkFacts
    <2>3. Phase(server', a) = "named" /\ Phase(server, a) \in {"active", "named"}
      BY <2>1, <1>11 DEF Phase
    <2>4. a \in DOMAIN Progress(page.withPlan) /\ a \in DOMAIN Progress(page.bare)
      BY <2>1, <1>3, ProgressTyped
    <2>5. /\ Progress(w)[a] = WithError(Progress(page.withPlan)[a])
          /\ Progress(b)[a] = WithError(Progress(page.bare)[a])
      BY <1>4, <1>5, <1>15, <2>4
    <2> DEFINE known == KnownAs(page.plan[a], server.left[a], Phase(server, a))
               bare == BareAs(page.plan[a], server.left[a], Phase(server, a))
    <2>6. /\ KnownAs(page.plan[a], server.left[a], "named") = known
          /\ BareAs(page.plan[a], server.left[a], "named") = bare
      BY <2>3 DEF KnownAs, BareAs
    <2>7. /\ WithError(AsNamed(known, Phase(server, a))) = WithError(known)
          /\ WithError(AsNamed(bare, Phase(server, a))) = WithError(bare)
      <3>1. \A r : WithError(WithError(r)) = WithError(r)  BY DEF WithError, None
      <3> QED  BY <3>1 DEF AsNamed
    <2> HIDE DEF known, bare
    <2>8. /\ Progress(w)[a] = WithError(known) /\ Progress(b)[a] = WithError(bare)
      BY <2>2, <2>5, <2>7 DEF ReadAs, known, bare
    <2> QED  BY <2>1, <2>2, <2>3, <2>6, <2>8, <1>4, <1>5, <1>6, <1>11 DEF ReadAs, AsNamed
  <1>16. \A c \in Addresses : ReadAs(page', server', c)  BY <1>14, <1>15
  <1> QED  BY <1>6, <1>11, <1>12, <1>13, <1>16 DEF Inv

LEMMA Stops ==
    ASSUME Inv(page, server), StepEnds
    PROVE  Inv(page', server')
  <1> DEFINE no == FALSE
             empty == <<>>
  <1>1. /\ page' = [page EXCEPT !.isRunning = no]
        /\ server' = [server EXCEPT !.diagnostics = empty]
    BY DEF StepEnds
  <1>2. no \in BOOLEAN /\ empty \in Seq(LogLine)  OBVIOUS
  <1> HIDE DEF no, empty
  <1>3. PageIs(page', page.plan, no, page.withPlan, page.bare)
    <2>1. PageIs(page, page.plan, page.isRunning, page.withPlan, page.bare)
      BY PageFields DEF Inv
    <2> QED  BY ONLY <1>1, <1>2, <2>1 DEF PageIs
  <1>4. /\ page' \in ApplyPage /\ page'.plan = page.plan /\ page'.isRunning = no
        /\ page'.withPlan = page.withPlan /\ page'.bare = page.bare
    BY <1>2, <1>3, PageFields, PageType DEF Inv
  <1>5. LogIs(server', server.left, server.busy, server.failed, server.named, empty)
    <2>1. LogIs(server, server.left, server.busy, server.failed, server.named,
                server.diagnostics)
      BY LogFields DEF Inv
    <2> QED  BY ONLY <1>1, <2>1 DEF LogIs
  <1>6. /\ server' \in ApplyLog /\ server'.left = server.left /\ server'.busy = server.busy
        /\ server'.failed = server.failed /\ server'.named = server.named
        /\ server'.diagnostics = empty
    BY <1>2, <1>5, LogFields, LogType DEF Inv
  <1>7. WorkInv(page', server')  BY <1>4, <1>6 DEF Inv, WorkInv
  <1>8. BoxesInv(page', server')  BY <1>4, <1>6 DEF Inv, BoxesInv, no, empty
  <1>9. ASSUME NEW c \in Addresses PROVE ReadAs(page', server', c)
    <2>1. Phase(server', c) = Phase(server, c)  BY <1>6 DEF Phase
    <2> QED  BY <2>1, <1>4, <1>6, WorkFacts DEF ReadAs
  <1> QED  BY <1>4, <1>6, <1>7, <1>8, <1>9 DEF Inv
LEMMA WholeRead ==
    ASSUME NEW actions, NEW left, Whole(actions, left)
    PROVE  /\ LeftOf(actions, left) /\ left # <<>> /\ Completed(actions, left) = 0
           /\ KnownAs(actions, left, "idle")
                = IF actions = {"read"} THEN Untouched
                  ELSE [action |-> ActionLabel(actions), state |-> "pending"]
           /\ BareAs(actions, left, "idle") = Untouched
  <1>1. CASE \E x \in Actions : actions = {x} /\ left = <<x>>
    <2>1. PICK x \in Actions : actions = {x} /\ left = <<x>>  BY <1>1
    <2>2. ~ Replacing(actions)  BY <2>1 DEF Replacing
    <2>3. Len(left) = 1 /\ left # <<>>  BY <2>1, Pairs
    <2>4. LeftOf(actions, left)  BY <2>1 DEF LeftOf
    <2> QED  BY <2>2, <2>3, <2>4 DEF KnownAs, BareAs, Completed, Half
  <1>2. CASE Replacing(actions) /\ left \in {<<"delete", "create">>, <<"create", "delete">>}
    <2>1. Len(left) = 2 /\ left # <<>>  BY <1>2
    <2>2. LeftOf(actions, left)  BY <1>2 DEF LeftOf
    <2>3. ~ Half(actions, left) /\ actions # {"read"}  BY <1>2, <2>1 DEF Half, Replacing
    <2> QED  BY <1>2, <2>1, <2>2, <2>3 DEF KnownAs, BareAs, Completed
  <1> QED  BY <1>1, <1>2 DEF Whole

LEMMA ParserStarts ==
    ASSUME NEW plan \in [Addresses -> Changes]
    PROVE  LET w == ParserStart(plan)
               b == ParserStart(<<>>)
           IN  /\ w \in Parser /\ b \in Parser /\ w.block = NoBlock /\ b.block = NoBlock
               /\ \A a \in Addresses :
                    /\ w.halves[a] = 0 /\ b.halves[a] = 0 /\ b.resources[a] = Untouched
                    /\ w.resources[a] = IF plan[a] = {"read"} THEN Untouched
                         ELSE [action |-> ActionLabel(plan[a]), state |-> "pending"]
  <1> DEFINE none == [a \in Addresses |-> Untouched]
             zero == [a \in Addresses |-> 0]
             planned == [a \in Addresses |->
                 IF plan[a] = {"read"} THEN Untouched
                 ELSE [action |-> ActionLabel(plan[a]), state |-> "pending"]]
  <1>1. ParserStart(<<>>) = [resources |-> none, halves |-> zero, block |-> NoBlock]
    BY DEF ParserStart
  <1>2. ParserStart(plan) = [resources |-> planned, halves |-> zero, block |-> NoBlock]
    BY DEF ParserStart
  <1>3. Untouched \in Resource  BY DEF Untouched, Resource, Labels, States
  <1>4. \A a \in Addresses : ActionLabel(plan[a]) \in Labels
    <2>1. SUFFICES ASSUME NEW a \in Addresses PROVE ActionLabel(plan[a]) \in Labels
      OBVIOUS
    <2>2. plan[a] \in Changes  OBVIOUS
    <2> QED  BY <2>2, ActionsOf, Labelled DEF Labels, Actions
  <1>5. none \in [Addresses -> Resource] /\ zero \in [Addresses -> Nat]  BY <1>3
  <1>6. planned \in [Addresses -> Resource]
    BY <1>3, <1>4 DEF Resource, States
  <1>7. NoBlock \in Block  BY DEF Block
  <1>8. /\ \A a \in Addresses : none[a] = Untouched /\ zero[a] = 0
        /\ \A a \in Addresses : planned[a] = IF plan[a] = {"read"} THEN Untouched
              ELSE [action |-> ActionLabel(plan[a]), state |-> "pending"]
    OBVIOUS
  <1> HIDE DEF none, zero, planned
  <1>9. ParserStart(<<>>) \in Parser  BY <1>1, <1>5, <1>7 DEF Parser
  <1>10. ParserStart(plan) \in Parser  BY <1>2, <1>5, <1>6, <1>7 DEF Parser
  <1>11. /\ ParserStart(<<>>).block = NoBlock /\ ParserStart(<<>>).halves = zero
         /\ ParserStart(<<>>).resources = none
    BY <1>1
  <1>12. /\ ParserStart(plan).block = NoBlock /\ ParserStart(plan).halves = zero
         /\ ParserStart(plan).resources = planned
    BY <1>2
  <1> QED  BY <1>8, <1>9, <1>10, <1>11, <1>12

LEMMA InitInv == ApplyInit => Inv(page, server)
  <1>1. SUFFICES ASSUME ApplyInit PROVE Inv(page, server)  OBVIOUS
  <1> DEFINE Chosen(plan) ==
               [Addresses -> UNION {OperationsFor(plan[a]) : a \in Addresses}]
             Starting(plan, left) ==
          /\ \A a \in Addresses : left[a] \in OperationsFor(plan[a])
          /\ page = [kind |-> "apply", plan |-> plan, isRunning |-> TRUE,
                     withPlan |-> ParserStart(plan), bare |-> ParserStart(<<>>)]
          /\ server = [left |-> left, busy |-> {}, failed |-> {}, named |-> {},
                       diagnostics |-> <<>>]
  <1>1a. PICK plan \in Plans : \E left \in Chosen(plan) : Starting(plan, left)
    BY <1>1 DEF ApplyInit
  <1>1b. PICK left \in Chosen(plan) : Starting(plan, left)  BY <1>1a
  <1>2. Starting(plan, left) /\ left \in Chosen(plan)  BY <1>1b
  <1>3. plan \in [Addresses -> Changes]  BY PlansAssumption
  <1>4. \A a \in Addresses : Whole(plan[a], left[a])  BY <1>2, <1>3, OperationsShape
  <1>5. left \in [Addresses -> Seq(Actions)]  BY <1>4, WholeRead, LeftFacts
  <1> DEFINE w == ParserStart(plan)
             b == ParserStart(<<>>)
  <1>6. /\ w \in Parser /\ b \in Parser /\ w.block = NoBlock /\ b.block = NoBlock
        /\ \A a \in Addresses :
             /\ w.halves[a] = 0 /\ b.halves[a] = 0 /\ b.resources[a] = Untouched
             /\ w.resources[a] = IF plan[a] = {"read"} THEN Untouched
                  ELSE [action |-> ActionLabel(plan[a]), state |-> "pending"]
    BY <1>3, ParserStarts
  <1>7. /\ page.plan = plan /\ page.isRunning = TRUE /\ page.withPlan = w /\ page.bare = b
        /\ server.left = left /\ server.busy = {} /\ server.failed = {} /\ server.named = {}
        /\ server.diagnostics = <<>>
    BY <1>2
  <1> HIDE DEF w, b
  <1>8. page \in ApplyPage
    <2> DEFINE yes == TRUE
    <2>1. PageIs(page, plan, yes, w, b)  BY <1>2 DEF PageIs, w, b
    <2>2. yes \in BOOLEAN  OBVIOUS
    <2> HIDE DEF yes
    <2> QED  BY <2>1, <2>2, <1>3, <1>6, PageType
  <1>9. server \in ApplyLog
    <2> DEFINE empty == <<>>
               no == {}
    <2>1. LogIs(server, left, no, no, no, empty)  BY <1>2 DEF LogIs
    <2>2. empty \in Seq(LogLine) /\ no \in SUBSET Addresses  OBVIOUS
    <2> HIDE DEF empty, no
    <2> QED  BY <2>1, <2>2, <1>5 DEF LogIs, ApplyLog
  <1>10. WorkInv(page, server)  BY <1>4, <1>7, WholeRead DEF WorkInv
  <1>11. BoxesInv(page, server)
    BY <1>6, <1>7 DEF BoxesInv, Boxes, Closing, NoBlock
  <1>12. ASSUME NEW a \in Addresses PROVE ReadAs(page, server, a)
    <2>1. Phase(server, a) = "idle"  BY <1>7 DEF Phase
    <2>2. ~ w.block.open /\ ~ b.block.open  BY <1>6 DEF NoBlock
    <2>3. Progress(w) = w.resources /\ Progress(b) = b.resources
      BY <1>6, <2>2, ClosedBlock
    <2>4. Whole(plan[a], left[a])  BY <1>4
    <2>5. /\ w.resources[a] = KnownAs(plan[a], left[a], "idle") /\ w.halves[a] = 0
          /\ b.resources[a] = BareAs(plan[a], left[a], "idle") /\ b.halves[a] = 0
          /\ Completed(plan[a], left[a]) = 0
      BY <2>4, <1>6, WholeRead
    <2> QED  BY <2>1, <2>3, <2>5, <1>7 DEF ReadAs, AsNamed
  <1> QED  BY <1>8, <1>9, <1>10, <1>11, <1>12 DEF Inv

LEMMA StepInv == Inv(page, server) /\ [ApplyNext]_pageVars => Inv(page', server')
  <1>1. SUFFICES ASSUME Inv(page, server), [ApplyNext]_pageVars PROVE Inv(page', server')
    OBVIOUS
  <1>2. CASE \E a \in Addresses : StartOperation(a)  BY <1>1, <1>2, Starts
  <1>3. CASE \E a \in Addresses : EndOperation(a)  BY <1>1, <1>3, Ends
  <1>4. CASE \E a \in Addresses : FailOperation(a)  BY <1>1, <1>4, Fails
  <1>5. CASE Diagnose  BY <1>1, <1>5, Diagnoses
  <1>6. CASE PrintDiagnostic  BY <1>1, <1>6, Prints
  <1>7. CASE StepEnds  BY <1>1, <1>7, Stops
  <1>8. CASE UNCHANGED pageVars  BY <1>1, <1>8 DEF pageVars
  <1> QED  BY <1>1, <1>2, <1>3, <1>4, <1>5, <1>6, <1>7, <1>8 DEF ApplyNext

(* What is read of the log is what was done, for any addresses, plan and    *)
(* order of the operations.                                                 *)
THEOREM ApplyInvariant == ApplySpec => []ApplyInv
  <1>1. ApplyInit => ApplyInv  BY InitInv DEF ApplyInv
  <1>2. ApplyInv /\ [ApplyNext]_pageVars => ApplyInv'
    BY StepInv DEF ApplyInv
  <1> QED  BY <1>1, <1>2, PTL DEF ApplySpec

--------------------------------------------------------------------------------
(* What the page shows.                                                     *)
StateOf(actions, left, phase) ==
    IF phase = "named" THEN "error"
    ELSE IF actions = {"read"} THEN "absent"
    ELSE IF left = <<>> THEN "done"
    ELSE IF phase = "active" \/ Half(actions, left) THEN "running" ELSE "pending"

LEMMA StateShown ==
    ASSUME NEW p, NEW s, Inv(p, s), NEW a \in Addresses
    PROVE  /\ Progress(p.withPlan)[a].state = StateOf(p.plan[a], s.left[a], Phase(s, a))
           /\ Progress(p.withPlan)[a] = Untouched =>
                Progress(p.withPlan)[a].state = "absent"
  <1>1. Phase(s, a) \in {"idle", "active", "named"}  BY DEF Phase
  <1>2. Progress(p.withPlan)[a]
          = AsNamed(KnownAs(p.plan[a], s.left[a], Phase(s, a)), Phase(s, a))
    BY WorkFacts DEF ReadAs
  <1>3. AsNamed(KnownAs(p.plan[a], s.left[a], Phase(s, a)), Phase(s, a)).state
          = StateOf(p.plan[a], s.left[a], Phase(s, a))
    BY <1>1 DEF AsNamed, KnownAs, StateOf, WithError, Untouched
  <1>4. Untouched.state = "absent"  BY DEF Untouched
  <1> QED  BY <1>2, <1>3, <1>4

LEMMA CompleteFromInv == Inv(page, server) => CompleteIsComplete
  <1>1. SUFFICES ASSUME Inv(page, server), NEW a \in Addresses, Managed(a)
                 PROVE  Shown[a] = "done" <=> server.left[a] = <<>>
    BY DEF CompleteIsComplete
  <1> DEFINE r == Progress(page.withPlan)[a]
             phase == Phase(server, a)
  <1>2. r.state = StateOf(page.plan[a], server.left[a], phase)  BY <1>1, StateShown
  <1>3. page.plan[a] # {"read"}  BY <1>1 DEF Managed
  <1>4. r # Untouched
    <2>1. r.state # "absent"  BY <1>2, <1>3 DEF StateOf
    <2> QED  BY <2>1 DEF Untouched
  <1>5. Shown[a] = IF r.state = "running" /\ ~ page.isRunning THEN "error" ELSE r.state
    BY <1>4 DEF Shown, ProgressRows
  <1>6. phase = "named" => server.left[a] # <<>>
    BY <1>1, WorkFacts DEF Phase
  <1> HIDE DEF r, phase
  <1>7. r.state = "done" <=> server.left[a] = <<>>  BY <1>2, <1>3, <1>6 DEF StateOf
  <1>8. Shown[a] = "done" <=> r.state = "done"  BY <1>5
  <1> QED  BY <1>7, <1>8

LEMMA ErrorsFromInv == Inv(page, server) => ErrorsNameTheirResource
  <1>1. SUFFICES ASSUME Inv(page, server)
                 PROVE  {a \in DOMAIN Shown : Shown[a] = "error"} =
                          server.named \cup
                          (IF page.isRunning THEN {}
                           ELSE {a \in Addresses : Progress(page.withPlan)[a].state = "running"})
    BY DEF ErrorsNameTheirResource
  <1> DEFINE State(a) == Progress(page.withPlan)[a].state
  <1>2. \A a \in Addresses : State(a) = "error" <=> a \in server.named
    <2>1. SUFFICES ASSUME NEW a \in Addresses
                   PROVE  State(a) = "error" <=> a \in server.named
      OBVIOUS
    <2>2. State(a) = StateOf(page.plan[a], server.left[a], Phase(server, a))
      BY <1>1, StateShown
    <2>3. Phase(server, a) = "named" <=> a \in server.named  BY DEF Phase
    <2> QED  BY <2>2, <2>3 DEF StateOf
  <1>3. DOMAIN Shown = {b \in Addresses : Progress(page.withPlan)[b] # Untouched}
    BY DEF Shown, ProgressRows
  <1>4. \A a \in DOMAIN Shown :
          Shown[a] = IF State(a) = "running" /\ ~ page.isRunning THEN "error" ELSE State(a)
    BY DEF Shown, ProgressRows
  <1>5. \A a \in Addresses : State(a) \in {"error", "running"} => a \in DOMAIN Shown
    <2>1. \A a \in Addresses : Progress(page.withPlan)[a] = Untouched => State(a) = "absent"
      BY <1>1, StateShown
    <2> QED  BY <2>1, <1>3
  <1>6. server.named \subseteq Addresses  BY <1>1, LogFields DEF Inv
  <1> HIDE DEF State
  <1>7. CASE page.isRunning
    <2>1. \A a \in DOMAIN Shown : Shown[a] = State(a)  BY <1>4, <1>7
    <2>2. {a \in DOMAIN Shown : Shown[a] = "error"} = server.named
      BY <2>1, <1>2, <1>3, <1>5, <1>6
    <2> QED  BY <2>2, <1>7
  <1>8. CASE ~ page.isRunning
    <2>1. \A a \in DOMAIN Shown : Shown[a] = IF State(a) = "running" THEN "error" ELSE State(a)
      BY <1>4, <1>8
    <2>2. {a \in DOMAIN Shown : Shown[a] = "error"}
            = server.named \cup {a \in Addresses : State(a) = "running"}
      BY <2>1, <1>2, <1>3, <1>5, <1>6
    <2> QED  BY <2>2, <1>8 DEF State
  <1> QED  BY <1>7, <1>8

LEMMA PlanFromInv == Inv(page, server) => PlanMakesNoDifference
  <1>1. SUFFICES ASSUME Inv(page, server), NEW a \in Addresses
                 PROVE  LET bare == Progress(page.bare)[a]
                            known == Progress(page.withPlan)[a]
                        IN  /\ server.left[a] = <<>> => bare = known
                            /\ a \in server.named => bare.state = known.state
    BY DEF PlanMakesNoDifference
  <1> DEFINE actions == page.plan[a]
             left == server.left[a]
             phase == Phase(server, a)
  <1>2. /\ Progress(page.withPlan)[a] = AsNamed(KnownAs(actions, left, phase), phase)
        /\ Progress(page.bare)[a] = AsNamed(BareAs(actions, left, phase), phase)
    BY <1>1, WorkFacts DEF ReadAs
  <1>3. left = <<>> => KnownAs(actions, left, phase) = BareAs(actions, left, phase)
    BY DEF KnownAs, BareAs
  <1>4. a \in server.named => phase = "named"  BY DEF Phase
  <1>5. \A r : AsNamed(r, "named").state = "error"  BY DEF AsNamed, WithError
  <1> HIDE DEF actions, left, phase
  <1> QED  BY <1>2, <1>3, <1>4, <1>5 DEF left

(* With the plan, exactly the resources that are done are shown complete.   *)
THEOREM CompleteExactly == ApplySpec => []CompleteIsComplete
  <1>1. ApplyInv => CompleteIsComplete  BY CompleteFromInv DEF ApplyInv
  <1> QED  BY <1>1, ApplyInvariant, PTL

(* While it runs, exactly the resources an error has named are shown failed.*)
THEOREM ErrorsExactly == ApplySpec => []ErrorsNameTheirResource
  <1>1. ApplyInv => ErrorsNameTheirResource  BY ErrorsFromInv DEF ApplyInv
  <1> QED  BY <1>1, ApplyInvariant, PTL

(* Without the plan, the page shows the same of what was worked on.         *)
THEOREM SameWithoutPlan == ApplySpec => []PlanMakesNoDifference
  <1>1. ApplyInv => PlanMakesNoDifference  BY PlanFromInv DEF ApplyInv
  <1> QED  BY <1>1, ApplyInvariant, PTL

--------------------------------------------------------------------------------
(* A step moves a resource forward.                                         *)
Forward(left, next, phase, phase2) ==
    \/ phase2 = "named"
    \/ phase # "named" /\ next = left /\ (phase = "active" => phase2 = "active")
    \/ phase # "named" /\ left # <<>> /\ next = Tail(left)

Phases == {"idle", "active", "named"}

LEMMA Ranks ==
    /\ StateRank["absent"] = 0 /\ StateRank["pending"] = 0 /\ StateRank["running"] = 1
    /\ StateRank["done"] = 2 /\ StateRank["error"] = 2
  BY DEF StateRank

LEMMA ForwardRank ==
    ASSUME NEW actions, NEW left, NEW next, NEW phase \in Phases, NEW phase2 \in Phases,
           LeftOf(actions, left), Forward(left, next, phase, phase2)
    PROVE  StateRank[StateOf(actions, left, phase)] <= StateRank[StateOf(actions, next, phase2)]
  <1> DEFINE before == StateOf(actions, left, phase)
             after == StateOf(actions, next, phase2)
  <1> SUFFICES StateRank[before] <= StateRank[after]  OBVIOUS
  <1>1. before \in States /\ after \in States  BY DEF StateOf, States
  <1>2. CASE phase2 = "named"
    <2>1. after = "error"  BY <1>2 DEF StateOf
    <2> HIDE DEF before, after
    <2> QED  BY <2>1, <1>1, Ranks DEF States
  <1>3. CASE phase2 # "named" /\ phase # "named" /\ actions = {"read"}
    <2>1. before = "absent" /\ after = "absent"  BY <1>3 DEF StateOf
    <2> HIDE DEF before, after
    <2> QED  BY <2>1, Ranks
  <1>4. CASE phase2 # "named" /\ phase # "named" /\ actions # {"read"} /\ next = left
    <2>1. phase = "active" => phase2 = "active"
      <3>1. left # <<>> /\ next = Tail(left) => FALSE
        <4>1. SUFFICES ASSUME left # <<>>, left = Tail(left) PROVE FALSE  BY <1>4
        <4>2. left \in Seq(Actions)  BY LeftFacts
        <4>3. Len(Tail(left)) = Len(left) - 1 /\ Len(left) \in Nat /\ Len(left) # 0
          BY <4>1, <4>2, EmptySeq, HeadTailProperties
        <4> QED  BY <4>1, <4>3
      <3> QED  BY <3>1, <1>4 DEF Forward
    <2>2. \/ before = after
          \/ before = "pending"
      BY <1>4, <2>1 DEF StateOf
    <2> HIDE DEF before, after
    <2> QED  BY <2>2, <1>1, Ranks DEF States
  <1>5. CASE phase2 # "named" /\ phase # "named" /\ actions # {"read"} /\ left # <<>>
             /\ next = Tail(left)
    <2>1. before \in {"pending", "running"}  BY <1>5 DEF StateOf
    <2>2. next = <<>> \/ Half(actions, next)
      <3>1. CASE \E x \in Actions : actions = {x} /\ left = <<x>>  BY <1>5, <3>1, Pairs
      <3>2. ASSUME NEW x, NEW y, Two(actions, left, x, y) PROVE Half(actions, next)
        <4>1. next = <<y>> /\ Len(<<y>>) = 1  BY <1>5, <3>2, Pairs DEF Two
        <4> QED  BY <3>2, <4>1 DEF Two, Half
      <3>3. ASSUME NEW x, Last(actions, left, x) PROVE next = <<>>
        BY <1>5, <3>3, Pairs DEF Last
      <3> QED  BY <1>5, <3>1, <3>2, <3>3, LeftCases
    <2>3. after \in {"done", "running"}  BY <1>5, <2>2 DEF StateOf
    <2> HIDE DEF before, after
    <2> QED  BY <2>1, <2>3, Ranks
  <1> QED  BY <1>2, <1>3, <1>4, <1>5 DEF Forward

LEMMA StepForward ==
    ASSUME Inv(page, server), [ApplyNext]_pageVars, NEW a \in Addresses
    PROVE  /\ page'.plan = page.plan
           /\ Forward(server.left[a], server'.left[a], Phase(server, a), Phase(server', a))
  <1> DEFINE Same == /\ server'.left[a] = server.left[a]
                     /\ a \in server.busy \cup server.failed
                           => a \in server'.busy \cup server'.failed
             Keeps == a \in server.named => a \in server'.named
             Moves == /\ server.left[a] # <<>> /\ server'.left[a] = Tail(server.left[a])
                      /\ a \notin server.named
  <1>1. PageIs(page, page.plan, page.isRunning, page.withPlan, page.bare)
    BY PageFields DEF Inv
  <1>2. \A line : Emit(line) => page'.plan = page.plan
    BY <1>1 DEF Emit, PageIs
  <1>3. LogIs(server, server.left, server.busy, server.failed, server.named,
              server.diagnostics)
    BY LogFields DEF Inv
  <1>4. ASSUME NEW c \in Addresses, StartOperation(c)
        PROVE  page'.plan = page.plan /\ Keeps /\ Same
    BY <1>2, <1>3, <1>4 DEF StartOperation, LogIs
  <1>5. ASSUME NEW c \in Addresses, EndOperation(c)
        PROVE  page'.plan = page.plan /\ Keeps /\ (Same \/ Moves)
    <2> DEFINE left == [server.left EXCEPT ![c] = Tail(server.left[c])]
               busy == server.busy \ {c}
    <2>1. server' = [server EXCEPT !.busy = busy, !.left = left] /\ c \in server.busy
      BY <1>5, LogFields DEF EndOperation, Inv
    <2>2. page'.plan = page.plan  BY <1>5, <1>2 DEF EndOperation
    <2>3. server.left[c] # <<>> /\ c \notin server.named
      BY <2>1, WorkFacts
    <2> HIDE DEF left, busy
    <2>4. /\ server'.left = left /\ server'.busy = busy /\ server'.failed = server.failed
          /\ server'.named = server.named
      BY <2>1, <1>3 DEF LogIs
    <2>5. left[a] = IF a = c THEN Tail(server.left[c]) ELSE server.left[a]
      BY LogFields DEF Inv, left
    <2>6. a # c => (a \in busy <=> a \in server.busy)  BY DEF busy
    <2> QED  BY <2>2, <2>3, <2>4, <2>5, <2>6
  <1>6. ASSUME NEW c \in Addresses, FailOperation(c)
        PROVE  page'.plan = page.plan /\ Keeps /\ Same
    BY <1>3, <1>6 DEF FailOperation, LogIs
  <1>7. ASSUME Diagnose PROVE page'.plan = page.plan /\ Keeps /\ Same
    BY <1>3, <1>7 DEF Diagnose, LogIs
  <1>8. ASSUME PrintDiagnostic PROVE page'.plan = page.plan /\ Keeps /\ Same
    BY <1>2, <1>3, <1>8 DEF PrintDiagnostic, LogIs
  <1>9. ASSUME StepEnds PROVE page'.plan = page.plan /\ Keeps /\ Same
    BY <1>1, <1>3, <1>9 DEF StepEnds, LogIs, PageIs
  <1>10. ASSUME UNCHANGED pageVars PROVE page'.plan = page.plan /\ Keeps /\ Same
    BY <1>10 DEF pageVars
  <1>11. page'.plan = page.plan /\ Keeps /\ (Same \/ Moves)
    BY <1>4, <1>5, <1>6, <1>7, <1>8, <1>9, <1>10 DEF ApplyNext
  <1>12. CASE a \in server'.named  BY <1>11, <1>12 DEF Phase, Forward
  <1>13. CASE a \notin server'.named
    <2>1. Phase(server, a) # "named" /\ a \notin server.named  BY <1>11, <1>13 DEF Phase
    <2>2. Same => (Phase(server, a) = "active" => Phase(server', a) = "active")
      BY <1>13, <2>1 DEF Phase
    <2> QED  BY <1>11, <2>1, <2>2 DEF Forward
  <1> QED  BY <1>12, <1>13

(* As the log grows, no resource falls back.                                *)
THEOREM ProgressForward == ApplySpec => ProgressNeverFallsBack
  <1>1. ApplyInv /\ ApplyInv' /\ [ApplyNext]_pageVars =>
          [On("apply") /\ On("apply")' =>
             \A a \in Addresses :
               StateRank[Progress(page.withPlan)[a].state]
                   <= StateRank[Progress(page'.withPlan)[a].state]]_pageVars
    <2>1. SUFFICES ASSUME Inv(page, server), Inv(page', server'), [ApplyNext]_pageVars,
                          NEW a \in Addresses
                   PROVE  StateRank[Progress(page.withPlan)[a].state]
                              <= StateRank[Progress(page'.withPlan)[a].state]
      BY DEF ApplyInv
    <2>2. /\ page'.plan = page.plan
          /\ Forward(server.left[a], server'.left[a], Phase(server, a), Phase(server', a))
      BY <2>1, StepForward
    <2>3. LeftOf(page.plan[a], server.left[a])  BY <2>1, WorkFacts
    <2>4. Phase(server, a) \in Phases /\ Phase(server', a) \in Phases
      BY DEF Phase, Phases
    <2>5. Progress(page.withPlan)[a].state
            = StateOf(page.plan[a], server.left[a], Phase(server, a))
      BY <2>1, StateShown
    <2>6. Progress(page'.withPlan)[a].state
            = StateOf(page.plan[a], server'.left[a], Phase(server', a))
      BY <2>1, <2>2, StateShown
    <2> QED  BY <2>2, <2>3, <2>4, <2>5, <2>6, ForwardRank
  <1> QED  BY <1>1, ApplyInvariant, PTL DEF ApplySpec, ProgressNeverFallsBack
================================================================================
