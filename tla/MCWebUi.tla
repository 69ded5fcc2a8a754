--------------------------------- MODULE MCWebUi ---------------------------------
(****************************************************************************)
(* Values for the constants of WebUi, and the connections page by itself.   *)
(****************************************************************************)
EXTENDS WebUi, TLC

(* A replacement beside any of three plans and a read or an update.         *)
SmallPlans ==
    {"i" :> {"delete", "create"} @@ "b" :> b @@ "d" :> d :
        b \in {{"create"}, {"delete", "create"}, {"delete"}}, d \in {{"read"}, {"update"}}}

(* Lists and objects of up to two members, as set, added, removed, changed  *)
(* or becoming known after the apply only.                                  *)
Prim(x) == [prim |-> x]
Arr(s) == [arr |-> s]
Obj(f) == [obj |-> f]
P == {Prim("a"), Prim("s1"), Prim("s2")}
Unnamed == {Obj("v" :> p) : p \in P}
Named == {Obj("name" :> Prim(n) @@ "v" :> p) : n \in {"x", "y"}, p \in P}
ListsOf(S) == {Arr(<<>>)} \cup {Arr(<<x>>) : x \in S} \cup {Arr(<<x, y>>) : x, y \in S}
Objects == {Obj("w" :> p) : p \in P} \cup {Obj("w" :> p @@ "u" :> q) : p \in P, q \in P}
Kinds == {P, ListsOf(P), ListsOf(Unnamed), ListsOf(Named), Objects}

Attribute(S) == {<<Obj("k" :> b), Obj("k" :> a)>> : b, a \in S}
BecomesUnknown(S) == {<<Obj("k" :> b), Obj("k" :> Prim("later"))>> : b \in S}
Added(S) ==
    {<<Obj("z" :> [is |-> "null"]), Obj("z" :> [is |-> "null"] @@ "k" :> a)>> : a \in S \ {Arr(<<>>)}}
Removed(S) == {<<p[2], p[1]>> : p \in Added(S)}

SmallPairs == UNION {Attribute(S) \cup Added(S) \cup Removed(S) : S \in Kinds}
              \cup UNION {BecomesUnknown(S) : S \in Kinds \ {ListsOf(P)}}

Planned(n, action) == [address |-> n, action |-> action,
                      before |-> Obj("k" :> Prim("a")), after |-> Obj("k" :> Prim("a"))]
SmallPlanOutputs == {<<Planned("r", "update"), Planned("d", "read")>>, <<Planned("d", "read")>>,
                     <<Planned("r", "create"), Planned("q", "delete")>>}

(* A state with modules one and three deep and a secret, then one that only *)
(* a raw state can show.                                                    *)
TwoStates == << [resources |-> {0, 2, 3}, outputs |-> {"secret"}],
                [resources |-> {3}, outputs |-> {}] >>

(* The page writes two expressions, another client one.                     *)
TwoQuartz == <<"q1", "q2">>

(* A pre-release has the number of its release.                             *)
ThreeTags == "1.0.0" :> 1 @@ "2.0.0" :> 2 @@ "2.0.0-rc" :> 2

(* A credential demands two things of a token.                              *)
TwoConditions == <<"repository_owner", "ref">>

(* The connections page by itself.                                          *)
VcsSpec == VcsInit /\ [][VcsNext]_pageVars
================================================================================
