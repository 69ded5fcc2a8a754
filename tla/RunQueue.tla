-------------------------------- MODULE RunQueue --------------------------------
(****************************************************************************)
(* What terrakubed promises about the runs of a workspace, whatever tables, *)
(* replicas and processes it is built of.  Runs are worked on in the order  *)
(* of their creation, one at a time per workspace; a run's steps are handed *)
(* over in ascending order, each once and one at a time; a step behind an   *)
(* approval gate waits for the decision; a run that is over stays over.     *)
(****************************************************************************)
EXTENDS Naturals

CONSTANTS Runs,         \* a set of naturals, in the order of creation
          Steps,        \* step numbers
          Place,        \* Place[i]: the workspace of run i
          Gates,        \* Gates[i]: the approval steps of run i
          Unattended    \* runs that need no approval

VARIABLES phase,        \* "absent", "open", "deciding" or "over"
          started,      \* started[i]: the steps handed over
          busy,         \* busy[i]: the steps being worked on
          approved      \* the runs somebody approved

abstractVars == <<phase, started, busy, approved>>

Init ==
    /\ phase = [i \in Runs |-> "absent"]
    /\ started = [i \in Runs |-> {}]
    /\ busy = [i \in Runs |-> {}]
    /\ approved = {}

Arrive(i) ==
    /\ phase[i] = "absent"
    /\ phase' = [phase EXCEPT ![i] = "open"]
    /\ UNCHANGED <<started, busy, approved>>

(* A step is handed over; nobody may take it, and then the run will fail.   *)
HandOver(i, n) ==
    /\ phase[i] = "open"
    /\ \A k \in Runs : Place[k] = Place[i] =>
          /\ busy[k] = {}
          /\ k < i => phase[k] \in {"absent", "over"}
    /\ \A m \in started[i] : m < n
    /\ (\E g \in Gates[i] : g < n) => i \in approved \cup Unattended
    /\ started' = [started EXCEPT ![i] = @ \cup {n}]
    /\ busy' \in {busy, [busy EXCEPT ![i] = {n}]}
    /\ UNCHANGED <<phase, approved>>

(* Work on the step ends, and may end the run.                              *)
Leave(i) ==
    /\ busy[i] # {}
    /\ busy' = [busy EXCEPT ![i] = {}]
    /\ phase' \in {phase, [phase EXCEPT ![i] = "over"]}
    /\ UNCHANGED <<started, approved>>

Park(i) ==
    /\ phase[i] = "open"
    /\ busy[i] = {}
    /\ phase' = [phase EXCEPT ![i] = "deciding"]
    /\ UNCHANGED <<started, busy, approved>>

(* The decision: approval may be noted before the run goes on.              *)
Approve(i) ==
    /\ phase[i] = "deciding"
    /\ approved' = approved \cup {i}
    /\ phase' \in {phase, [phase EXCEPT ![i] = "open"]}
    /\ UNCHANGED <<started, busy>>

Reject(i) ==
    /\ phase[i] = "deciding"
    /\ phase' = [phase EXCEPT ![i] = "over"]
    /\ UNCHANGED <<started, busy, approved>>

End(i) ==
    /\ phase[i] = "open"
    /\ busy[i] = {}
    /\ phase' = [phase EXCEPT ![i] = "over"]
    /\ UNCHANGED <<started, busy, approved>>

Next ==
    \E i \in Runs :
        \/ Arrive(i) \/ Leave(i) \/ Park(i) \/ Approve(i) \/ Reject(i) \/ End(i)
        \/ \E n \in Steps : HandOver(i, n)

Spec == Init /\ [][Next]_abstractVars
================================================================================
