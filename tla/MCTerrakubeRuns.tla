----------------------------- MODULE MCTerrakubeRuns -----------------------------
(****************************************************************************)
(* Values for the constants of TerrakubeRuns: templates, jobs, workspaces.  *)
(****************************************************************************)
EXTENDS TerrakubeRuns, TLC

CONSTANTS r1, r2, w1, w2

ReplicaSymmetry == Permutations(Replicas)

(* Templates number their steps 100, 150, 200.                              *)
Template(first, second, third) ==
    [n \in StepNumbers |->
        CASE n = 100 -> first [] n = 150 -> second [] n = 200 -> third]

PlanOnly    == Template("terraformPlan", "absent", "absent")
GatedApply  == Template("terraformPlan", "approval", "terraformApply")
ScriptRun   == Template("notExecuted", "absent", "customScripts")

(* Two workspaces: a gated run and a script on w1, an auto-apply run on w2. *)
WorkspacesOfThree == [j \in Jobs |-> IF j = 2 THEN w2 ELSE w1]
FlowsOfThree == [j \in Jobs |-> IF j = 3 THEN ScriptRun ELSE GatedApply]

(* One workspace: a gated run, then a plan.                                 *)
OneWorkspace == [j \in Jobs |-> w1]
GatedThenPlan == [j \in Jobs |-> IF j = 1 THEN GatedApply ELSE PlanOnly]
================================================================================
