----------------------------- MODULE MCVersions -----------------------------
(***************************************************************************)
(* A workflow with a label v1 that was edited (old, edited) and a version  *)
(* v2.  A runtime still has the old graph, two control planes have the     *)
(* edited one, and parents start children of v2.                           *)
(***************************************************************************)
EXTENDS Versions, TLC

MCWorkflow == [g \in Graphs |-> "Triage"]
MCLabel == [g \in Graphs |-> IF g = "next" THEN "v2" ELSE "v1"]
MCGraph ==
  [c \in Callers |-> CASE c = "worker" -> "old" [] c = "parent" -> "next" [] OTHER -> "edited"]
MCKind ==
  [c \in Callers |-> CASE c = "worker" -> "runtime" [] c = "parent" -> "parent"
                       [] OTHER -> "controlPlane"]
MCSymmetry ==
  {ids @@ planes : ids \in Permutations(WorkflowIds),
                   planes \in Permutations(Callers \ {"worker", "parent"})}
=============================================================================
