------------------------------ MODULE MCFanOut ------------------------------
(***************************************************************************)
(* A plan with every kind of fan-out:                                      *)
(*   reserve, score (map over the input, with a cached session),           *)
(*   block || left:  enrich, inner || deep: charge || deeper: settle       *)
(*         || right: triage (map over score's output), notify              *)
(*   report                                                                *)
(* and, where the run declares it, a gate after block that cancels the run *)
(* when nobody decides.  The run fixes the sizes of the maps and the       *)
(* failures that are switched on.                                          *)
(***************************************************************************)
EXTENDS WorkflowRun

CONSTANTS ScoreItems, TriageItems

MCSteps == {"reserve", "score", "block", "enrich", "inner", "charge", "settle",
            "triage", "notify", "report"}
MCBranches == {"left", "right", "deep", "deeper"}
MCBody ==
  [t \in {"main"} \cup MCBranches |->
     CASE t = "main"   -> <<"reserve", "score", "block", "report">>
       [] t = "left"   -> <<"enrich", "inner">>
       [] t = "deep"   -> <<"charge">>
       [] t = "deeper" -> <<"settle">>
       [] t = "right"  -> <<"triage", "notify">>]
MCKind ==
  [s \in MCSteps |-> CASE s \in {"block", "inner"} -> "parallel"
                       [] s = "score" -> "map"
                       [] s = "triage" -> "subworkflowMap"
                       [] s = "settle" -> "subworkflow"
                       [] OTHER -> "activity"]
MCBranchesOf ==
  [s \in MCSteps |-> CASE s = "block" -> {"left", "right"}
                       [] s = "inner" -> {"deep", "deeper"}
                       [] OTHER -> {}]
MCOver == [s \in MCSteps |-> IF s = "triage" THEN "score" ELSE "input"]
MCSize == [s \in MCSteps |-> CASE s = "score" -> ScoreItems
                               [] s = "triage" -> TriageItems [] OTHER -> 0]
MCConcurrency == [s \in MCSteps |-> IF s = "score" THEN 2 ELSE 1]

MCDecisions == {"approve"}
MCAfterStep == [g \in Gates |-> "block"]
MCUserDecisions == [g \in Gates |-> [d \in MCDecisions |-> "report"]]
MCOnTimeout == [g \in Gates |-> "cancel"]
MCTimeoutRoute == [g \in Gates |-> Null]

\* What a skip of this plan leaves out, it leaves out whole.
ASSUME PlanSkipsWhole == SkipsWhole
=============================================================================
