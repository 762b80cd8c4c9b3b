------------------------------ MODULE MCReview ------------------------------
(***************************************************************************)
(* A sequential plan with three review gates, in the shape of the example  *)
(* of docs/yaml.md "Multiple review gates":                                *)
(*   book, intake gate, screen (map over the input), escalate, compliance  *)
(*   gate, audit (skipped when its when: is false), signoff gate, finalize *)
(* The intake gate routes to screen or escalate and, on its timeout, to    *)
(* finalize; the compliance gate to audit or finalize, and fails the run   *)
(* on its timeout or an invalid decision; the signoff gate waits for ever. *)
(* book, screen and escalate have compensations.                           *)
(***************************************************************************)
EXTENDS WorkflowRun

MCSteps == {"book", "screen", "escalate", "audit", "finalize"}
MCDecisions == {"approve", "escalate", "typo"}
MCAfterStep ==
  [g \in Gates |-> CASE g = "intake" -> "book" [] g = "compliance" -> "escalate" [] OTHER -> "audit"]
MCRoutes ==
  [intake     |-> [approve |-> "screen", escalate |-> "escalate", typo |-> Null],
   compliance |-> [approve |-> "audit", escalate |-> "finalize", typo |-> Null],
   signoff    |-> [approve |-> "finalize", escalate |-> Null, typo |-> Null]]
MCUserDecisions == [g \in Gates |-> MCRoutes[g]]
MCOnTimeout ==
  [g \in Gates |-> CASE g = "intake" -> "route" [] g = "compliance" -> "fail" [] OTHER -> "never"]
MCTimeoutRoute == [g \in Gates |-> IF g = "intake" THEN "finalize" ELSE Null]

MCBody == [t \in {"main"} |-> <<"book", "screen", "escalate", "audit", "finalize">>]
MCKind == [s \in MCSteps |-> IF s = "screen" THEN "map"
                             ELSE IF s = "audit" THEN "subworkflow" ELSE "activity"]
MCBranchesOf == [s \in MCSteps |-> {}]
MCOver == [s \in MCSteps |-> "input"]
MCSize == [s \in MCSteps |-> IF s = "screen" THEN 2 ELSE 0]
MCConcurrency == [s \in MCSteps |-> 1]

\* What a skip of this plan leaves out, it leaves out whole.
ASSUME PlanSkipsWhole == SkipsWhole
=============================================================================
