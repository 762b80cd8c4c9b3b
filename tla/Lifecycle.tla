----------------------------- MODULE Lifecycle -----------------------------
(***************************************************************************)
(* The LifecycleRuntime of temporal-yaml/src/lifecycle.ts: the status a    *)
(* workflow run reports (state, progress units, cancellation, review       *)
(* gates, terminal status) and the methods the interpreter and the signal  *)
(* handlers call on it.  The object is passive, so it is one record and    *)
(* every method is an operator from a record to the next one; WorkflowRun  *)
(* holds the record and composes the calls of one handler.                 *)
(*                                                                         *)
(* Left out: the event ring buffer, timestamps, reasons and the wire       *)
(* encoding.  reviewSignalSequence is compared only with the sequence the  *)
(* waiting gate last observed, so it is the Boolean "signalled".  openSeq  *)
(* orders gates that wait together; OneGateWaits shows there never are two.*)
(* Operators marked "Bug:" are what the next definition would be with a    *)
(* plausible mistake; they validate the properties and are used nowhere.   *)
(***************************************************************************)
EXTENDS Integers, FiniteSets

CONSTANTS
  Steps,           \* step ids of the plan, those of branches included
  Gates,           \* the review gates of plan.lifecycle
  Decisions,       \* user_decision strings a reviewer may send
  AfterStep,       \* the step each gate follows
  UserDecisions,   \* gate -> decision -> route step, Null for an unknown decision
  FailOnInvalid,   \* gates with invalid_user_decision: fail
  OnTimeout,       \* gate -> "never" (no timeout) or its on_timeout action
  TimeoutRoute,    \* gate -> route step of an on_timeout: route gate, else Null
  Cancellation     \* plan.lifecycle.cancellation

Null == "null"

ASSUME LifecycleAssumption ==
  /\ Null \notin Steps
  /\ AfterStep \in [Gates -> Steps]
  /\ \A g, h \in Gates : AfterStep[g] = AfterStep[h] => g = h
  /\ UserDecisions \in [Gates -> [Decisions -> Steps \cup {Null}]]
  /\ FailOnInvalid \subseteq Gates
  /\ OnTimeout \in [Gates -> {"never", "fail", "cancel", "route"}]
  /\ TimeoutRoute \in [Gates -> Steps \cup {Null}]
  /\ \A g \in Gates : OnTimeout[g] = "route" <=> TimeoutRoute[g] # Null
  /\ Cancellation \in BOOLEAN
-----------------------------------------------------------------------------
StateNames == {"pending", "running", "waiting_for_review", "cancelling",
               "completed", "failed", "cancelled"}

GateState == [waiting : BOOLEAN, routeTarget : Steps \cup {Null},
              fired : BOOLEAN, invalidFailed : BOOLEAN]

LifecycleState ==
  [state : StateNames, cancellationRequested : BOOLEAN,
   completedUnits : Nat, totalUnits : Nat,
   waitingCheckpoint : Steps \cup {Null}, reviewRouteTarget : Steps \cup {Null},
   signalled : BOOLEAN, gate : [Gates -> GateState],
   terminalStatus : {Null, "completed", "failed", "cancelled"},
   compensationStatus : {Null, "none", "partial", "complete"}]

NewLifecycle ==
  [state |-> "pending", cancellationRequested |-> FALSE,
   completedUnits |-> 0, totalUnits |-> 0,
   waitingCheckpoint |-> Null, reviewRouteTarget |-> Null, signalled |-> FALSE,
   gate |-> [g \in Gates |-> [waiting |-> FALSE, routeTarget |-> Null,
                              fired |-> FALSE, invalidFailed |-> FALSE]],
   terminalStatus |-> Null, compensationStatus |-> Null]
-----------------------------------------------------------------------------
Started(l) == [l EXCEPT !.state = "running"]

AddUnits(l, n) == [l EXCEPT !.totalUnits = @ + n]

UnitCompleted(l) == [l EXCEPT !.completedUnits = @ + 1]

\* The total shrinks by what a skip leaves out, never below what is completed.
SkipUnits(l, n) ==
  [l EXCEPT !.totalUnits =
     IF n = 0 THEN @
     ELSE IF @ - n > l.completedUnits THEN @ - n ELSE l.completedUnits]

RequestCancelled(l) ==
  IF Cancellation
  THEN [l EXCEPT !.cancellationRequested = TRUE, !.state = "cancelling"]
  ELSE l
-----------------------------------------------------------------------------
WaitingGates(l) == {g \in Gates : l.gate[g].waiting}

RefreshWaiting(l) ==
  IF WaitingGates(l) # {}
  THEN [l EXCEPT !.state = "waiting_for_review",
                 !.waitingCheckpoint = AfterStep[CHOOSE g \in WaitingGates(l) : TRUE]]
  ELSE [l EXCEPT !.state = IF @ = "waiting_for_review" THEN "running" ELSE @,
                 !.waitingCheckpoint = Null]

PendingGatesAfter(l, s) == {g \in Gates : AfterStep[g] = s /\ ~l.gate[g].fired}

\* Entering the gate also makes the interpreter observe the signal sequence.
WaitingForGate(l, g) ==
  RefreshWaiting([l EXCEPT !.gate[g].waiting = TRUE, !.signalled = FALSE])

\* Bug: a routed gate is not closed.
GateRoutedStillWaiting(l, g) ==
  RefreshWaiting([l EXCEPT !.gate[g].fired = TRUE,
                           !.reviewRouteTarget = l.gate[g].routeTarget])

GateRouted(l, g) ==
  RefreshWaiting([l EXCEPT !.gate[g].waiting = FALSE, !.gate[g].fired = TRUE,
                           !.reviewRouteTarget = l.gate[g].routeTarget])

\* The gate a submit_review command names (Null: the command names none).
TargetGates(l, named) ==
  IF named # Null THEN {g \in Gates : g = named /\ ~l.gate[g].fired}
  ELSE IF Cardinality(Gates) = 1 THEN Gates
  ELSE IF Cardinality(WaitingGates(l)) = 1 THEN WaitingGates(l)
  ELSE {}

InvalidDecision(l, g) ==
  [l EXCEPT !.signalled = TRUE,
            !.gate[g].invalidFailed = @ \/ g \in FailOnInvalid]

\* A command that parses: an untargetable one only wakes the waiting gate.
SubmittedReview(l, named, d) ==
  IF TargetGates(l, named) = {} THEN [l EXCEPT !.signalled = TRUE]
  ELSE LET g == CHOOSE h \in TargetGates(l, named) : TRUE
       IN  IF UserDecisions[g][d] = Null THEN InvalidDecision(l, g)
           ELSE [l EXCEPT !.signalled = TRUE,
                          !.gate[g].routeTarget = UserDecisions[g][d],
                          !.reviewRouteTarget = UserDecisions[g][d]]

\* A malformed command trips the fail policy only of a sole gate.
SubmittedMalformed(l) ==
  IF Cardinality(Gates) = 1 THEN InvalidDecision(l, CHOOSE g \in Gates : TRUE)
  ELSE [l EXCEPT !.signalled = TRUE]

GateClosed(l, g) ==
  LET closed == [l EXCEPT !.gate[g].waiting = FALSE, !.gate[g].fired = TRUE]
  IN  [closed EXCEPT !.waitingCheckpoint =
         IF WaitingGates(closed) = {} THEN Null
         ELSE AfterStep[CHOOSE h \in WaitingGates(closed) : TRUE]]

GateTimedOut(l, g) ==
  LET closed == GateClosed(l, g)
  IN  CASE OnTimeout[g] = "route" ->
             RefreshWaiting([closed EXCEPT !.gate[g].routeTarget = TimeoutRoute[g],
                                           !.reviewRouteTarget = TimeoutRoute[g]])
        [] OnTimeout[g] = "cancel" ->
             [closed EXCEPT !.cancellationRequested = TRUE, !.state = "cancelling"]
        [] OTHER ->
             [closed EXCEPT !.state = "failed", !.terminalStatus = "failed"]
-----------------------------------------------------------------------------
InvalidReviewFailed(l) ==
  [l EXCEPT !.state = "failed", !.terminalStatus = "failed"]

Completed(l) == [l EXCEPT !.state = "completed", !.terminalStatus = "completed"]

CancelledWith(l, status) ==
  [l EXCEPT !.compensationStatus = status,
            !.state = "cancelled", !.terminalStatus = "cancelled"]

\* Bug: the outcome of the unwind is mistaken for a recorded failure.
FailedOnlyNoted(l, status) ==
  [l EXCEPT !.compensationStatus = IF @ = Null THEN status ELSE @]

\* The re-entry guard: a run whose terminal status is set only gains the outcome.
FailedWith(l, status) ==
  LET noted == [l EXCEPT !.compensationStatus = IF @ = Null THEN status ELSE @]
  IN  IF l.terminalStatus # Null THEN noted
      ELSE [noted EXCEPT !.state = "failed", !.terminalStatus = "failed"]
=============================================================================
