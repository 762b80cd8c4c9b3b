------------------------- MODULE WorkflowRunProofs -------------------------
(***************************************************************************)
(* Theorems about every execution of the interpreter, for every plan that  *)
(* satisfies the assumptions of WorkflowRun.  Type correctness comes       *)
(* first, with the lifecycle record and the fan-outs; then the review      *)
(* gates, the terminal status and what is in flight when the unwind        *)
(* begins; then the order in which steps are reached, the stack of         *)
(* compensations, and that the interpreter implements Saga; what is left   *)
(* of that when work is in flight or paths fail; and, with the tree of the *)
(* plan, that the progress total adds up.                                  *)
(***************************************************************************)
EXTENDS WorkflowRun, SequenceTheorems, FiniteSetTheorems, TLAPS
-----------------------------------------------------------------------------
(* Every method of the LifecycleRuntime keeps the type of its state, and   *)
(* keeps a gate that has fired closed and the routes to those declared.    *)

\* A gate that has fired does not wait.
FiredGatesClosed(l) == \A g \in Gates : l.gate[g].fired => ~l.gate[g].waiting

\* The gates fired so far stay fired.
KeepsFired(l, m) == \A g \in Gates : l.gate[g].fired => m.gate[g].fired

\* A gate takes one of the routes its plan declares, or none yet.
RoutesKnown(l) ==
  \A g \in Gates :
    l.gate[g].routeTarget \in {UserDecisions[g][d] : d \in Decisions} \cup {TimeoutRoute[g], Null}

\* What each step of the interpreter does to the lifecycle record.
Evolves(l, m) ==
  /\ m \in LifecycleState
  /\ FiredGatesClosed(l) => FiredGatesClosed(m)
  /\ KeepsFired(l, m)
  /\ RoutesKnown(l) => RoutesKnown(m)

LEMMA EvolvesTrivially ==
  ASSUME NEW l \in LifecycleState, NEW m \in LifecycleState, m.gate = l.gate
  PROVE  Evolves(l, m)
BY DEF Evolves, FiredGatesClosed, KeepsFired, RoutesKnown

LEMMA EvolvesTransitive ==
  ASSUME NEW l, NEW m, NEW n, Evolves(l, m), Evolves(m, n)
  PROVE  Evolves(l, n)
BY DEF Evolves, FiredGatesClosed, KeepsFired, RoutesKnown

LEMMA NewLifecycleType ==
  /\ NewLifecycle \in LifecycleState
  /\ FiredGatesClosed(NewLifecycle)
  /\ RoutesKnown(NewLifecycle)
BY DEF NewLifecycle, LifecycleState, GateState, StateNames, FiredGatesClosed, RoutesKnown
-----------------------------------------------------------------------------
(* Progress, cancellation and the end of the run leave the gates alone *)

LEMMA StartedEvolves == ASSUME NEW l \in LifecycleState PROVE Evolves(l, Started(l))
<1>1. Started(l) \in LifecycleState /\ Started(l).gate = l.gate
  BY DEF Started, LifecycleState, StateNames
<1> QED
  BY <1>1, EvolvesTrivially

LEMMA AddUnitsEvolves ==
  ASSUME NEW l \in LifecycleState, NEW n \in Nat PROVE Evolves(l, AddUnits(l, n))
<1>1. AddUnits(l, n) \in LifecycleState /\ AddUnits(l, n).gate = l.gate
  BY DEF AddUnits, LifecycleState
<1> QED
  BY <1>1, EvolvesTrivially

LEMMA UnitCompletedEvolves ==
  ASSUME NEW l \in LifecycleState PROVE Evolves(l, UnitCompleted(l))
<1>1. UnitCompleted(l) \in LifecycleState /\ UnitCompleted(l).gate = l.gate
  BY DEF UnitCompleted, LifecycleState
<1> QED
  BY <1>1, EvolvesTrivially

LEMMA SkipUnitsEvolves ==
  ASSUME NEW l \in LifecycleState, NEW n \in Nat PROVE Evolves(l, SkipUnits(l, n))
<1>1. SkipUnits(l, n) \in LifecycleState /\ SkipUnits(l, n).gate = l.gate
  BY DEF SkipUnits, LifecycleState
<1> QED
  BY <1>1, EvolvesTrivially

LEMMA RequestCancelledEvolves ==
  ASSUME NEW l \in LifecycleState PROVE Evolves(l, RequestCancelled(l))
<1>1. RequestCancelled(l) \in LifecycleState /\ RequestCancelled(l).gate = l.gate
  BY DEF RequestCancelled, LifecycleState, StateNames
<1> QED
  BY <1>1, EvolvesTrivially

LEMMA CompletedEvolves ==
  ASSUME NEW l \in LifecycleState PROVE Evolves(l, Completed(l))
<1>1. Completed(l) \in LifecycleState /\ Completed(l).gate = l.gate
  BY DEF Completed, LifecycleState, StateNames
<1> QED
  BY <1>1, EvolvesTrivially

LEMMA CancelledWithEvolves ==
  ASSUME NEW l \in LifecycleState, NEW s \in {"none", "partial", "complete"}
  PROVE  Evolves(l, CancelledWith(l, s))
<1>1. CancelledWith(l, s) \in LifecycleState /\ CancelledWith(l, s).gate = l.gate
  BY DEF CancelledWith, LifecycleState, StateNames
<1> QED
  BY <1>1, EvolvesTrivially

LEMMA FailedWithEvolves ==
  ASSUME NEW l \in LifecycleState, NEW s \in {"none", "partial", "complete"}
  PROVE  Evolves(l, FailedWith(l, s))
<1>1. FailedWith(l, s) \in LifecycleState /\ FailedWith(l, s).gate = l.gate
  BY DEF FailedWith, LifecycleState, StateNames
<1> QED
  BY <1>1, EvolvesTrivially

LEMMA InvalidReviewFailedEvolves ==
  ASSUME NEW l \in LifecycleState PROVE Evolves(l, InvalidReviewFailed(l))
<1>1. InvalidReviewFailed(l) \in LifecycleState /\ InvalidReviewFailed(l).gate = l.gate
  BY DEF InvalidReviewFailed, LifecycleState, StateNames
<1> QED
  BY <1>1, EvolvesTrivially
-----------------------------------------------------------------------------
(* The review gates *)

LEMMA RefreshWaitingType ==
  ASSUME NEW l \in LifecycleState
  PROVE  RefreshWaiting(l) \in LifecycleState /\ RefreshWaiting(l).gate = l.gate
<1>1. CASE WaitingGates(l) # {}
  <2>1. PICK g \in Gates : g = CHOOSE h \in WaitingGates(l) : TRUE
    BY <1>1 DEF WaitingGates
  <2>2. AfterStep[CHOOSE h \in WaitingGates(l) : TRUE] \in Steps
    BY <2>1, LifecycleAssumption DEF LifecycleAssumption
  <2> QED
    BY <1>1, <2>2 DEF RefreshWaiting, LifecycleState, StateNames
<1>2. CASE WaitingGates(l) = {}
  BY <1>2 DEF RefreshWaiting, LifecycleState, StateNames
<1> QED
  BY <1>1, <1>2

\* Only a gate that has not fired opens.
LEMMA WaitingForGateEvolves ==
  ASSUME NEW l \in LifecycleState, NEW g \in Gates, ~l.gate[g].fired
  PROVE  Evolves(l, WaitingForGate(l, g))
<1> DEFINE m == [l EXCEPT !.gate[g].waiting = TRUE, !.signalled = FALSE]
<1>1. m \in LifecycleState
  BY DEF LifecycleState, GateState
<1>2. \A h \in Gates : /\ m.gate[h].fired = l.gate[h].fired
                       /\ m.gate[h].routeTarget = l.gate[h].routeTarget
                       /\ h # g => m.gate[h].waiting = l.gate[h].waiting
  BY DEF LifecycleState, GateState
<1>3. WaitingForGate(l, g) = RefreshWaiting(m)
  BY DEF WaitingForGate
<1> HIDE DEF m
<1>4. Evolves(l, m)
  BY <1>1, <1>2 DEF Evolves, FiredGatesClosed, KeepsFired, RoutesKnown
<1>5. Evolves(m, RefreshWaiting(m))
  BY <1>1, RefreshWaitingType, EvolvesTrivially
<1> QED
  BY <1>3, <1>4, <1>5, EvolvesTransitive

LEMMA GateRoutedEvolves ==
  ASSUME NEW l \in LifecycleState, NEW g \in Gates
  PROVE  Evolves(l, GateRouted(l, g))
<1> DEFINE m == [l EXCEPT !.gate[g].waiting = FALSE, !.gate[g].fired = TRUE,
                          !.reviewRouteTarget = l.gate[g].routeTarget]
           n == [l.gate EXCEPT ![g].waiting = FALSE, ![g].fired = TRUE]
<1>1. m \in LifecycleState
  <2>1. n \in [Gates -> GateState] /\ l.gate[g].routeTarget \in Steps \cup {Null}
    BY DEF LifecycleState, GateState
  <2>2. m = [l EXCEPT !.gate = n, !.reviewRouteTarget = l.gate[g].routeTarget]
    BY DEF LifecycleState
  <2> HIDE DEF m, n
  <2> QED
    BY <2>1, <2>2 DEF LifecycleState
<1>2. /\ m.gate[g].fired /\ ~m.gate[g].waiting
      /\ m.gate[g].routeTarget = l.gate[g].routeTarget
      /\ \A h \in Gates \ {g} : m.gate[h] = l.gate[h]
  BY DEF LifecycleState, GateState
<1>3. GateRouted(l, g) = RefreshWaiting(m)
  BY DEF GateRouted
<1> QED
  BY <1>1, <1>2, <1>3, RefreshWaitingType DEF Evolves, FiredGatesClosed, KeepsFired, RoutesKnown

LEMMA GateClosedType ==
  ASSUME NEW l \in LifecycleState, NEW g \in Gates
  PROVE  /\ GateClosed(l, g) \in LifecycleState
         /\ GateClosed(l, g).gate[g].fired /\ ~GateClosed(l, g).gate[g].waiting
         /\ GateClosed(l, g).gate[g].routeTarget = l.gate[g].routeTarget
         /\ \A h \in Gates \ {g} : GateClosed(l, g).gate[h] = l.gate[h]
<1> DEFINE m == [l EXCEPT !.gate[g].waiting = FALSE, !.gate[g].fired = TRUE]
           c == IF WaitingGates(m) = {} THEN Null
                ELSE AfterStep[CHOOSE h \in WaitingGates(m) : TRUE]
           n == [l.gate EXCEPT ![g].waiting = FALSE, ![g].fired = TRUE]
<1>1. m \in LifecycleState
  <2>1. n \in [Gates -> GateState]
    BY DEF LifecycleState, GateState
  <2>2. m = [l EXCEPT !.gate = n]
    BY DEF LifecycleState
  <2> HIDE DEF m, n
  <2> QED
    BY <2>1, <2>2 DEF LifecycleState
<1>2. /\ m.gate[g].fired /\ ~m.gate[g].waiting
      /\ m.gate[g].routeTarget = l.gate[g].routeTarget
      /\ \A h \in Gates \ {g} : m.gate[h] = l.gate[h]
  BY DEF LifecycleState, GateState
<1>3. c \in Steps \cup {Null}
  <2>1. CASE WaitingGates(m) # {}
    <3>1. (CHOOSE h \in WaitingGates(m) : TRUE) \in Gates
      BY <2>1 DEF WaitingGates
    <3> QED
      BY <2>1, <3>1, LifecycleAssumption DEF LifecycleAssumption
  <2> QED
    BY <2>1
<1>4. GateClosed(l, g) = [m EXCEPT !.waitingCheckpoint = c]
  BY DEF GateClosed
<1> HIDE DEF m, c
<1> QED
  BY <1>1, <1>2, <1>3, <1>4 DEF LifecycleState

LEMMA GateTimedOutEvolves ==
  ASSUME NEW l \in LifecycleState, NEW g \in Gates
  PROVE  Evolves(l, GateTimedOut(l, g))
<1> DEFINE m == GateClosed(l, g)
<1>1. /\ m \in LifecycleState
      /\ m.gate[g].fired /\ ~m.gate[g].waiting
      /\ m.gate[g].routeTarget = l.gate[g].routeTarget
      /\ \A h \in Gates \ {g} : m.gate[h] = l.gate[h]
  BY GateClosedType
<1> HIDE DEF m
<1>2. Evolves(l, m)
  BY <1>1 DEF Evolves, FiredGatesClosed, KeepsFired, RoutesKnown
<1>3. CASE OnTimeout[g] = "route"
  <2> DEFINE r == [m EXCEPT !.gate[g].routeTarget = TimeoutRoute[g],
                            !.reviewRouteTarget = TimeoutRoute[g]]
             n == [m.gate EXCEPT ![g].routeTarget = TimeoutRoute[g]]
  <2>1. TimeoutRoute[g] \in Steps \cup {Null}
    BY LifecycleAssumption DEF LifecycleAssumption
  <2>2. r \in LifecycleState
    <3>1. n \in [Gates -> GateState]
      BY <1>1, <2>1 DEF LifecycleState, GateState
    <3>2. r = [m EXCEPT !.gate = n, !.reviewRouteTarget = TimeoutRoute[g]]
      BY <1>1 DEF LifecycleState
    <3> HIDE DEF r, n
    <3> QED
      BY <1>1, <2>1, <3>1, <3>2 DEF LifecycleState
  <2>3. \A h \in Gates : /\ r.gate[h].fired = m.gate[h].fired
                         /\ r.gate[h].waiting = m.gate[h].waiting
                         /\ r.gate[h].routeTarget \in {m.gate[h].routeTarget, TimeoutRoute[h]}
    BY <1>1 DEF LifecycleState, GateState
  <2>4. GateTimedOut(l, g) = RefreshWaiting(r)
    BY <1>3 DEF GateTimedOut, m
  <2> HIDE DEF r
  <2>5. Evolves(m, RefreshWaiting(r))
    BY <2>2, <2>3, RefreshWaitingType DEF Evolves, FiredGatesClosed, KeepsFired, RoutesKnown
  <2> QED
    BY <1>2, <2>4, <2>5, EvolvesTransitive
<1>4. CASE OnTimeout[g] # "route"
  <2>1. /\ GateTimedOut(l, g) \in LifecycleState
        /\ GateTimedOut(l, g).gate = m.gate
    BY <1>1, <1>4 DEF GateTimedOut, m, LifecycleState, StateNames
  <2>2. Evolves(m, GateTimedOut(l, g))
    BY <1>1, <2>1, EvolvesTrivially
  <2> QED
    BY <1>2, <2>2, EvolvesTransitive
<1> QED
  BY <1>3, <1>4
-----------------------------------------------------------------------------
(* Review commands *)

LEMMA SignalledEvolves ==
  ASSUME NEW l \in LifecycleState, NEW b \in BOOLEAN
  PROVE  Evolves(l, [l EXCEPT !.signalled = b])
<1>1. /\ [l EXCEPT !.signalled = b] \in LifecycleState
      /\ [l EXCEPT !.signalled = b].gate = l.gate
  BY DEF LifecycleState
<1> QED
  BY <1>1, EvolvesTrivially

LEMMA InvalidDecisionEvolves ==
  ASSUME NEW l \in LifecycleState, NEW g \in Gates
  PROVE  Evolves(l, InvalidDecision(l, g))
<1> DEFINE n == [l.gate EXCEPT ![g].invalidFailed = @ \/ g \in FailOnInvalid]
<1>1. InvalidDecision(l, g) \in LifecycleState
  <2>1. n \in [Gates -> GateState]
    BY DEF LifecycleState, GateState
  <2>2. InvalidDecision(l, g) = [l EXCEPT !.signalled = TRUE, !.gate = n]
    BY DEF InvalidDecision, LifecycleState
  <2> HIDE DEF n
  <2> QED
    BY <2>1, <2>2 DEF LifecycleState
<1>2. \A h \in Gates : /\ InvalidDecision(l, g).gate[h].fired = l.gate[h].fired
                       /\ InvalidDecision(l, g).gate[h].routeTarget = l.gate[h].routeTarget
                       /\ InvalidDecision(l, g).gate[h].waiting = l.gate[h].waiting
  BY DEF InvalidDecision, LifecycleState, GateState
<1> QED
  BY <1>1, <1>2 DEF Evolves, FiredGatesClosed, KeepsFired, RoutesKnown

LEMMA TargetGatesType ==
  ASSUME NEW l \in LifecycleState, NEW named \in Gates \cup {Null}
  PROVE  TargetGates(l, named) \subseteq Gates
BY DEF TargetGates, WaitingGates

LEMMA SubmittedReviewEvolves ==
  ASSUME NEW l \in LifecycleState, NEW named \in Gates \cup {Null}, NEW d \in Decisions
  PROVE  Evolves(l, SubmittedReview(l, named, d))
<1>1. CASE TargetGates(l, named) = {}
  BY <1>1, SignalledEvolves DEF SubmittedReview
<1>2. CASE TargetGates(l, named) # {}
  <2> DEFINE g == CHOOSE h \in TargetGates(l, named) : TRUE
  <2>1. g \in Gates
    BY <1>2, TargetGatesType
  <2>2. CASE UserDecisions[g][d] = Null
    <3>1. SubmittedReview(l, named, d) = InvalidDecision(l, g)
      BY <1>2, <2>2 DEF SubmittedReview
    <3> QED
      BY <2>1, <3>1, InvalidDecisionEvolves
  <2>3. CASE UserDecisions[g][d] # Null
    <3> DEFINE r == UserDecisions[g][d]
               m == [l EXCEPT !.signalled = TRUE, !.gate[g].routeTarget = r,
                              !.reviewRouteTarget = r]
    <3>1. r \in Steps \cup {Null}
      BY <2>1, LifecycleAssumption DEF LifecycleAssumption
    <3>2. SubmittedReview(l, named, d) = m
      BY <1>2, <2>3 DEF SubmittedReview
    <3> HIDE DEF r, g
    <3>3. m \in LifecycleState
      <4> DEFINE n == [l.gate EXCEPT ![g].routeTarget = r]
      <4>1. n \in [Gates -> GateState]
        BY <2>1, <3>1 DEF LifecycleState, GateState
      <4>2. m = [l EXCEPT !.signalled = TRUE, !.gate = n, !.reviewRouteTarget = r]
        BY <2>1 DEF LifecycleState
      <4> HIDE DEF m, n
      <4> QED
        BY <3>1, <4>1, <4>2 DEF LifecycleState
    <3>4. \A h \in Gates : /\ m.gate[h].fired = l.gate[h].fired
                           /\ m.gate[h].waiting = l.gate[h].waiting
                           /\ m.gate[h].routeTarget = IF h = g THEN r ELSE l.gate[h].routeTarget
      BY <2>1, <3>1 DEF LifecycleState, GateState
    <3>5. r \in {UserDecisions[g][e] : e \in Decisions}
      BY DEF r
    <3> QED
      BY <3>2, <3>3, <3>4, <3>5 DEF Evolves, FiredGatesClosed, KeepsFired, RoutesKnown
  <2> QED
    BY <2>2, <2>3
<1> QED
  BY <1>1, <1>2

LEMMA SubmittedMalformedEvolves ==
  ASSUME NEW l \in LifecycleState
  PROVE  Evolves(l, SubmittedMalformed(l))
<1>1. CASE Cardinality(Gates) = 1
  <2>1. (CHOOSE g \in Gates : TRUE) \in Gates
    <3>1. Gates # {}
      BY <1>1, FS_EmptySet
    <3> QED
      BY <3>1
  <2> QED
    BY <1>1, <2>1, InvalidDecisionEvolves DEF SubmittedMalformed
<1>2. CASE Cardinality(Gates) # 1
  BY <1>2, SignalledEvolves DEF SubmittedMalformed
<1> QED
  BY <1>1, <1>2
-----------------------------------------------------------------------------
(* The run. *)

Causes == {"none", "cancelled", "failure"}
Controls == MainStates \cup BranchStates \cup BusyStates

\* The states in which a thread is inside its current step.
InStep == {"activity", "resolved", "prep", "fanout", "release", "poll", "review"}

\* A thread inside a step has one; the main sequence waits only at a gate.
ControlOK ==
  /\ pc \in [Threads -> Nat]
  /\ ctl \in [Threads -> Controls]
  /\ cause \in Causes
  /\ \A t \in Threads : ctl[t] \in InStep => pc[t] \in DOMAIN Body[t]
  /\ ctl[Main] \in {"poll", "review"} => \E g \in Gates : AfterStep[g] = Cur(Main)

DataOK ==
  /\ item \in [Items -> {"waiting", "running", "done", "failed"}]
  /\ context \subseteq Steps
  /\ compensationStack \in Seq(Steps \X SUBSET Nat)
  /\ effects \subseteq Ops
  /\ undone \in Seq(Ops)
  /\ anyFailed \in BOOLEAN
  /\ rootCancelled \in BOOLEAN
  /\ reviews \in 0..MaxReviews

LifeOK == lc \in LifecycleState /\ FiredGatesClosed(lc) /\ RoutesKnown(lc)

IInv == ControlOK /\ DataOK /\ LifeOK

\* What every step keeps, and what it does to the lifecycle record.
StepOK == ControlOK' /\ DataOK' /\ Evolves(lc, lc')
-----------------------------------------------------------------------------
(* The plan *)

LEMMA MainIsThread == Main \in Threads
BY DEF Threads

LEMMA BodyType ==
  ASSUME NEW t \in Threads
  PROVE  /\ Body[t] \in Seq(Steps)
         /\ DOMAIN Body[t] \subseteq Nat
         /\ \A i \in DOMAIN Body[t] : Body[t][i] \in Steps
<1>1. Body[t] \in Seq(Steps)
  BY PlanAssumption DEF PlanAssumption
<1> QED
  BY <1>1

LEMMA ItemsFinite == IsFiniteSet(Items)
<1>1. \A s \in Steps : IsFiniteSet(ItemsOf(s))
  <2>1. ASSUME NEW s \in Steps PROVE IsFiniteSet(ItemsOf(s))
    <3>1. Size[s] \in Nat
      BY PlanAssumption DEF PlanAssumption
    <3>2. IsFiniteSet(1..Size[s])
      BY <3>1, FS_Interval
    <3>3. IsFiniteSet({s})
      BY FS_Singleton
    <3> QED
      BY <3>2, <3>3, FS_Product DEF ItemsOf
  <2> QED
    BY <2>1
<1>2. IsFiniteSet(Mapped)
  BY PlanAssumption, FS_Subset DEF PlanAssumption, Mapped
<1>3. IsFiniteSet({ItemsOf(s) : s \in Mapped})
  <2> DEFINE f == [s \in Mapped |-> ItemsOf(s)]
  <2>1. f \in Surjection(Mapped, {ItemsOf(s) : s \in Mapped})
    BY DEF Surjection
  <2> QED
    BY <1>2, <2>1, FS_Surjection
<1> QED
  BY <1>1, <1>3, FS_UNION DEF Items, Mapped

LEMMA TotalUnitsType == ASSUME NEW S PROVE TotalUnitsOf(S) \in Nat
<1>1. IsFiniteSet(Atomic \X {0})
  <2>1. IsFiniteSet(Atomic)
    BY PlanAssumption, FS_Subset DEF PlanAssumption, Atomic
  <2>2. IsFiniteSet({0})
    BY FS_Singleton
  <2> QED
    BY <2>1, <2>2, FS_Product
<1>2. IsFiniteSet(Items \cup (Atomic \X {0}))
  BY <1>1, ItemsFinite, FS_Union
<1>3. IsFiniteSet(UnitsOf(S))
  BY <1>2, FS_Subset DEF UnitsOf
<1> QED
  BY <1>3, FS_CardinalityType DEF TotalUnitsOf
-----------------------------------------------------------------------------
(* The moves shared by the handlers *)

LEMMA ControlThrow ==
  ASSUME ControlOK, NEW t \in Threads, NEW why \in {"cancelled", "failure"}, Throw(t, why)
  PROVE  ControlOK'
<1>1. pc' = pc /\ cause' \in Causes
  BY DEF Throw, ControlOK, Causes
<1>2. \A u \in Threads : ctl'[u] = IF u # t THEN ctl[u]
                                  ELSE IF t = Main THEN "unwind" ELSE "failed"
  BY DEF Throw, ControlOK
<1>3. ctl' \in [Threads -> Controls]
  BY DEF Throw, ControlOK, Controls, MainStates, BranchStates
<1>4. \A u \in Threads : ctl'[u] \in InStep => pc'[u] \in DOMAIN Body[u]
  BY <1>1, <1>2 DEF ControlOK, InStep
<1>5. ctl'[Main] \in {"poll", "review"} => \E g \in Gates : AfterStep[g] = Cur(Main)'
  BY <1>1, <1>2, MainIsThread DEF ControlOK, Cur
<1> QED
  BY <1>1, <1>3, <1>4, <1>5 DEF ControlOK

\* A thread that moves on without changing its step or waiting at a gate.
LEMMA ControlMove ==
  ASSUME ControlOK, NEW t \in Threads, NEW c \in Controls \ {"poll", "review"},
         c \in InStep => pc[t] \in DOMAIN Body[t],
         ctl' = [ctl EXCEPT ![t] = c], UNCHANGED <<pc, cause>>
  PROVE  ControlOK'
<1>1. \A u \in Threads : ctl'[u] = IF u # t THEN ctl[u] ELSE c
  BY DEF ControlOK
<1>2. ctl' \in [Threads -> Controls]
  BY DEF ControlOK
<1>3. ctl'[Main] \in {"poll", "review"} => \E g \in Gates : AfterStep[g] = Cur(Main)'
  BY <1>1, MainIsThread DEF ControlOK, Cur
<1> QED
  BY <1>1, <1>2, <1>3 DEF ControlOK

LEMMA ControlSame == ASSUME ControlOK, UNCHANGED <<pc, ctl, cause>> PROVE ControlOK'
BY DEF ControlOK, Cur

LEMMA CurType ==
  ASSUME ControlOK, NEW t \in Threads, AtStep(t) \/ ctl[t] \in InStep
  PROVE  pc[t] \in DOMAIN Body[t] /\ Cur(t) \in Steps
BY BodyType DEF ControlOK, Cur, AtStep

LEMMA StepDoneType ==
  ASSUME ControlOK, NEW t \in Threads, pc[t] \in DOMAIN Body[t],
         NEW l \in LifecycleState, context \subseteq Steps, StepDone(t, l)
  PROVE  /\ ControlOK'
         /\ context' \subseteq Steps
         /\ Evolves(l, lc')
<1> DEFINE gates == IF t = Main THEN PendingGatesAfter(l, Cur(t)) ELSE {}
<1>1. context' \subseteq Steps
  BY BodyType DEF StepDone, Cur
<1>2. CASE gates = {}
  <2>1. /\ pc' = [pc EXCEPT ![t] = @ + 1]
        /\ ctl' = [ctl EXCEPT ![t] = "ready"]
        /\ lc' = l /\ cause' = cause
    BY <1>2 DEF StepDone
  <2>2. pc' \in [Threads -> Nat] /\ ctl' \in [Threads -> Controls]
    BY <2>1 DEF ControlOK, Controls, BusyStates
  <2>3. \A u \in Threads : ctl'[u] \in InStep => pc'[u] \in DOMAIN Body[u]
    BY <2>1 DEF ControlOK, InStep
  <2>4. ctl'[Main] \in {"poll", "review"} => \E g \in Gates : AfterStep[g] = Cur(Main)'
    BY <2>1, MainIsThread DEF ControlOK, Cur
  <2>5. Evolves(l, lc')
    BY <2>1, EvolvesTrivially
  <2> QED
    BY <1>1, <2>1, <2>2, <2>3, <2>4, <2>5 DEF ControlOK
<1>3. CASE gates # {}
  <2> DEFINE g == CHOOSE h \in gates : TRUE
  <2>1. /\ pc' = pc
        /\ ctl' = [ctl EXCEPT ![t] = "poll"]
        /\ lc' = WaitingForGate(l, g) /\ cause' = cause
    BY <1>3 DEF StepDone
  <2>2. t = Main /\ g \in Gates /\ AfterStep[g] = Cur(t) /\ ~l.gate[g].fired
    BY <1>3 DEF PendingGatesAfter
  <2> HIDE DEF gates, g
  <2>3. ctl' \in [Threads -> Controls]
    BY <2>1 DEF ControlOK, Controls, MainStates
  <2>4. \A u \in Threads : ctl'[u] \in InStep => pc'[u] \in DOMAIN Body[u]
    BY <2>1 DEF ControlOK, InStep
  <2>5. \E h \in Gates : AfterStep[h] = Cur(Main)'
    BY <2>1, <2>2 DEF Cur
  <2>6. Evolves(l, lc')
    BY <2>1, <2>2, WaitingForGateEvolves
  <2> QED
    BY <1>1, <2>1, <2>3, <2>4, <2>5, <2>6 DEF ControlOK
<1> QED
  BY <1>2, <1>3

LEMMA PushType ==
  ASSUME NEW s \in Steps, NEW I \in SUBSET Nat,
         compensationStack \in Seq(Steps \X SUBSET Nat), Push(s, I)
  PROVE  compensationStack' \in Seq(Steps \X SUBSET Nat)
<1>1. <<s, I>> \in Steps \X SUBSET Nat
  OBVIOUS
<1>2. Append(compensationStack, <<s, I>>) \in Seq(Steps \X SUBSET Nat)
  BY <1>1, AppendProperties
<1> QED
  BY <1>2 DEF Push

LEMMA ClaimType ==
  ASSUME NEW s, NEW f \in [Items -> {"waiting", "running", "done", "failed"}]
  PROVE  Claim(s, f) \in [Items -> {"waiting", "running", "done", "failed"}]
<1> DEFINE settled == {x \in ItemsOf(s) : f[x] = "done"}
           claimed == {x \in ItemsOf(s) : /\ f[x] = "waiting"
                                          /\ x[2] <= Concurrency[s] + Cardinality(settled)
                                          /\ \A y \in ItemsOf(s) : f[y] # "failed"}
<1>1. Claim(s, f) = [x \in Items |-> IF x \notin claimed THEN f[x]
                                     ELSE IF FanOutCancelled THEN "failed" ELSE "running"]
  BY DEF Claim
<1> HIDE DEF claimed
<1> QED
  BY <1>1

LEMMA MapEndsType ==
  ASSUME ControlOK, DataOK, lc \in LifecycleState, NEW t \in Threads, ctl[t] \in InStep,
         NEW outcome \in {"ok", "cancelled", "failure"}, MapEnds(t, outcome),
         UNCHANGED <<item, effects, undone, anyFailed, rootCancelled, reviews>>
  PROVE  StepOK
<1>1. pc[t] \in DOMAIN Body[t] /\ Cur(t) \in Steps
  BY CurType
<1>2. Evolves(lc, lc)
  BY EvolvesTrivially
<1>3. CASE Push(Cur(t), CompletedIndices(Cur(t))) /\ outcome = "ok" /\ StepDone(t, lc)
  <2>1. CompletedIndices(Cur(t)) \in SUBSET Nat
    BY <1>1, PlanAssumption DEF CompletedIndices, PlanAssumption
  <2>2. compensationStack' \in Seq(Steps \X SUBSET Nat)
    BY <1>1, <1>3, <2>1, PushType DEF DataOK
  <2>3. ControlOK' /\ context' \subseteq Steps /\ Evolves(lc, lc')
    BY <1>1, <1>3, StepDoneType DEF DataOK
  <2> QED
    BY <2>2, <2>3 DEF StepOK, DataOK
<1>4. CASE /\ Push(Cur(t), CompletedIndices(Cur(t))) /\ outcome # "ok"
           /\ Throw(t, outcome) /\ UNCHANGED <<context, lc>>
  <2>1. CompletedIndices(Cur(t)) \in SUBSET Nat
    BY <1>1, PlanAssumption DEF CompletedIndices, PlanAssumption
  <2>2. compensationStack' \in Seq(Steps \X SUBSET Nat)
    BY <1>1, <1>4, <2>1, PushType DEF DataOK
  <2>3. ControlOK'
    BY <1>4, ControlThrow
  <2> QED
    BY <1>2, <1>4, <2>2, <2>3 DEF StepOK, DataOK
<1>5. CASE Throw(t, "failure") /\ UNCHANGED <<context, lc, compensationStack>>
  <2>1. ControlOK'
    BY <1>5, ControlThrow
  <2> QED
    BY <1>2, <1>5, <2>1 DEF StepOK, DataOK
<1> QED
  BY <1>3, <1>4, <1>5 DEF MapEnds
-----------------------------------------------------------------------------
(* Start and signals *)

LEMMA StartType == ASSUME IInv, Start PROVE StepOK
<1>1. ControlOK'
  BY MainIsThread, ControlMove DEF IInv, Start, Controls, BusyStates, InStep
<1>2. Evolves(lc, lc')
  <2> DEFINE n == TotalUnitsOf(Slice(Main, 1, Len(Body[Main])))
  <2>1. n \in Nat
    BY TotalUnitsType
  <2>2. lc' = Started(AddUnits(lc, n))
    BY DEF Start
  <2> HIDE DEF n
  <2>3. Evolves(lc, AddUnits(lc, n))
    BY <2>1, AddUnitsEvolves DEF IInv, LifeOK
  <2>4. Evolves(AddUnits(lc, n), lc')
    BY <2>2, <2>3, StartedEvolves DEF Evolves
  <2> QED
    BY <2>3, <2>4, EvolvesTransitive
<1> QED
  BY <1>1, <1>2 DEF IInv, DataOK, StepOK, Start

LEMMA SignalType == ASSUME IInv, Signal PROVE StepOK
<1>1. ControlOK'
  BY ControlSame DEF IInv, Signal, RequestCancel, SubmitReview, CancelNatively
<1>2. CASE RequestCancel
  BY <1>1, <1>2, RequestCancelledEvolves DEF IInv, LifeOK, DataOK, StepOK, RequestCancel
<1>3. CASE SubmitReview
  <2>1. Evolves(lc, lc')
    <3>1. CASE \E named \in Gates \cup {Null}, d \in Decisions : lc' = SubmittedReview(lc, named, d)
      BY <3>1, SubmittedReviewEvolves DEF IInv, LifeOK
    <3>2. CASE lc' = SubmittedMalformed(lc)
      BY <3>2, SubmittedMalformedEvolves DEF IInv, LifeOK
    <3> QED
      BY <1>3, <3>1, <3>2 DEF SubmitReview
  <2>2. reviews' \in 0..MaxReviews
    BY <1>3, PlanAssumption DEF SubmitReview, PlanAssumption, IInv, DataOK
  <2> QED
    BY <1>1, <1>3, <2>1, <2>2 DEF IInv, DataOK, StepOK, SubmitReview
<1>4. CASE CancelNatively
  <2>1. Evolves(lc, lc')
    BY <1>4, EvolvesTrivially DEF CancelNatively, IInv, LifeOK
  <2> QED
    BY <1>1, <1>4, <2>1 DEF IInv, DataOK, StepOK, CancelNatively
<1> QED
  BY <1>2, <1>3, <1>4 DEF Signal
-----------------------------------------------------------------------------
(* Sequences and atomic steps *)

LEMMA RaiseType ==
  ASSUME IInv, NEW t \in Threads, RaiseIfCancelled(t) \/ AtomicFails(t) \/ PrepFails(t)
  PROVE  StepOK
<1>1. ControlOK'
  BY ControlThrow DEF IInv, RaiseIfCancelled, AtomicFails, PrepFails
<1>2. lc' = lc /\ Evolves(lc, lc)
  BY EvolvesTrivially DEF IInv, LifeOK, RaiseIfCancelled, AtomicFails, PrepFails
<1> QED
  BY <1>1, <1>2 DEF IInv, DataOK, StepOK, RaiseIfCancelled, AtomicFails, PrepFails

LEMMA EndSequenceType ==
  ASSUME IInv, NEW t \in Threads, NEW l \in LifecycleState, EndSequence(t, l),
         UNCHANGED <<pc, cause>>
  PROVE  ControlOK' /\ Evolves(l, lc')
<1>1. ControlOK'
  <2>1. CASE t = Main
    <3>1. ctl' = [ctl EXCEPT ![t] = "returned"]
      BY <2>1 DEF EndSequence
    <3> QED
      BY <3>1, ControlMove DEF IInv, Controls, MainStates, InStep
  <2>2. CASE t # Main
    <3>1. ctl' = [ctl EXCEPT ![t] = "done"]
      BY <2>2 DEF EndSequence
    <3> QED
      BY <3>1, ControlMove DEF IInv, Controls, BranchStates, InStep
  <2> QED
    BY <2>1, <2>2
<1>2. Evolves(l, lc')
  BY CompletedEvolves, EvolvesTrivially DEF EndSequence
<1> QED
  BY <1>1, <1>2

LEMMA SequenceType ==
  ASSUME IInv, NEW t \in Threads, SkipRemainder(t) \/ FinishSequence(t)
  PROVE  StepOK
<1>1. CASE SkipRemainder(t)
  <2> DEFINE n == TotalUnitsOf(Slice(t, pc[t], Len(Body[t])))
  <2>1. n \in Nat
    BY TotalUnitsType
  <2>2. EndSequence(t, SkipUnits(lc, n))
    BY <1>1 DEF SkipRemainder
  <2> HIDE DEF n
  <2>3. Evolves(lc, SkipUnits(lc, n))
    BY <2>1, SkipUnitsEvolves DEF IInv, LifeOK
  <2>4. ControlOK' /\ Evolves(SkipUnits(lc, n), lc')
    BY <1>1, <2>2, <2>3, EndSequenceType DEF SkipRemainder, Evolves
  <2>5. Evolves(lc, lc')
    BY <2>3, <2>4, EvolvesTransitive
  <2> QED
    BY <1>1, <2>4, <2>5 DEF IInv, DataOK, StepOK, SkipRemainder
<1>2. CASE FinishSequence(t)
  <2>1. ControlOK' /\ Evolves(lc, lc')
    BY <1>2, EndSequenceType DEF FinishSequence, IInv, LifeOK
  <2> QED
    BY <1>2, <2>1 DEF IInv, DataOK, StepOK, FinishSequence
<1> QED
  BY <1>1, <1>2

LEMMA StartAtomicType == ASSUME IInv, NEW t \in Threads, StartAtomic(t) PROVE StepOK
<1>1. pc[t] \in DOMAIN Body[t]
  BY DEF StartAtomic, AtStep
<1>2. ControlOK'
  <2>1. CASE ScopeCancelled(t)
    BY <2>1, ControlThrow DEF IInv, StartAtomic
  <2>2. CASE ~ScopeCancelled(t)
    BY <1>1, <2>2, ControlMove DEF IInv, StartAtomic, Controls, BusyStates, InStep
  <2> QED
    BY <2>1, <2>2
<1>3. lc' = lc /\ Evolves(lc, lc)
  BY EvolvesTrivially DEF IInv, LifeOK, StartAtomic
<1> QED
  BY <1>2, <1>3 DEF IInv, DataOK, StepOK, StartAtomic

LEMMA AtomicCompletesType ==
  ASSUME IInv, NEW t \in Threads, AtomicCompletes(t)
  PROVE  StepOK
<1>1. pc[t] \in DOMAIN Body[t] /\ Cur(t) \in Steps
  BY CurType DEF IInv, AtomicCompletes, InStep
<1>2. effects' \subseteq Ops
  BY <1>1 DEF AtomicCompletes, IInv, DataOK, Ops
<1>3. Evolves(lc, lc')
  BY UnitCompletedEvolves DEF AtomicCompletes, IInv, LifeOK
<1>4. ControlOK'
  BY <1>1, ControlMove DEF AtomicCompletes, IInv, Controls, BusyStates, InStep
<1> QED
  BY <1>2, <1>3, <1>4 DEF AtomicCompletes, IInv, DataOK, StepOK

LEMMA AtomicRecordedType ==
  ASSUME IInv, NEW t \in Threads, AtomicRecorded(t)
  PROVE  StepOK
<1>1. pc[t] \in DOMAIN Body[t] /\ Cur(t) \in Steps
  BY CurType DEF IInv, AtomicRecorded, InStep
<1>2. CASE Push(Cur(t), {0}) /\ StepDone(t, lc)
  <2>1. compensationStack' \in Seq(Steps \X SUBSET Nat)
    BY <1>1, <1>2, PushType DEF IInv, DataOK
  <2>2. ControlOK' /\ context' \subseteq Steps /\ Evolves(lc, lc')
    BY <1>1, <1>2, StepDoneType DEF IInv, DataOK, LifeOK
  <2> QED
    BY <2>1, <2>2 DEF AtomicRecorded, IInv, DataOK, StepOK
<1>3. CASE /\ context' = context \cup {Cur(t)}
           /\ Throw(t, "failure")
           /\ UNCHANGED <<lc, compensationStack>>
  <2>1. ControlOK'
    BY <1>3, ControlThrow DEF IInv
  <2>2. Evolves(lc, lc')
    BY <1>3, EvolvesTrivially DEF IInv, LifeOK
  <2> QED
    BY <1>1, <1>3, <2>1, <2>2 DEF AtomicRecorded, IInv, DataOK, StepOK
<1> QED
  BY <1>2, <1>3 DEF AtomicRecorded
-----------------------------------------------------------------------------
(* Fan-outs *)

LEMMA FanOutItemsType ==
  ASSUME IInv, NEW t \in Threads, pc[t] \in DOMAIN Body[t], FanOutItems(t)
  PROVE  /\ ControlOK'
         /\ item' \in [Items -> {"waiting", "running", "done", "failed"}]
<1>1. ControlOK'
  BY ControlMove DEF IInv, FanOutItems, Controls, BusyStates, InStep
<1> QED
  BY <1>1, ClaimType DEF FanOutItems, IInv, DataOK

LEMMA StartMapType == ASSUME IInv, NEW t \in Threads, StartMap(t) PROVE StepOK
<1>1. pc[t] \in DOMAIN Body[t] /\ Cur(t) \in Steps
  BY CurType DEF IInv, StartMap
<1>2. CASE Throw(t, "failure") /\ UNCHANGED <<item, lc>>
  <2>1. ControlOK' /\ Evolves(lc, lc')
    BY <1>2, ControlThrow, EvolvesTrivially DEF IInv, LifeOK
  <2> QED
    BY <1>2, <2>1 DEF IInv, DataOK, StepOK, StartMap
<1>3. CASE /\ lc' = IF Over[Cur(t)] = "input" THEN lc ELSE AddUnits(lc, Size[Cur(t)])
           /\ \/ FanOutItems(t)
              \/ /\ IF ScopeCancelled(t) THEN Throw(t, "failure")
                    ELSE ctl' = [ctl EXCEPT ![t] = "prep"] /\ UNCHANGED <<pc, cause>>
                 /\ UNCHANGED item
  <2>1. Evolves(lc, lc')
    <3>1. Size[Cur(t)] \in Nat
      BY <1>1, PlanAssumption DEF PlanAssumption
    <3> QED
      BY <1>3, <3>1, AddUnitsEvolves, EvolvesTrivially DEF IInv, LifeOK
  <2>2. ControlOK' /\ item' \in [Items -> {"waiting", "running", "done", "failed"}]
    <3>1. CASE FanOutItems(t)
      BY <1>1, <3>1, FanOutItemsType
    <3>2. CASE Throw(t, "failure") /\ UNCHANGED item
      BY <3>2, ControlThrow DEF IInv, DataOK
    <3>3. CASE ctl' = [ctl EXCEPT ![t] = "prep"] /\ UNCHANGED <<pc, cause, item>>
      BY <1>1, <3>3, ControlMove DEF IInv, DataOK, Controls, BusyStates, InStep
    <3> QED
      BY <1>3, <3>1, <3>2, <3>3
  <2> QED
    BY <2>1, <2>2 DEF IInv, DataOK, StepOK, StartMap
<1> QED
  BY <1>2, <1>3 DEF StartMap

LEMMA PrepCompletesType == ASSUME IInv, NEW t \in Threads, PrepCompletes(t) PROVE StepOK
<1>1. pc[t] \in DOMAIN Body[t]
  BY CurType DEF IInv, PrepCompletes, InStep
<1>2. ControlOK' /\ item' \in [Items -> {"waiting", "running", "done", "failed"}]
  BY <1>1, FanOutItemsType DEF PrepCompletes
<1>3. Evolves(lc, lc')
  BY EvolvesTrivially DEF IInv, LifeOK, PrepCompletes
<1> QED
  BY <1>2, <1>3 DEF IInv, DataOK, StepOK, PrepCompletes

LEMMA ItemSettlesType == ASSUME IInv, ItemSettles PROVE StepOK
<1>1. PICK x \in Items : ItemCompletes(x) \/ ItemFails(x)
  BY DEF ItemSettles
<1>2. x \in Steps \X Nat
  <2>1. \A s \in Steps : Size[s] \in Nat
    BY PlanAssumption DEF PlanAssumption
  <2> QED
    BY <2>1 DEF Items, ItemsOf, Mapped
<1>3. ControlOK'
  BY <1>1, ControlSame DEF IInv, ItemCompletes, ItemFails
<1>4. CASE ItemCompletes(x)
  <2>1. [item EXCEPT ![x] = "done"] \in [Items -> {"waiting", "running", "done", "failed"}]
    BY DEF IInv, DataOK
  <2>2. item' \in [Items -> {"waiting", "running", "done", "failed"}]
    BY <1>4, <2>1, ClaimType DEF ItemCompletes
  <2>3. effects' \subseteq Ops
    BY <1>2, <1>4 DEF ItemCompletes, IInv, DataOK, Ops
  <2>4. Evolves(lc, lc')
    BY <1>4, UnitCompletedEvolves DEF ItemCompletes, IInv, LifeOK
  <2> QED
    BY <1>3, <1>4, <2>2, <2>3, <2>4 DEF ItemCompletes, IInv, DataOK, StepOK
<1>5. CASE ItemFails(x)
  <2>1. Evolves(lc, lc')
    BY <1>5, EvolvesTrivially DEF ItemFails, IInv, LifeOK
  <2> QED
    BY <1>3, <1>5, <2>1 DEF ItemFails, IInv, DataOK, StepOK
<1> QED
  BY <1>1, <1>4, <1>5

LEMMA MapSettlesType == ASSUME IInv, NEW t \in Threads, MapSettles(t) PROVE StepOK
<1>1. ctl[t] \in InStep /\ pc[t] \in DOMAIN Body[t]
  BY CurType DEF IInv, MapSettles, InStep
<1>2. CASE \E outcome \in {"ok", "cancelled", "failure"} : MapEnds(t, outcome)
  BY <1>1, <1>2, MapEndsType DEF IInv, LifeOK, MapSettles
<1>3. CASE /\ ctl' = [ctl EXCEPT ![t] = "release"]
           /\ UNCHANGED <<pc, cause, context, lc, compensationStack>>
  <2>1. ControlOK' /\ Evolves(lc, lc')
    BY <1>1, <1>3, ControlMove, EvolvesTrivially
       DEF IInv, LifeOK, Controls, BusyStates
  <2> QED
    BY <1>3, <2>1 DEF IInv, DataOK, StepOK, MapSettles
<1> QED
  BY <1>2, <1>3 DEF MapSettles, Collected

LEMMA ReleaseEndsType == ASSUME IInv, NEW t \in Threads, ReleaseEnds(t) PROVE StepOK
<1>1. ctl[t] \in InStep
  BY DEF ReleaseEnds, InStep
<1>2. \E outcome \in {"ok", "cancelled", "failure"} : MapEnds(t, outcome)
  BY DEF ReleaseEnds, Collected
<1> QED
  BY <1>1, <1>2, MapEndsType DEF IInv, LifeOK, ReleaseEnds

LEMMA RaceRejectsType == ASSUME IInv, NEW t \in Threads, RaceRejects(t) PROVE StepOK
<1>1. CASE MapEnds(t, "failure")
  BY <1>1, MapEndsType DEF IInv, LifeOK, RaceRejects, InStep
<1>2. CASE Throw(t, "failure") /\ UNCHANGED <<context, lc, compensationStack>>
  <2>1. ControlOK' /\ Evolves(lc, lc')
    BY <1>2, ControlThrow, EvolvesTrivially DEF IInv, LifeOK
  <2> QED
    BY <1>2, <2>1 DEF IInv, DataOK, StepOK, RaceRejects
<1> QED
  BY <1>1, <1>2 DEF RaceRejects

LEMMA StartParallelType == ASSUME IInv, NEW t \in Threads, StartParallel(t) PROVE StepOK
<1>1. PICK out \in SUBSET (BranchesOf[Cur(t)] \cap Gated) :
        /\ ctl' = [u \in Threads |-> IF u = t THEN "fanout"
                                     ELSE IF u \in out THEN "skipped"
                                     ELSE IF u \in BranchesOf[Cur(t)] THEN "ready"
                                     ELSE ctl[u]]
        /\ lc' = SkipUnits(lc, TotalUnitsOf(UNION {Slice(b, 1, Len(Body[b])) : b \in out}))
  BY DEF StartParallel
<1>2. pc[t] \in DOMAIN Body[t] /\ Cur(t) \in Steps
  BY CurType DEF IInv, StartParallel
<1>3. Main \notin BranchesOf[Cur(t)]
  BY <1>2, PlanAssumption DEF PlanAssumption
<1>4. ctl' \in [Threads -> Controls]
  BY <1>1 DEF IInv, ControlOK, Controls, BusyStates, BranchStates
<1>5. \A u \in Threads : ctl'[u] \in InStep => pc'[u] \in DOMAIN Body[u]
  BY <1>1, <1>2 DEF IInv, ControlOK, StartParallel, InStep
<1>6. ctl'[Main] \in {"poll", "review"} => \E g \in Gates : AfterStep[g] = Cur(Main)'
  BY <1>1, <1>3, MainIsThread DEF IInv, ControlOK, StartParallel, Cur
<1>7. Evolves(lc, lc')
  BY <1>1, TotalUnitsType, SkipUnitsEvolves DEF IInv, LifeOK
<1> QED
  BY <1>4, <1>5, <1>6, <1>7 DEF IInv, ControlOK, DataOK, StepOK, StartParallel

LEMMA ParallelSettlesType ==
  ASSUME IInv, NEW t \in Threads, ParallelSettles(t)
  PROVE  StepOK
<1>1. pc[t] \in DOMAIN Body[t]
  BY CurType DEF IInv, ParallelSettles, InStep
<1>2. CASE \E why \in {"cancelled", "failure"} : Throw(t, why) /\ UNCHANGED <<context, lc>>
  <2>1. ControlOK' /\ Evolves(lc, lc')
    BY <1>2, ControlThrow, EvolvesTrivially DEF IInv, LifeOK
  <2> QED
    BY <1>2, <2>1 DEF IInv, DataOK, StepOK, ParallelSettles
<1>3. CASE StepDone(t, lc)
  <2>1. ControlOK' /\ context' \subseteq Steps /\ Evolves(lc, lc')
    BY <1>1, <1>3, StepDoneType DEF IInv, DataOK, LifeOK
  <2> QED
    BY <2>1 DEF IInv, DataOK, StepOK, ParallelSettles
<1> QED
  BY <1>2, <1>3 DEF ParallelSettles
-----------------------------------------------------------------------------
(* The review gate *)

LEMMA CurrentGateType ==
  ASSUME IInv, ctl[Main] \in {"poll", "review"}
  PROVE  CurrentGate \in Gates /\ AfterStep[CurrentGate] = Cur(Main)
BY DEF IInv, ControlOK, CurrentGate

\* Every route of a gate is a step of the main sequence.
LEMMA RouteIndex ==
  ASSUME NEW g \in Gates,
         NEW s \in {UserDecisions[g][d] : d \in Decisions} \cup {TimeoutRoute[g]}, s # Null
  PROVE  IndexOf(s) \in DOMAIN Body[Main] /\ Body[Main][IndexOf(s)] = s
<1>1. \E k \in DOMAIN Body[Main] : Body[Main][k] = s
  BY PlanShape DEF PlanShape
<1> QED
  BY <1>1 DEF IndexOf

LEMMA JumpToType ==
  ASSUME IInv, NEW g \in Gates, NEW l \in LifecycleState,
         NEW s \in {UserDecisions[g][d] : d \in Decisions} \cup {TimeoutRoute[g]}, s # Null,
         JumpTo(s, l)
  PROVE  ControlOK' /\ Evolves(l, lc')
<1>1. IndexOf(s) \in Nat
  BY RouteIndex, BodyType, MainIsThread
<1>2. pc' \in [Threads -> Nat] /\ ctl' \in [Threads -> Controls]
  BY <1>1 DEF JumpTo, IInv, ControlOK, Controls, BusyStates
<1>3. \A u \in Threads : ctl'[u] \in InStep => pc'[u] \in DOMAIN Body[u]
  BY DEF JumpTo, IInv, ControlOK, InStep
<1>4. ctl'[Main] = "ready"
  BY MainIsThread DEF JumpTo, IInv, ControlOK
<1>5. Evolves(l, lc')
  BY TotalUnitsType, SkipUnitsEvolves DEF JumpTo
<1> QED
  BY <1>2, <1>3, <1>4, <1>5 DEF JumpTo, IInv, ControlOK

LEMMA GateEndsType ==
  ASSUME IInv, GateRaisesCancelled \/ GateFailsOnInvalid \/ ReviewRejects
  PROVE  StepOK
<1>1. ControlOK'
  BY MainIsThread, ControlThrow DEF IInv, GateRaisesCancelled, GateFailsOnInvalid, ReviewRejects
<1>2. Evolves(lc, lc')
  BY InvalidReviewFailedEvolves, EvolvesTrivially
     DEF IInv, LifeOK, GateRaisesCancelled, GateFailsOnInvalid, ReviewRejects
<1> QED
  BY <1>1, <1>2 DEF IInv, DataOK, StepOK, GateRaisesCancelled, GateFailsOnInvalid, ReviewRejects

LEMMA GateRoutesType == ASSUME IInv, GateRoutes PROVE StepOK
<1> DEFINE g == CurrentGate
           s == lc.gate[g].routeTarget
<1>1. g \in Gates
  BY CurrentGateType DEF GateRoutes, Polling
<1>2. s \in {UserDecisions[g][d] : d \in Decisions} \cup {TimeoutRoute[g]} /\ s # Null
  BY <1>1 DEF IInv, LifeOK, RoutesKnown, GateRoutes
<1>3. JumpTo(s, GateRouted(lc, g))
  BY DEF GateRoutes
<1> HIDE DEF g, s
<1>4. Evolves(lc, GateRouted(lc, g))
  BY <1>1, GateRoutedEvolves DEF IInv, LifeOK
<1>5. ControlOK' /\ Evolves(GateRouted(lc, g), lc')
  BY <1>1, <1>2, <1>3, <1>4, JumpToType DEF Evolves
<1>6. Evolves(lc, lc')
  BY <1>4, <1>5, EvolvesTransitive
<1> QED
  BY <1>5, <1>6 DEF IInv, DataOK, StepOK, GateRoutes

LEMMA GateKeepsWaitingType == ASSUME IInv, GateKeepsWaiting PROVE StepOK
<1>1. ctl' = [ctl EXCEPT ![Main] = "review"] /\ pc' = pc /\ cause' = cause
  BY DEF GateKeepsWaiting
<1>2. ctl[Main] \in {"poll", "review"}
  BY DEF GateKeepsWaiting, Polling
<1>3. pc[Main] \in DOMAIN Body[Main] /\ \E g \in Gates : AfterStep[g] = Cur(Main)
  BY <1>2, MainIsThread DEF IInv, ControlOK, InStep
<1>4. ctl' \in [Threads -> Controls]
  BY <1>1 DEF IInv, ControlOK, Controls, MainStates
<1>5. \A u \in Threads : ctl'[u] \in InStep => pc'[u] \in DOMAIN Body[u]
  BY <1>1, <1>3 DEF IInv, ControlOK
<1>6. ControlOK'
  BY <1>1, <1>3, <1>4, <1>5 DEF IInv, ControlOK, Cur
<1>7. Evolves(lc, lc')
  BY SignalledEvolves DEF IInv, LifeOK, GateKeepsWaiting
<1> QED
  BY <1>6, <1>7 DEF IInv, DataOK, StepOK, GateKeepsWaiting

LEMMA GateTimesOutType == ASSUME IInv, GateTimesOut PROVE StepOK
<1> DEFINE g == CurrentGate
<1>1. g \in Gates
  BY CurrentGateType DEF GateTimesOut
<1>2. Evolves(lc, GateTimedOut(lc, g))
  BY <1>1, GateTimedOutEvolves DEF IInv, LifeOK
<1>3. CASE OnTimeout[g] = "route"
  <2>1. TimeoutRoute[g] # Null
    BY <1>1, <1>3, LifecycleAssumption DEF LifecycleAssumption
  <2>2. JumpTo(TimeoutRoute[g], GateTimedOut(lc, g))
    BY <1>3 DEF GateTimesOut
  <2> HIDE DEF g
  <2>3. ControlOK' /\ Evolves(GateTimedOut(lc, g), lc')
    BY <1>1, <1>2, <2>1, <2>2, JumpToType DEF Evolves
  <2>4. Evolves(lc, lc')
    BY <1>2, <2>3, EvolvesTransitive
  <2> QED
    BY <2>3, <2>4 DEF IInv, DataOK, StepOK, GateTimesOut
<1>4. CASE OnTimeout[g] # "route"
  <2>1. ControlOK'
    BY <1>4, MainIsThread, ControlThrow DEF IInv, GateTimesOut
  <2>2. Evolves(lc, lc')
    BY <1>2, <1>4 DEF GateTimesOut
  <2> QED
    BY <2>1, <2>2 DEF IInv, DataOK, StepOK, GateTimesOut
<1> QED
  BY <1>3, <1>4
-----------------------------------------------------------------------------
(* The unwind *)

LEMMA StartCompensationType == ASSUME IInv, StartCompensation PROVE StepOK
<1> DEFINE S == Steps \X SUBSET Nat
           top == compensationStack[Len(compensationStack)]
           rest == SubSeq(compensationStack, 1, Len(compensationStack) - 1)
<1>1. compensationStack \in Seq(S) /\ compensationStack # <<>>
  BY DEF IInv, DataOK, StartCompensation
<1>2. top \in S
  BY <1>1
<1>3. rest \in Seq(S)
  <2>1. \A i \in 1..(Len(compensationStack) - 1) : compensationStack[i] \in S
    BY <1>1
  <2> QED
    BY <1>1, <2>1, SubSeqProperties
<1>4. PICK i \in top[2] :
        /\ compensationStack' =
             IF top[2] = {i} THEN rest ELSE Append(rest, <<top[1], top[2] \ {i}>>)
        /\ undone' = Append(undone, <<top[1], i>>)
  BY DEF StartCompensation
<1> HIDE DEF top, rest
<1>5. compensationStack' \in Seq(S)
  <2>1. <<top[1], top[2] \ {i}>> \in S
    BY <1>2
  <2> QED
    BY <1>3, <1>4, <2>1, AppendProperties
<1>6. undone' \in Seq(Ops)
  <2>1. <<top[1], i>> \in Ops
    BY <1>2 DEF Ops
  <2> QED
    BY <1>4, <2>1, AppendProperties DEF IInv, DataOK
<1>7. ControlOK'
  BY MainIsThread, ControlMove DEF IInv, StartCompensation, Controls, MainStates, InStep
<1>8. Evolves(lc, lc')
  BY EvolvesTrivially DEF IInv, LifeOK, StartCompensation
<1> QED
  BY <1>5, <1>6, <1>7, <1>8 DEF IInv, DataOK, StepOK, StartCompensation

LEMMA CompensationEndsType == ASSUME IInv, CompensationEnds PROVE StepOK
<1>1. ControlOK'
  BY MainIsThread, ControlMove DEF IInv, CompensationEnds, Controls, MainStates, InStep
<1>2. Evolves(lc, lc')
  BY EvolvesTrivially DEF IInv, LifeOK, CompensationEnds
<1> QED
  BY <1>1, <1>2 DEF IInv, DataOK, StepOK, CompensationEnds

LEMMA FinishUnwindType == ASSUME IInv, FinishUnwind PROVE StepOK
<1>1. ControlOK'
  BY MainIsThread, ControlMove DEF IInv, FinishUnwind, Controls, MainStates, InStep
<1>2. CompensationStatus \in {"none", "partial", "complete"}
  BY DEF CompensationStatus
<1>3. Evolves(lc, lc')
  BY <1>2, CancelledWithEvolves, FailedWithEvolves DEF IInv, LifeOK, FinishUnwind
<1> QED
  BY <1>1, <1>3 DEF IInv, DataOK, StepOK, FinishUnwind
-----------------------------------------------------------------------------
(* The invariant *)

LEMMA InitInv == Init => IInv
<1> SUFFICES ASSUME Init PROVE IInv
  OBVIOUS
<1>1. ctl \in [Threads -> Controls] /\ \A t \in Threads : ctl[t] \in {"start", "idle"}
  BY DEF Init, Controls, MainStates, BranchStates
<1>2. ControlOK
  BY <1>1, MainIsThread DEF Init, ControlOK, Causes, InStep
<1>3. DataOK
  <2>1. item \in [Items -> {"waiting", "running", "done", "failed"}]
    BY DEF Init
  <2>2. compensationStack \in Seq(Steps \X SUBSET Nat) /\ undone \in Seq(Ops)
    BY EmptySeq DEF Init
  <2>3. reviews \in 0 .. MaxReviews
    BY PlanAssumption DEF Init
  <2>4. context \subseteq Steps /\ effects \subseteq Ops
    BY DEF Init
  <2> QED
    BY <2>1, <2>2, <2>3, <2>4 DEF Init, DataOK
<1>4. LifeOK
  BY NewLifecycleType DEF Init, LifeOK
<1> QED
  BY <1>2, <1>3, <1>4 DEF IInv

LEMMA StepType == ASSUME IInv, NEW t \in Threads, Step(t) PROVE StepOK
BY RaiseType, SequenceType, StartAtomicType, AtomicCompletesType, AtomicRecordedType,
   StartMapType, PrepCompletesType, MapSettlesType, ReleaseEndsType, RaceRejectsType,
   StartParallelType, ParallelSettlesType DEF Step

LEMMA GateType == ASSUME IInv, Gate PROVE StepOK
BY GateEndsType, GateRoutesType, GateKeepsWaitingType, GateTimesOutType DEF Gate

LEMMA UnwindType == ASSUME IInv, Unwind PROVE StepOK
BY StartCompensationType, CompensationEndsType, FinishUnwindType DEF Unwind

LEMMA StutterType == ASSUME IInv, UNCHANGED vars PROVE StepOK
<1>1. ControlOK'
  BY ControlSame DEF IInv, vars
<1>2. Evolves(lc, lc')
  BY EvolvesTrivially DEF IInv, LifeOK, vars
<1> QED
  BY <1>1, <1>2 DEF IInv, DataOK, StepOK, vars

LEMMA NextType == ASSUME IInv, [Next]_vars PROVE StepOK
<1>1. CASE \E t \in Threads : Step(t)
  BY <1>1, StepType
<1> QED
  BY <1>1, StartType, ItemSettlesType, GateType, UnwindType, SignalType, StutterType
     DEF Next, Closed

LEMMA StepInv == IInv /\ [Next]_vars => IInv'
BY NextType DEF IInv, StepOK, LifeOK, Evolves

LEMMA InvHolds == Spec => []IInv
BY InitInv, StepInv, PTL DEF Spec

\* In every run of every plan each variable keeps its type: a thread at work is
\* at a step of its sequence, the totals of the progress never go below zero.
THEOREM TypeCorrect == Spec => []TypeOK
<1>1. IInv => TypeOK
  BY DEF IInv, ControlOK, DataOK, LifeOK, TypeOK, Causes, Controls
<1> QED
  BY <1>1, InvHolds, PTL
-----------------------------------------------------------------------------
(* Action properties *)

\* A gate that has routed or timed out never waits again, whatever commands
\* and signals arrive: pendingGateAfter and gateRouted (lifecycle.ts).
THEOREM GateFiresOnceHolds == Spec => GateFiresOnce
<1> DEFINE A == \A g \in Gates : lc.gate[g].fired => lc'.gate[g].fired /\ ~lc'.gate[g].waiting
<1>1. IInv /\ [Next]_vars => [A]_vars
  BY NextType DEF IInv, LifeOK, StepOK, Evolves, FiredGatesClosed, KeepsFired
<1> QED
  BY <1>1, InvHolds, PTL DEF Spec, GateFiresOnce

\* In every fan-out, however many items and workers, no item starts once a
\* sibling has failed: the failed flag of fanOut (composition.ts).
THEOREM NoItemAfterFailureHolds == Spec => NoItemAfterFailure
<1> DEFINE A == \A x, y \in Items :
                  x[1] = y[1] /\ item[x] = "failed" /\ item[y] # "running" => item'[y] # "running"
<1>1. IInv /\ [Next]_vars => [A]_vars
  <2> SUFFICES ASSUME IInv, Next, NEW x \in Items, NEW y \in Items,
                      x[1] = y[1], item[x] = "failed", item[y] # "running"
               PROVE  item'[y] # "running"
    OBVIOUS
  <2>1. ASSUME NEW s, NEW f, f[x] = "failed", f[y] # "running"
        PROVE  Claim(s, f)[y] # "running"
    <3> DEFINE settled == {z \in ItemsOf(s) : f[z] = "done"}
               claimed == {z \in ItemsOf(s) : /\ f[z] = "waiting"
                                              /\ z[2] <= Concurrency[s] + Cardinality(settled)
                                              /\ \A w \in ItemsOf(s) : f[w] # "failed"}
    <3>1. Claim(s, f)[y] = IF y \notin claimed THEN f[y]
                           ELSE IF FanOutCancelled THEN "failed" ELSE "running"
      BY DEF Claim
    <3>2. y \in ItemsOf(s) => x \in ItemsOf(s)
      BY DEF Items, ItemsOf
    <3> QED
      BY <2>1, <3>1, <3>2
  <2>2. CASE \E t \in Threads : FanOutItems(t)
    BY <2>1, <2>2 DEF FanOutItems
  <2>3. CASE \E z \in Items : ItemCompletes(z)
    <3>1. PICK z \in Items : ItemCompletes(z)
      BY <2>3
    <3> DEFINE f == [item EXCEPT ![z] = "done"]
    <3>2. f[x] = "failed" /\ f[y] # "running"
      BY <3>1 DEF ItemCompletes, IInv, DataOK
    <3> QED
      BY <2>1, <3>1, <3>2 DEF ItemCompletes
  <2>4. CASE \E z \in Items : ItemFails(z)
    BY <2>4 DEF ItemFails, IInv, DataOK
  <2>5. CASE UNCHANGED item
    BY <2>5
  <2>6. \A t \in Threads : Step(t) => FanOutItems(t) \/ UNCHANGED item
    BY DEF Step, RaiseIfCancelled, SkipRemainder, FinishSequence, StartAtomic,
           AtomicCompletes, AtomicRecorded, AtomicFails, StartMap, PrepCompletes, PrepFails, MapSettles,
           ReleaseEnds, RaceRejects, StartParallel, ParallelSettles
  <2>7. Start \/ Gate \/ Unwind \/ Signal \/ Closed => UNCHANGED item
    BY DEF Start, Gate, GateRaisesCancelled, GateFailsOnInvalid, GateRoutes,
           GateKeepsWaiting, GateTimesOut, ReviewRejects, Unwind, StartCompensation,
           CompensationEnds, FinishUnwind, Signal, RequestCancel, SubmitReview,
           CancelNatively, Closed, vars
  <2> QED
    BY <2>2, <2>3, <2>4, <2>5, <2>6, <2>7 DEF Next, ItemSettles
<1> QED
  BY <1>1, InvHolds, PTL DEF Spec, NoItemAfterFailure
-----------------------------------------------------------------------------
(* What a step of a sequence is, seen from the main sequence and the       *)
(* lifecycle record.                                                       *)

\* Only the progress units differ.
Counts(l, m) ==
  /\ m.gate = l.gate
  /\ m.waitingCheckpoint = l.waitingCheckpoint
  /\ m.signalled = l.signalled
  /\ m.cancellationRequested = l.cancellationRequested
  /\ m.terminalStatus = l.terminalStatus
  /\ m.compensationStatus = l.compensationStatus

LEMMA UnitsCount ==
  ASSUME NEW l \in LifecycleState, NEW n \in Nat
  PROVE  /\ Counts(l, l)
         /\ UnitCompleted(l) \in LifecycleState /\ Counts(l, UnitCompleted(l))
         /\ AddUnits(l, n) \in LifecycleState /\ Counts(l, AddUnits(l, n))
         /\ SkipUnits(l, n) \in LifecycleState /\ Counts(l, SkipUnits(l, n))
<1>1. UnitCompleted(l) \in LifecycleState /\ Counts(l, UnitCompleted(l))
  BY DEF UnitCompleted, LifecycleState, Counts
<1>2. AddUnits(l, n) \in LifecycleState /\ Counts(l, AddUnits(l, n))
  BY DEF AddUnits, LifecycleState, Counts
<1>3. SkipUnits(l, n) \in LifecycleState /\ Counts(l, SkipUnits(l, n))
  BY DEF SkipUnits, LifecycleState, Counts
<1> QED
  BY <1>1, <1>2, <1>3 DEF Counts

\* The ways in which a thread leaves the place it is at.
ThrowsOut(t) ==
  \E why \in {"cancelled", "failure"} :
    /\ Throw(t, why)
    /\ Counts(lc, lc')
    /\ why = "cancelled" => lc.cancellationRequested
GoesOn(t) == \E l \in LifecycleState : Counts(lc, l) /\ StepDone(t, l)
Ends(t) == \E l \in LifecycleState : Counts(lc, l) /\ EndSequence(t, l) /\ UNCHANGED <<pc, cause>>
Waits(t) ==
  \E c \in {"activity", "resolved", "prep", "fanout", "release"} :
    ctl' = [ctl EXCEPT ![t] = c] /\ UNCHANGED <<pc, cause>> /\ Counts(lc, lc')
Splits(t) == StartParallel(t) /\ Counts(lc, lc')

Moves(t) ==
  /\ Open
  /\ ctl[t] \in BusyStates
  /\ ctl[t] # "ready" => pc[t] \in DOMAIN Body[t]
  /\ lc' \in LifecycleState
  /\ ThrowsOut(t) \/ GoesOn(t) \/ Ends(t) \/ Waits(t) \/ Splits(t)
  /\ UNCHANGED rootCancelled

LEMMA MapEndsMoves ==
  ASSUME IInv, NEW t \in Threads, NEW outcome \in {"ok", "cancelled", "failure"},
         MapEnds(t, outcome), outcome = "cancelled" => lc.cancellationRequested
  PROVE  ThrowsOut(t) \/ GoesOn(t)
<1>1. lc \in LifecycleState /\ Counts(lc, lc)
  BY UnitsCount DEF IInv, LifeOK, Counts
<1>2. CASE StepDone(t, lc)
  BY <1>1, <1>2 DEF GoesOn
<1>3. CASE outcome # "ok" /\ Throw(t, outcome) /\ UNCHANGED lc
  BY <1>1, <1>3 DEF ThrowsOut
<1>4. CASE Throw(t, "failure") /\ UNCHANGED lc
  BY <1>1, <1>4 DEF ThrowsOut
<1> QED
  BY <1>2, <1>3, <1>4 DEF MapEnds

LEMMA StepMoves == ASSUME IInv, NEW t \in Threads, Step(t) PROVE Moves(t)
<1>1. lc \in LifecycleState /\ lc' \in LifecycleState /\ Counts(lc, lc)
  BY StepType, UnitsCount DEF IInv, LifeOK, StepOK, Evolves
<1> DEFINE Way == ThrowsOut(t) \/ GoesOn(t) \/ Ends(t) \/ Waits(t) \/ Splits(t)
<1>2. ctl[t] # "ready" /\ ctl[t] \in BusyStates => pc[t] \in DOMAIN Body[t]
  BY DEF IInv, ControlOK, BusyStates, InStep
<1> SUFFICES /\ Open /\ ctl[t] \in BusyStates /\ UNCHANGED rootCancelled
             /\ Way
  BY <1>2, <1>1 DEF Moves
<1>3. CASE RaiseIfCancelled(t) \/ AtomicFails(t) \/ PrepFails(t)
  BY <1>1, <1>3 DEF RaiseIfCancelled, AtomicFails, PrepFails, AtStep, BusyStates, ThrowsOut
<1>4. CASE SkipRemainder(t) \/ FinishSequence(t)
  BY <1>1, <1>4, TotalUnitsType, UnitsCount DEF SkipRemainder, FinishSequence, AtStep, BusyStates, Ends
<1>5. CASE StartAtomic(t)
  BY <1>1, <1>5 DEF StartAtomic, AtStep, BusyStates, ThrowsOut, Waits
<1>6. CASE AtomicCompletes(t)
  <2>1. UnitCompleted(lc) \in LifecycleState /\ Counts(lc, UnitCompleted(lc))
    BY <1>1, UnitsCount
  <2> QED
    BY <1>6, <2>1 DEF AtomicCompletes, BusyStates, Waits
<1>14. CASE AtomicRecorded(t)
  BY <1>1, <1>14 DEF AtomicRecorded, BusyStates, ThrowsOut, GoesOn
<1>7. CASE StartMap(t)
  <2>1. Cur(t) \in Steps
    BY <1>7, CurType DEF IInv, StartMap
  <2>2. Size[Cur(t)] \in Nat
    BY <2>1, PlanAssumption DEF PlanAssumption
  <2>3. Counts(lc, lc')
    BY <1>1, <1>7, <2>2, UnitsCount DEF StartMap
  <2> QED
    BY <1>7, <2>3 DEF StartMap, FanOutItems, AtStep, BusyStates, ThrowsOut, Waits
<1>8. CASE PrepCompletes(t)
  BY <1>1, <1>8 DEF PrepCompletes, FanOutItems, BusyStates, Waits
<1>9. CASE MapSettles(t)
  <2>1. Open /\ ctl[t] \in BusyStates /\ UNCHANGED rootCancelled
    BY <1>9 DEF MapSettles, BusyStates
  <2>2. CASE \E outcome \in {"ok", "failure"} : MapEnds(t, outcome)
    BY <2>1, <2>2, MapEndsMoves
  <2>3. CASE lc.cancellationRequested /\ MapEnds(t, "cancelled")
    BY <2>1, <2>3, MapEndsMoves
  <2>4. CASE ctl' = [ctl EXCEPT ![t] = "release"] /\ UNCHANGED <<pc, cause, lc>>
    BY <1>1, <2>1, <2>4 DEF Waits
  <2> QED
    BY <1>9, <2>2, <2>3, <2>4 DEF MapSettles, Collected
<1>10. CASE ReleaseEnds(t)
  <2>1. \E outcome \in {"ok", "failure"} : MapEnds(t, outcome)
    BY <1>10 DEF ReleaseEnds, Collected
  <2> QED
    BY <1>10, <2>1, MapEndsMoves DEF ReleaseEnds, BusyStates
<1>11. CASE RaceRejects(t)
  <2>1. ThrowsOut(t) \/ GoesOn(t)
    BY <1>1, <1>11, MapEndsMoves DEF RaceRejects, ThrowsOut
  <2> QED
    BY <1>11, <2>1 DEF RaceRejects, BusyStates
<1>12. CASE StartParallel(t)
  BY <1>1, <1>12, TotalUnitsType, UnitsCount DEF StartParallel, AtStep, BusyStates, Splits
<1>13. CASE ParallelSettles(t)
  BY <1>1, <1>13 DEF ParallelSettles, BusyStates, ThrowsOut, GoesOn
<1> QED
  BY <1>3, <1>4, <1>5, <1>6, <1>7, <1>8, <1>9, <1>10, <1>11, <1>12, <1>13, <1>14 DEF Step

\* A branch does nothing to the main sequence.
LEMMA BranchMoves ==
  ASSUME IInv, NEW t \in Threads, t # Main, Moves(t)
  PROVE  /\ ctl'[Main] = ctl[Main] /\ pc'[Main] = pc[Main] /\ cause' = cause
         /\ Counts(lc, lc')
<1>1. CASE ThrowsOut(t)
  BY <1>1, MainIsThread DEF ThrowsOut, Throw, IInv, ControlOK
<1>2. CASE GoesOn(t)
  BY <1>2, MainIsThread DEF GoesOn, StepDone, IInv, ControlOK, Counts
<1>3. CASE Ends(t)
  BY <1>3, MainIsThread DEF Ends, EndSequence, IInv, ControlOK, Counts
<1>4. CASE Waits(t)
  BY <1>4, MainIsThread DEF Waits, IInv, ControlOK
<1>5. CASE Splits(t)
  <2>1. Main \notin BranchesOf[Cur(t)]
    <3>1. Cur(t) \in Steps
      BY <1>5, CurType DEF Splits, StartParallel, IInv
    <3> QED
      BY <3>1, PlanAssumption DEF PlanAssumption
  <2>2. PICK out \in SUBSET (BranchesOf[Cur(t)] \cap Gated) :
          ctl' = [u \in Threads |-> IF u = t THEN "fanout"
                                    ELSE IF u \in out THEN "skipped"
                                    ELSE IF u \in BranchesOf[Cur(t)] THEN "ready"
                                    ELSE ctl[u]]
    BY <1>5 DEF Splits, StartParallel
  <2> QED
    BY <1>5, <2>1, <2>2, MainIsThread DEF Splits, StartParallel
<1> QED
  BY <1>1, <1>2, <1>3, <1>4, <1>5 DEF Moves
-----------------------------------------------------------------------------
(* One gate waits *)

Ending == {"unwind", "compensating", "threw"}
AtGate == {"poll", "review"}

\* The gate the run waits at is the only one that waits; no gate waits while
\* the main sequence runs on; a decision taken before the gate looked again has
\* left its signal.
GateInv ==
  /\ \A g, h \in WaitingGates(lc) : g = h
  /\ ctl[Main] \notin AtGate \cup Ending => WaitingGates(lc) = {}
  /\ ctl[Main] \in AtGate =>
       CurrentGate \in WaitingGates(lc) /\ lc.waitingCheckpoint = Cur(Main)
  /\ ctl[Main] = "review" /\ lc.gate[CurrentGate].routeTarget # Null => lc.signalled

\* What the gates look like after a command.
SameGates(l, m) ==
  /\ WaitingGates(m) = WaitingGates(l)
  /\ m.waitingCheckpoint = l.waitingCheckpoint

LEMMA CountsSameGates == ASSUME NEW l, NEW m, Counts(l, m) PROVE SameGates(l, m)
BY DEF Counts, SameGates, WaitingGates

LEMMA CurrentGateSame ==
  ASSUME pc'[Main] = pc[Main] PROVE Cur(Main)' = Cur(Main) /\ CurrentGate' = CurrentGate
BY DEF Cur, CurrentGate

LEMMA GateInvKept ==
  ASSUME GateInv, ctl'[Main] = ctl[Main], pc'[Main] = pc[Main], SameGates(lc, lc'),
         ctl[Main] = "review" =>
           \/ lc'.signalled
           \/ /\ lc'.gate[CurrentGate].routeTarget = lc.gate[CurrentGate].routeTarget
              /\ lc'.signalled = lc.signalled
  PROVE  GateInv'
<1>1. WaitingGates(lc') = WaitingGates(lc) /\ lc'.waitingCheckpoint = lc.waitingCheckpoint
  BY DEF SameGates
<1>2. WaitingGates(lc)' = WaitingGates(lc')
  BY DEF WaitingGates
<1> QED
  BY <1>1, <1>2, CurrentGateSame DEF GateInv

\* The main sequence leaves its gate, or runs on, and no gate waits.
LEMMA GateInvClosed ==
  ASSUME WaitingGates(lc') = {}, ctl'[Main] \notin AtGate
  PROVE  GateInv'
BY DEF GateInv, WaitingGates, AtGate

\* The run turns to its unwind, or goes on with it.
LEMMA GateInvEnding ==
  ASSUME GateInv, SameGates(lc, lc'), ctl'[Main] \in Ending
  PROVE  GateInv'
<1>1. WaitingGates(lc)' = WaitingGates(lc)
  BY DEF SameGates, WaitingGates
<1> QED
  BY <1>1 DEF GateInv, Ending, AtGate

LEMMA WaitingForGateOpens ==
  ASSUME NEW l \in LifecycleState, NEW g \in Gates, WaitingGates(l) = {}
  PROVE  /\ WaitingGates(WaitingForGate(l, g)) = {g}
         /\ WaitingForGate(l, g).waitingCheckpoint = AfterStep[g]
<1> DEFINE m == [l EXCEPT !.gate[g].waiting = TRUE, !.signalled = FALSE]
<1>1. \A h \in Gates : m.gate[h].waiting <=> h = g \/ l.gate[h].waiting
  BY DEF LifecycleState, GateState
<1>2. m \in LifecycleState
  BY DEF LifecycleState, GateState
<1>3. WaitingForGate(l, g) = RefreshWaiting(m)
  BY DEF WaitingForGate
<1> HIDE DEF m
<1>4. WaitingGates(m) = {g}
  BY <1>1 DEF WaitingGates
<1>5. (CHOOSE h \in WaitingGates(m) : TRUE) = g
  BY <1>4
<1>6. RefreshWaiting(m).gate = m.gate
  BY <1>2, RefreshWaitingType
<1>7. WaitingGates(RefreshWaiting(m)) = {g}
  BY <1>4, <1>6 DEF WaitingGates
<1>8. RefreshWaiting(m) = [m EXCEPT !.state = "waiting_for_review",
                                    !.waitingCheckpoint = AfterStep[g]]
  BY <1>4, <1>5 DEF RefreshWaiting
<1>9. RefreshWaiting(m).waitingCheckpoint = AfterStep[g]
  BY <1>2, <1>8 DEF LifecycleState
<1> QED
  BY <1>3, <1>7, <1>9

LEMMA MainMovesGate ==
  ASSUME IInv, GateInv, Moves(Main)
  PROVE  GateInv'
<1>1. ctl[Main] \notin AtGate \cup Ending /\ WaitingGates(lc) = {}
  BY DEF Moves, GateInv, BusyStates, AtGate, Ending
<1>2. ctl \in [Threads -> Controls] /\ Main \in Threads
  BY MainIsThread DEF IInv, ControlOK
<1>3. CASE ThrowsOut(Main)
  <2>1. ctl'[Main] = "unwind" /\ SameGates(lc, lc')
    BY <1>2, <1>3, CountsSameGates DEF ThrowsOut, Throw
  <2> QED
    BY <2>1, GateInvEnding DEF Ending
<1>4. CASE GoesOn(Main)
  <2>1. PICK l \in LifecycleState : Counts(lc, l) /\ StepDone(Main, l)
    BY <1>4 DEF GoesOn
  <2>2. WaitingGates(l) = {}
    BY <1>1, <2>1 DEF Counts, WaitingGates
  <2>3. CASE PendingGatesAfter(l, Cur(Main)) = {}
    BY <1>2, <2>1, <2>2, <2>3, GateInvClosed DEF StepDone, AtGate
  <2>4. CASE PendingGatesAfter(l, Cur(Main)) # {}
    <3> DEFINE g == CHOOSE h \in PendingGatesAfter(l, Cur(Main)) : TRUE
    <3>1. g \in Gates /\ AfterStep[g] = Cur(Main)
      BY <2>4 DEF PendingGatesAfter
    <3>2. ctl'[Main] = "poll" /\ pc' = pc /\ lc' = WaitingForGate(l, g)
      BY <1>2, <2>1, <2>4 DEF StepDone
    <3> HIDE DEF g
    <3>3. WaitingGates(lc') = {g} /\ lc'.waitingCheckpoint = AfterStep[g]
      BY <2>2, <3>1, <3>2, WaitingForGateOpens
    <3>4. CurrentGate' = g /\ Cur(Main)' = Cur(Main)
      BY <3>1, <3>2, CurrentGateSame, LifecycleAssumption DEF CurrentGate, LifecycleAssumption
    <3>5. WaitingGates(lc)' = {g}
      BY <3>3 DEF WaitingGates
    <3> QED
      BY <3>1, <3>2, <3>3, <3>4, <3>5 DEF GateInv, AtGate, Ending
  <2> QED
    BY <2>3, <2>4
<1>5. CASE Ends(Main)
  <2>1. PICK l \in LifecycleState : Counts(lc, l) /\ EndSequence(Main, l)
    BY <1>5 DEF Ends
  <2>2. ctl'[Main] = "returned" /\ lc' = Completed(l)
    BY <1>2, <2>1 DEF EndSequence
  <2>3. Completed(l).gate = l.gate
    BY DEF Completed, LifecycleState
  <2> QED
    BY <1>1, <2>1, <2>2, <2>3, GateInvClosed DEF Counts, WaitingGates, AtGate
<1>6. CASE Waits(Main)
  BY <1>1, <1>2, <1>6, GateInvClosed, CountsSameGates DEF Waits, SameGates, AtGate
<1>7. CASE Splits(Main)
  <2>1. ctl'[Main] = "fanout"
    BY <1>2, <1>7 DEF Splits, StartParallel
  <2> QED
    BY <1>1, <1>7, <2>1, GateInvClosed, CountsSameGates DEF Splits, SameGates, AtGate
<1> QED
  BY <1>3, <1>4, <1>5, <1>6, <1>7 DEF Moves

LEMMA StepGate == ASSUME IInv, GateInv, NEW t \in Threads, Moves(t) PROVE GateInv'
<1>1. CASE t = Main
  BY <1>1, MainMovesGate
<1>2. CASE t # Main
  <2>1. ctl'[Main] = ctl[Main] /\ pc'[Main] = pc[Main] /\ Counts(lc, lc')
    BY <1>2, BranchMoves
  <2> QED
    BY <2>1, CountsSameGates, GateInvKept DEF Counts
<1> QED
  BY <1>1, <1>2
-----------------------------------------------------------------------------
(* Commands *)

LEMMA InvalidDecisionGates ==
  ASSUME NEW l \in LifecycleState, NEW g \in Gates
  PROVE  SameGates(l, InvalidDecision(l, g)) /\ InvalidDecision(l, g).signalled
BY DEF InvalidDecision, LifecycleState, GateState, SameGates, WaitingGates

LEMMA MalformedGates ==
  ASSUME NEW l \in LifecycleState
  PROVE  SameGates(l, SubmittedMalformed(l)) /\ SubmittedMalformed(l).signalled
<1>1. /\ SameGates(l, [l EXCEPT !.signalled = TRUE])
      /\ [l EXCEPT !.signalled = TRUE].signalled
  BY DEF LifecycleState, SameGates, WaitingGates
<1>2. Cardinality(Gates) = 1 => (CHOOSE g \in Gates : TRUE) \in Gates
  BY FS_EmptySet
<1> QED
  BY <1>1, <1>2, InvalidDecisionGates DEF SubmittedMalformed

LEMMA SubmittedGates ==
  ASSUME NEW l \in LifecycleState, NEW named \in Gates \cup {Null}, NEW d \in Decisions
  PROVE  SameGates(l, SubmittedReview(l, named, d)) /\ SubmittedReview(l, named, d).signalled
<1>1. CASE TargetGates(l, named) = {}
  <2>1. SubmittedReview(l, named, d) = [l EXCEPT !.signalled = TRUE]
    BY <1>1 DEF SubmittedReview
  <2> QED
    BY <2>1 DEF LifecycleState, SameGates, WaitingGates
<1>2. CASE TargetGates(l, named) # {}
  <2> DEFINE g == CHOOSE h \in TargetGates(l, named) : TRUE
             r == UserDecisions[g][d]
             m == SubmittedReview(l, named, d)
  <2>1. g \in Gates
    BY <1>2, TargetGatesType
  <2>2. m = IF r = Null THEN InvalidDecision(l, g)
            ELSE [l EXCEPT !.signalled = TRUE, !.gate[g].routeTarget = r,
                           !.reviewRouteTarget = r]
    BY <1>2 DEF SubmittedReview
  <2> HIDE DEF g, r, m
  <2>3. r # Null => SameGates(l, m) /\ m.signalled
    BY <2>1, <2>2 DEF LifecycleState, GateState, SameGates, WaitingGates
  <2> QED
    BY <2>1, <2>2, <2>3, InvalidDecisionGates DEF m
<1> QED
  BY <1>1, <1>2

LEMMA SignalGate == ASSUME IInv, GateInv, Signal PROVE GateInv'
<1>1. ctl' = ctl /\ pc' = pc
  BY DEF Signal, RequestCancel, SubmitReview, CancelNatively
<1>2. CASE RequestCancel
  <2>1. SameGates(lc, lc') /\ lc'.gate = lc.gate /\ lc'.signalled = lc.signalled
    BY <1>2 DEF RequestCancel, RequestCancelled, IInv, LifeOK, LifecycleState, SameGates, WaitingGates
  <2> QED
    BY <1>1, <2>1, GateInvKept
<1>3. CASE SubmitReview
  <2>1. SameGates(lc, lc') /\ lc'.signalled
    <3>1. CASE lc' = SubmittedMalformed(lc)
      BY <3>1, MalformedGates DEF IInv, LifeOK
    <3>2. CASE \E named \in Gates \cup {Null}, d \in Decisions : lc' = SubmittedReview(lc, named, d)
      BY <3>2, SubmittedGates DEF IInv, LifeOK
    <3> QED
      BY <1>3, <3>1, <3>2 DEF SubmitReview
  <2> QED
    BY <1>1, <2>1, GateInvKept
<1>4. CASE CancelNatively
  BY <1>1, <1>4, GateInvKept DEF CancelNatively, SameGates
<1> QED
  BY <1>2, <1>3, <1>4 DEF Signal
-----------------------------------------------------------------------------
(* The gate *)

\* Which gates an action of the gate loop closes.
LEMMA GateRoutedCloses ==
  ASSUME NEW l \in LifecycleState, NEW g \in Gates
  PROVE  /\ WaitingGates(GateRouted(l, g)) = WaitingGates(l) \ {g}
         /\ \A h \in Gates \ {g} : GateRouted(l, g).gate[h] = l.gate[h]
<1> DEFINE m == [l EXCEPT !.gate[g].waiting = FALSE, !.gate[g].fired = TRUE,
                          !.reviewRouteTarget = l.gate[g].routeTarget]
           n == [l.gate EXCEPT ![g].waiting = FALSE, ![g].fired = TRUE]
<1>1. m \in LifecycleState
  <2>1. n \in [Gates -> GateState] /\ l.gate[g].routeTarget \in Steps \cup {Null}
    BY DEF LifecycleState, GateState
  <2>2. m = [l EXCEPT !.gate = n, !.reviewRouteTarget = l.gate[g].routeTarget]
    BY DEF LifecycleState
  <2> HIDE DEF m, n
  <2> QED
    BY <2>1, <2>2 DEF LifecycleState
<1>2. ~m.gate[g].waiting /\ \A h \in Gates \ {g} : m.gate[h] = l.gate[h]
  BY DEF LifecycleState, GateState
<1>3. GateRouted(l, g) = RefreshWaiting(m)
  BY DEF GateRouted
<1> HIDE DEF m
<1>4. RefreshWaiting(m).gate = m.gate
  BY <1>1, RefreshWaitingType
<1> QED
  BY <1>2, <1>3, <1>4 DEF WaitingGates

LEMMA GateTimedOutCloses ==
  ASSUME NEW l \in LifecycleState, NEW g \in Gates
  PROVE  /\ WaitingGates(GateTimedOut(l, g)) = WaitingGates(l) \ {g}
         /\ \A h \in Gates \ {g} : GateTimedOut(l, g).gate[h] = l.gate[h]
<1> DEFINE m == GateClosed(l, g)
<1>1. /\ m \in LifecycleState
      /\ ~m.gate[g].waiting
      /\ \A h \in Gates \ {g} : m.gate[h] = l.gate[h]
  BY GateClosedType
<1> HIDE DEF m
<1>2. CASE OnTimeout[g] = "route"
  <2> DEFINE r == [m EXCEPT !.gate[g].routeTarget = TimeoutRoute[g],
                            !.reviewRouteTarget = TimeoutRoute[g]]
             n == [m.gate EXCEPT ![g].routeTarget = TimeoutRoute[g]]
  <2>1. TimeoutRoute[g] \in Steps \cup {Null}
    BY LifecycleAssumption DEF LifecycleAssumption
  <2>2. r \in LifecycleState
    <3>1. n \in [Gates -> GateState]
      BY <1>1, <2>1 DEF LifecycleState, GateState
    <3>2. r = [m EXCEPT !.gate = n, !.reviewRouteTarget = TimeoutRoute[g]]
      BY <1>1 DEF LifecycleState
    <3> HIDE DEF r, n
    <3> QED
      BY <1>1, <2>1, <3>1, <3>2 DEF LifecycleState
  <2>3. ~r.gate[g].waiting /\ \A h \in Gates \ {g} : r.gate[h] = m.gate[h]
    BY <1>1 DEF LifecycleState, GateState
  <2>4. GateTimedOut(l, g) = RefreshWaiting(r)
    BY <1>2 DEF GateTimedOut, m
  <2> HIDE DEF r
  <2>5. GateTimedOut(l, g).gate = r.gate
    BY <2>2, <2>4, RefreshWaitingType
  <2> QED
    BY <1>1, <2>3, <2>5 DEF WaitingGates
<1>3. CASE OnTimeout[g] # "route"
  <2>1. GateTimedOut(l, g).gate = m.gate
    BY <1>1, <1>3 DEF GateTimedOut, m, LifecycleState
  <2> QED
    BY <1>1, <2>1 DEF WaitingGates
<1> QED
  BY <1>2, <1>3

\* A jump counts units and runs on.
LEMMA JumpCounts ==
  ASSUME IInv, NEW s, NEW l \in LifecycleState, JumpTo(s, l)
  PROVE  /\ ctl'[Main] = "ready" /\ pc'[Main] = IndexOf(s) /\ cause' = cause
         /\ Counts(l, lc')
<1>1. Counts(l, lc')
  BY TotalUnitsType, UnitsCount DEF JumpTo
<1> QED
  BY <1>1, MainIsThread DEF JumpTo, IInv, ControlOK

LEMMA GateGate == ASSUME IInv, GateInv, Gate PROVE GateInv'
<1>1. ctl[Main] \in AtGate /\ lc \in LifecycleState
  BY DEF Gate, GateRaisesCancelled, GateFailsOnInvalid, GateRoutes, GateKeepsWaiting,
         GateTimesOut, ReviewRejects, Polling, AtGate, IInv, LifeOK
<1>2. CurrentGate \in Gates /\ WaitingGates(lc) = {CurrentGate}
  BY <1>1 DEF GateInv, WaitingGates
<1>3. ctl \in [Threads -> Controls] /\ Main \in Threads
  BY MainIsThread DEF IInv, ControlOK
<1>4. CASE GateRaisesCancelled \/ GateFailsOnInvalid \/ ReviewRejects
  <2>1. ctl'[Main] = "unwind"
    BY <1>3, <1>4 DEF GateRaisesCancelled, GateFailsOnInvalid, ReviewRejects, Throw
  <2>2. SameGates(lc, lc')
    BY <1>1, <1>4 DEF GateRaisesCancelled, GateFailsOnInvalid, ReviewRejects, InvalidReviewFailed,
                      LifecycleState, SameGates, WaitingGates
  <2> QED
    BY <2>1, <2>2, GateInvEnding DEF Ending
<1>5. CASE GateRoutes
  <2> DEFINE l == GateRouted(lc, CurrentGate)
  <2>1. l \in LifecycleState /\ WaitingGates(l) = {}
    BY <1>1, <1>2, GateRoutedEvolves, GateRoutedCloses DEF Evolves
  <2>2. JumpTo(lc.gate[CurrentGate].routeTarget, l)
    BY <1>5 DEF GateRoutes
  <2> HIDE DEF l
  <2>3. ctl'[Main] = "ready" /\ Counts(l, lc')
    BY <2>1, <2>2, JumpCounts
  <2> QED
    BY <2>1, <2>3, GateInvClosed DEF Counts, WaitingGates, AtGate
<1>6. CASE GateKeepsWaiting
  <2>1. ctl'[Main] = "review" /\ pc' = pc
    BY <1>3, <1>6 DEF GateKeepsWaiting
  <2>2. SameGates(lc, lc') /\ lc'.gate = lc.gate
    BY <1>1, <1>6 DEF GateKeepsWaiting, LifecycleState, SameGates, WaitingGates
  <2>3. WaitingGates(lc)' = WaitingGates(lc)
    BY <2>2 DEF WaitingGates
  <2>4. lc.gate[CurrentGate].routeTarget = Null
    BY <1>6 DEF GateKeepsWaiting
  <2> QED
    BY <1>1, <2>1, <2>2, <2>3, <2>4, CurrentGateSame DEF GateInv, SameGates, AtGate, Ending
<1>7. CASE GateTimesOut
  <2> DEFINE l == GateTimedOut(lc, CurrentGate)
  <2>1. l \in LifecycleState /\ WaitingGates(l) = {}
    BY <1>1, <1>2, GateTimedOutEvolves, GateTimedOutCloses DEF Evolves
  <2>2. \/ JumpTo(TimeoutRoute[CurrentGate], l)
        \/ lc' = l /\ \E why \in {"cancelled", "failure"} : Throw(Main, why)
    BY <1>7 DEF GateTimesOut
  <2> HIDE DEF l
  <2>3. CASE JumpTo(TimeoutRoute[CurrentGate], l)
    <3>1. ctl'[Main] = "ready" /\ Counts(l, lc')
      BY <2>1, <2>3, JumpCounts
    <3> QED
      BY <2>1, <3>1, GateInvClosed DEF Counts, WaitingGates, AtGate
  <2>4. CASE lc' = l /\ \E why \in {"cancelled", "failure"} : Throw(Main, why)
    <3>1. ctl'[Main] = "unwind"
      BY <1>3, <2>4 DEF Throw
    <3> QED
      BY <2>1, <2>4, <3>1, GateInvClosed DEF AtGate
  <2> QED
    BY <2>2, <2>3, <2>4
<1> QED
  BY <1>4, <1>5, <1>6, <1>7 DEF Gate

LEMMA UnwindGate == ASSUME IInv, GateInv, Unwind PROVE GateInv'
<1>1. ctl'[Main] \in Ending
  BY MainIsThread DEF Unwind, StartCompensation, CompensationEnds, FinishUnwind, IInv, ControlOK, Ending
<1>2. SameGates(lc, lc')
  BY DEF Unwind, StartCompensation, CompensationEnds, FinishUnwind, CancelledWith, FailedWith,
         IInv, LifeOK, LifecycleState, SameGates, WaitingGates
<1> QED
  BY <1>1, <1>2, GateInvEnding

LEMMA InitGate == Init => GateInv
<1> SUFFICES ASSUME Init PROVE GateInv
  OBVIOUS
<1>1. ctl[Main] = "start" /\ WaitingGates(lc) = {}
  BY MainIsThread DEF Init, NewLifecycle, WaitingGates
<1> QED
  BY <1>1 DEF GateInv, AtGate, Ending

LEMMA NextGate == IInv /\ GateInv /\ [Next]_vars => GateInv'
<1> SUFFICES ASSUME IInv, GateInv, [Next]_vars PROVE GateInv'
  OBVIOUS
<1>1. CASE \E t \in Threads : Step(t)
  BY <1>1, StepMoves, StepGate
<1>2. CASE Start
  <2>1. ctl'[Main] = "ready" /\ WaitingGates(lc) = {}
    BY <1>2, MainIsThread DEF Start, IInv, ControlOK, GateInv, AtGate, Ending
  <2>2. lc'.gate = lc.gate
    BY <1>2 DEF Start, Started, AddUnits, IInv, LifeOK, LifecycleState
  <2> QED
    BY <2>1, <2>2, GateInvClosed DEF WaitingGates, AtGate
<1>3. CASE ItemSettles
  <2>1. ctl' = ctl /\ pc' = pc /\ Counts(lc, lc')
    BY <1>3, UnitsCount DEF ItemSettles, ItemCompletes, ItemFails, IInv, LifeOK, Counts
  <2> QED
    BY <2>1, CountsSameGates, GateInvKept DEF Counts
<1>4. CASE UNCHANGED vars
  BY <1>4, GateInvKept DEF vars, SameGates
<1> QED
  BY <1>1, <1>2, <1>3, <1>4, GateGate, UnwindGate, SignalGate DEF Next, Closed

\* Whatever commands arrive and however gates end, at most one gate waits; a
\* run that waits shows its checkpoint: waitingForGate, gateRouted, gateTimedOut
\* and refreshWaiting (lifecycle.ts).
THEOREM OneGateWaitsHolds == Spec => []OneGateWaits
<1>1. IInv /\ GateInv => OneGateWaits
  <2> SUFFICES ASSUME IInv, GateInv PROVE OneGateWaits
    OBVIOUS
  <2>1. Cardinality(WaitingGates(lc)) \in {0, 1}
    <3>1. CASE WaitingGates(lc) = {}
      BY <3>1, FS_EmptySet
    <3>2. CASE WaitingGates(lc) # {}
      <4>1. PICK g \in Gates : WaitingGates(lc) = {g}
        BY <3>2 DEF GateInv, WaitingGates
      <4> QED
        BY <4>1, FS_Singleton
    <3> QED
      BY <3>1, <3>2
  <2> QED
    BY <2>1, CurrentGateType DEF GateInv, OneGateWaits, AtGate
<1> QED
  BY <1>1, InvHolds, InitGate, NextGate, PTL DEF Spec

\* Only routing and timing out fire a gate.
LEMMA StepDoneFired ==
  ASSUME NEW t, NEW l \in LifecycleState, StepDone(t, l), NEW g \in Gates
  PROVE  lc'.gate[g].fired = l.gate[g].fired
<1> DEFINE gates == IF t = Main THEN PendingGatesAfter(l, Cur(t)) ELSE {}
<1>1. CASE gates = {}
  BY <1>1 DEF StepDone
<1>2. CASE gates # {}
  <2> DEFINE h == CHOOSE x \in gates : TRUE
             m == [l EXCEPT !.gate[h].waiting = TRUE, !.signalled = FALSE]
  <2>1. h \in Gates /\ lc' = WaitingForGate(l, h)
    BY <1>2 DEF StepDone, PendingGatesAfter
  <2> HIDE DEF gates, h
  <2>2. m \in LifecycleState /\ m.gate[g].fired = l.gate[g].fired
    BY <2>1 DEF LifecycleState, GateState
  <2>3. lc' = RefreshWaiting(m)
    BY <2>1 DEF WaitingForGate
  <2> HIDE DEF m
  <2> QED
    BY <2>2, <2>3, RefreshWaitingType
<1> QED
  BY <1>1, <1>2

LEMMA SubmittedFired ==
  ASSUME NEW l \in LifecycleState, NEW m, NEW g \in Gates,
         \/ \E named \in Gates \cup {Null}, d \in Decisions : m = SubmittedReview(l, named, d)
         \/ m = SubmittedMalformed(l)
  PROVE  m.gate[g].fired = l.gate[g].fired
<1>1. \A h \in Gates : InvalidDecision(l, h).gate[g].fired = l.gate[g].fired
  BY DEF InvalidDecision, LifecycleState, GateState
<1>2. CASE m = SubmittedMalformed(l)
  <2>1. Cardinality(Gates) = 1 => (CHOOSE h \in Gates : TRUE) \in Gates
    BY FS_EmptySet
  <2> QED
    BY <1>1, <1>2, <2>1 DEF SubmittedMalformed, LifecycleState
<1>3. CASE \E named \in Gates \cup {Null}, d \in Decisions : m = SubmittedReview(l, named, d)
  <2>1. PICK named \in Gates \cup {Null}, d \in Decisions : m = SubmittedReview(l, named, d)
    BY <1>3
  <2>2. CASE TargetGates(l, named) = {}
    BY <2>1, <2>2 DEF SubmittedReview, LifecycleState
  <2>3. CASE TargetGates(l, named) # {}
    <3> DEFINE h == CHOOSE x \in TargetGates(l, named) : TRUE
               r == UserDecisions[h][d]
    <3>1. h \in Gates
      BY <2>3, TargetGatesType
    <3>2. m = IF r = Null THEN InvalidDecision(l, h)
              ELSE [l EXCEPT !.signalled = TRUE, !.gate[h].routeTarget = r,
                             !.reviewRouteTarget = r]
      BY <2>1, <2>3 DEF SubmittedReview
    <3> HIDE DEF h, r
    <3>3. r # Null => m.gate[g].fired = l.gate[g].fired
      BY <3>1, <3>2 DEF LifecycleState, GateState
    <3> QED
      BY <1>1, <3>1, <3>2, <3>3
  <2> QED
    BY <2>2, <2>3
<1> QED
  BY <1>2, <1>3

\* A gate closes by the decision accepted for it, if there is one, at the
\* latest route it was given: the order of the signal, the timer and the wait
\* loop does not matter (maybeWaitForReview, workflows.ts).
THEOREM AcceptedDecisionRoutesHolds == Spec => AcceptedDecisionRoutes
<1> DEFINE A == \A g \in Gates :
                  lc.gate[g].routeTarget # Null /\ ~lc.gate[g].fired /\ lc'.gate[g].fired =>
                    pc'[Main] = IndexOf(lc.gate[g].routeTarget)
<1>1. IInv /\ GateInv /\ [Next]_vars => [A]_vars
  <2> SUFFICES ASSUME IInv, GateInv, Next, NEW g \in Gates, lc.gate[g].routeTarget # Null,
                      ~lc.gate[g].fired, lc'.gate[g].fired
               PROVE  pc'[Main] = IndexOf(lc.gate[g].routeTarget)
    OBVIOUS
  <2>0. lc \in LifecycleState
    BY DEF IInv, LifeOK
  <2>1. CASE GateRoutes
    <3>1. CurrentGate \in Gates /\ GateRouted(lc, CurrentGate) \in LifecycleState
      BY <2>0, <2>1, CurrentGateType, GateRoutedEvolves DEF GateRoutes, Polling, Evolves
    <3>2. /\ pc'[Main] = IndexOf(lc.gate[CurrentGate].routeTarget)
          /\ Counts(GateRouted(lc, CurrentGate), lc')
      BY <2>1, <3>1, JumpCounts DEF GateRoutes
    <3>3. g = CurrentGate
      BY <2>0, <3>1, <3>2, GateRoutedCloses DEF Counts
    <3> QED
      BY <3>2, <3>3
  <2>2. CASE GateTimesOut
    <3>1. CurrentGate \in Gates /\ GateTimedOut(lc, CurrentGate) \in LifecycleState
      BY <2>0, <2>2, CurrentGateType, GateTimedOutEvolves DEF GateTimesOut, Evolves
    <3>2. Counts(GateTimedOut(lc, CurrentGate), lc')
      BY <2>2, <3>1, JumpCounts DEF GateTimesOut, Counts
    <3>3. g = CurrentGate
      BY <2>0, <3>1, <3>2, GateTimedOutCloses DEF Counts
    <3>4. ~lc.signalled /\ ctl[Main] = "review"
      BY <2>2 DEF GateTimesOut, Polling
    <3> QED
      BY <3>3, <3>4 DEF GateInv
  <2>3. CASE ~GateRoutes /\ ~GateTimesOut
    <3> SUFFICES lc'.gate[g].fired = lc.gate[g].fired
      OBVIOUS
    <3>1. CASE \E t \in Threads : Step(t)
      <4>1. PICK t \in Threads : Moves(t)
        BY <3>1, StepMoves
      <4>2. CASE GoesOn(t)
        BY <4>2, StepDoneFired DEF GoesOn, Counts
      <4>3. CASE ~GoesOn(t)
        BY <4>1, <4>3 DEF Moves, ThrowsOut, Ends, EndSequence, Completed, Waits, Splits, Counts,
                          LifecycleState
      <4> QED
        BY <4>2, <4>3
    <3>2. CASE Start \/ ItemSettles
      BY <2>0, <3>2 DEF Start, Started, AddUnits, ItemSettles, ItemCompletes, ItemFails,
                        UnitCompleted, LifecycleState
    <3>3. CASE Gate
      BY <2>0, <2>3, <3>3 DEF Gate, GateRaisesCancelled, GateFailsOnInvalid, InvalidReviewFailed,
                              GateKeepsWaiting, ReviewRejects, LifecycleState
    <3>4. CASE Unwind
      BY <2>0, <3>4 DEF Unwind, StartCompensation, CompensationEnds, FinishUnwind, CancelledWith,
                        FailedWith, LifecycleState
    <3>5. CASE Signal
      <4>1. CASE RequestCancel \/ CancelNatively
        BY <2>0, <4>1 DEF RequestCancel, RequestCancelled, CancelNatively, LifecycleState
      <4>2. CASE SubmitReview
        <5>1. \/ \E named \in Gates \cup {Null}, d \in Decisions : lc' = SubmittedReview(lc, named, d)
              \/ lc' = SubmittedMalformed(lc)
          BY <4>2 DEF SubmitReview
        <5> QED
          BY <2>0, <5>1, SubmittedFired
      <4> QED
        BY <3>5, <4>1, <4>2 DEF Signal
    <3>6. CASE Closed
      BY <3>6 DEF Closed, vars
    <3> QED
      BY <3>1, <3>2, <3>3, <3>4, <3>5, <3>6 DEF Next
  <2> QED
    BY <2>1, <2>2, <2>3
<1> QED
  BY <1>1, InvHolds, InitGate, NextGate, PTL DEF Spec, AcceptedDecisionRoutes
-----------------------------------------------------------------------------
(* The terminal status *)

\* A status set before the end is a recorded failure, and the run is unwinding
\* because of it.
StatusInv ==
  /\ lc.terminalStatus = "completed" <=> ctl[Main] = "returned"
  /\ lc.terminalStatus = "failed" => ctl[Main] \in Ending /\ cause = "failure"
  /\ lc.terminalStatus = "cancelled" => ctl[Main] = "threw"
  /\ ctl[Main] = "threw" =>
       lc.terminalStatus = cause \/ (cause = "failure" /\ lc.terminalStatus = "failed")
  /\ cause = "cancelled" => lc.cancellationRequested
  /\ cause # "none" <=> ctl[Main] \in Ending

\* What every step does to the status.
StatusStep ==
  /\ StatusInv'
  /\ ctl'[Main] = "threw" => cause' = cause
  /\ lc.terminalStatus # Null => lc'.terminalStatus = lc.terminalStatus

LEMMA StatusKept ==
  ASSUME StatusInv, ctl'[Main] = ctl[Main], cause' = cause,
         lc'.terminalStatus = lc.terminalStatus,
         lc.cancellationRequested => lc'.cancellationRequested
  PROVE  StatusStep
BY DEF StatusInv, StatusStep

\* The main sequence throws: the cause says why.
LEMMA StatusThrows ==
  ASSUME IInv, StatusInv, ctl[Main] \notin Ending \cup {"returned"},
         NEW why \in {"cancelled", "failure"}, Throw(Main, why),
         \/ lc'.terminalStatus = lc.terminalStatus
         \/ lc'.terminalStatus = "failed" /\ why = "failure",
         why = "cancelled" => lc'.cancellationRequested
  PROVE  StatusStep
<1>1. ctl'[Main] = "unwind" /\ cause' = why
  BY MainIsThread DEF Throw, IInv, ControlOK
<1>2. lc.terminalStatus = Null
  BY DEF StatusInv, IInv, LifeOK, LifecycleState, Ending
<1> QED
  BY <1>1, <1>2 DEF StatusInv, StatusStep, Ending, Null

\* The main sequence runs on.
LEMMA StatusRuns ==
  ASSUME IInv, StatusInv, ctl[Main] \notin Ending \cup {"returned"},
         ctl'[Main] \notin Ending \cup {"returned"}, cause' = cause,
         lc'.terminalStatus = lc.terminalStatus
  PROVE  StatusStep
<1>1. lc.terminalStatus = Null /\ cause = "none"
  BY DEF StatusInv, IInv, LifeOK, LifecycleState, Ending
<1> QED
  BY <1>1 DEF StatusInv, StatusStep, Ending, Null

LEMMA StepDoneStatus ==
  ASSUME NEW t, NEW l \in LifecycleState, StepDone(t, l)
  PROVE  /\ lc'.terminalStatus = l.terminalStatus
         /\ lc'.compensationStatus = l.compensationStatus
<1> DEFINE gates == IF t = Main THEN PendingGatesAfter(l, Cur(t)) ELSE {}
<1>1. CASE gates = {}
  BY <1>1 DEF StepDone
<1>2. CASE gates # {}
  <2> DEFINE h == CHOOSE x \in gates : TRUE
             m == [l EXCEPT !.gate[h].waiting = TRUE, !.signalled = FALSE]
  <2>1. h \in Gates /\ lc' = WaitingForGate(l, h)
    BY <1>2 DEF StepDone, PendingGatesAfter
  <2> HIDE DEF gates, h
  <2>2. /\ m \in LifecycleState
        /\ m.terminalStatus = l.terminalStatus /\ m.compensationStatus = l.compensationStatus
    BY <2>1 DEF LifecycleState, GateState
  <2>3. lc' = RefreshWaiting(m)
    BY <2>1 DEF WaitingForGate
  <2> HIDE DEF m
  <2> QED
    BY <2>2, <2>3 DEF RefreshWaiting, LifecycleState
<1> QED
  BY <1>1, <1>2

LEMMA StepStatus == ASSUME IInv, StatusInv, NEW t \in Threads, Moves(t) PROVE StatusStep
<1>1. CASE t # Main
  BY <1>1, BranchMoves, StatusKept DEF Counts
<1>2. CASE t = Main
  <2>0. ctl[Main] \notin Ending \cup {"returned"} /\ ctl \in [Threads -> Controls] /\ Main \in Threads
    BY <1>2, MainIsThread DEF Moves, BusyStates, Ending, IInv, ControlOK
  <2>1. CASE ThrowsOut(Main)
    BY <2>0, <2>1, StatusThrows DEF ThrowsOut, Counts
  <2>2. CASE GoesOn(Main)
    <3>1. ctl'[Main] \in {"ready", "poll"} /\ cause' = cause
      BY <2>0, <2>2 DEF GoesOn, StepDone
    <3>2. lc'.terminalStatus = lc.terminalStatus
      BY <2>2, StepDoneStatus DEF GoesOn, Counts
    <3> QED
      BY <2>0, <3>1, <3>2, StatusRuns DEF Ending
  <2>3. CASE Ends(Main)
    <3>1. PICK l \in LifecycleState : Counts(lc, l) /\ EndSequence(Main, l) /\ cause' = cause
      BY <2>3 DEF Ends
    <3>2. ctl'[Main] = "returned" /\ lc'.terminalStatus = "completed"
      BY <2>0, <3>1 DEF EndSequence, Completed, LifecycleState
    <3>3. lc.terminalStatus = Null /\ cause = "none"
      BY <2>0 DEF StatusInv, IInv, LifeOK, LifecycleState, Ending
    <3> QED
      BY <3>1, <3>2, <3>3 DEF StatusInv, StatusStep, Ending
  <2>4. CASE Waits(Main)
    BY <2>0, <2>4, StatusRuns DEF Waits, Counts, Ending
  <2>5. CASE Splits(Main)
    <3>1. ctl'[Main] = "fanout" /\ cause' = cause
      BY <2>0, <2>5 DEF Splits, StartParallel
    <3> QED
      BY <2>0, <2>5, <3>1, StatusRuns DEF Splits, Counts, Ending
  <2> QED
    BY <1>2, <2>1, <2>2, <2>3, <2>4, <2>5 DEF Moves
<1> QED
  BY <1>1, <1>2

\* Closing a gate leaves the status alone, unless the timeout fails the run.
LEMMA GateTimedOutStatus ==
  ASSUME NEW l \in LifecycleState, NEW g \in Gates
  PROVE  /\ OnTimeout[g] \in {"route", "cancel"} =>
              GateTimedOut(l, g).terminalStatus = l.terminalStatus
         /\ OnTimeout[g] \notin {"route", "cancel"} => GateTimedOut(l, g).terminalStatus = "failed"
         /\ OnTimeout[g] = "cancel" => GateTimedOut(l, g).cancellationRequested
         /\ GateTimedOut(l, g).compensationStatus = l.compensationStatus
<1> DEFINE m == GateClosed(l, g)
<1>1. m \in LifecycleState
  BY GateClosedType
<1>2. m.terminalStatus = l.terminalStatus /\ m.compensationStatus = l.compensationStatus
  BY DEF GateClosed, LifecycleState
<1> HIDE DEF m
<1>3. CASE OnTimeout[g] = "route"
  <2> DEFINE r == [m EXCEPT !.gate[g].routeTarget = TimeoutRoute[g],
                            !.reviewRouteTarget = TimeoutRoute[g]]
  <2>1. GateTimedOut(l, g) = RefreshWaiting(r)
    BY <1>3 DEF GateTimedOut, m
  <2>2. r.terminalStatus = m.terminalStatus /\ r.compensationStatus = m.compensationStatus
    BY <1>1 DEF LifecycleState
  <2>3. {"terminalStatus", "compensationStatus"} \subseteq DOMAIN r
    BY <1>1 DEF LifecycleState
  <2> HIDE DEF r
  <2>4. /\ RefreshWaiting(r).terminalStatus = r.terminalStatus
        /\ RefreshWaiting(r).compensationStatus = r.compensationStatus
    BY <2>3 DEF RefreshWaiting
  <2> QED
    BY <1>2, <1>3, <2>1, <2>2, <2>4
<1>4. CASE OnTimeout[g] # "route"
  BY <1>1, <1>2, <1>4 DEF GateTimedOut, m, LifecycleState
<1> QED
  BY <1>3, <1>4

LEMMA GateRoutedStatus ==
  ASSUME NEW l \in LifecycleState, NEW g \in Gates
  PROVE  /\ GateRouted(l, g).terminalStatus = l.terminalStatus
         /\ GateRouted(l, g).compensationStatus = l.compensationStatus
<1> DEFINE m == [l EXCEPT !.gate[g].waiting = FALSE, !.gate[g].fired = TRUE,
                          !.reviewRouteTarget = l.gate[g].routeTarget]
<1>1. /\ {"terminalStatus", "compensationStatus"} \subseteq DOMAIN m
      /\ m.terminalStatus = l.terminalStatus /\ m.compensationStatus = l.compensationStatus
  BY DEF LifecycleState
<1>2. GateRouted(l, g) = RefreshWaiting(m)
  BY DEF GateRouted
<1> HIDE DEF m
<1> QED
  BY <1>1, <1>2 DEF RefreshWaiting

LEMMA GateStatus == ASSUME IInv, StatusInv, Gate PROVE StatusStep
<1>1. ctl[Main] \in AtGate /\ lc \in LifecycleState
  BY DEF Gate, GateRaisesCancelled, GateFailsOnInvalid, GateRoutes, GateKeepsWaiting,
         GateTimesOut, ReviewRejects, Polling, AtGate, IInv, LifeOK
<1>2. CurrentGate \in Gates
  BY <1>1, CurrentGateType DEF AtGate
<1>3. ctl \in [Threads -> Controls] /\ Main \in Threads
  BY MainIsThread DEF IInv, ControlOK
<1>4. ctl[Main] \notin Ending \cup {"returned"}
  BY <1>1 DEF AtGate, Ending
<1>5. CASE GateRaisesCancelled \/ ReviewRejects
  BY <1>4, <1>5, StatusThrows DEF GateRaisesCancelled, ReviewRejects
<1>6. CASE GateFailsOnInvalid
  <2>1. lc'.terminalStatus = "failed"
    BY <1>1, <1>6 DEF GateFailsOnInvalid, InvalidReviewFailed, LifecycleState
  <2> QED
    BY <1>4, <1>6, <2>1, StatusThrows DEF GateFailsOnInvalid
<1>7. CASE GateRoutes
  <2> DEFINE l == GateRouted(lc, CurrentGate)
  <2>1. l \in LifecycleState
    BY <1>1, <1>2, GateRoutedEvolves DEF Evolves
  <2>4. l.terminalStatus = lc.terminalStatus
    BY <1>1, <1>2, GateRoutedStatus
  <2>5. JumpTo(lc.gate[CurrentGate].routeTarget, l)
    BY <1>7 DEF GateRoutes
  <2> HIDE DEF l
  <2>6. ctl'[Main] = "ready" /\ cause' = cause /\ Counts(l, lc')
    BY <2>1, <2>5, JumpCounts
  <2> QED
    BY <1>4, <2>4, <2>6, StatusRuns DEF Counts, Ending
<1>8. CASE GateKeepsWaiting
  <2>1. ctl'[Main] = "review" /\ cause' = cause
    BY <1>3, <1>8 DEF GateKeepsWaiting
  <2>2. lc'.terminalStatus = lc.terminalStatus
    BY <1>1, <1>8 DEF GateKeepsWaiting, LifecycleState
  <2> QED
    BY <1>4, <2>1, <2>2, StatusRuns DEF Ending
<1>9. CASE GateTimesOut
  <2> DEFINE l == GateTimedOut(lc, CurrentGate)
  <2>1. l \in LifecycleState
    BY <1>1, <1>2, GateTimedOutEvolves DEF Evolves
  <2>2. CASE OnTimeout[CurrentGate] = "route"
    <3>1. l.terminalStatus = lc.terminalStatus
      BY <1>1, <1>2, <2>2, GateTimedOutStatus
    <3>2. JumpTo(TimeoutRoute[CurrentGate], l)
      BY <1>9, <2>2 DEF GateTimesOut
    <3> HIDE DEF l
    <3>3. ctl'[Main] = "ready" /\ cause' = cause /\ Counts(l, lc')
      BY <2>1, <3>2, JumpCounts
    <3> QED
      BY <1>4, <3>1, <3>3, StatusRuns DEF Counts, Ending
  <2>3. CASE OnTimeout[CurrentGate] = "cancel"
    <3>1. lc' = l /\ Throw(Main, "cancelled")
      BY <1>9, <2>3 DEF GateTimesOut
    <3>2. lc'.terminalStatus = lc.terminalStatus /\ lc'.cancellationRequested
      BY <1>1, <1>2, <2>3, <3>1, GateTimedOutStatus
    <3> QED
      BY <1>4, <3>1, <3>2, StatusThrows
  <2>4. CASE OnTimeout[CurrentGate] \notin {"route", "cancel"}
    <3>1. lc' = l /\ Throw(Main, "failure")
      BY <1>9, <2>4 DEF GateTimesOut
    <3>2. lc'.terminalStatus = "failed"
      BY <1>1, <1>2, <2>4, <3>1, GateTimedOutStatus
    <3> QED
      BY <1>4, <3>1, <3>2, StatusThrows
  <2> QED
    BY <2>2, <2>3, <2>4
<1> QED
  BY <1>5, <1>6, <1>7, <1>8, <1>9 DEF Gate

LEMMA UnwindStatus == ASSUME IInv, StatusInv, Unwind PROVE StatusStep
<1>1. ctl \in [Threads -> Controls] /\ Main \in Threads /\ lc \in LifecycleState
  BY MainIsThread DEF IInv, ControlOK, LifeOK
<1>2. CASE StartCompensation \/ CompensationEnds
  <2>1. ctl[Main] \in Ending \ {"threw"} /\ ctl'[Main] \in Ending \ {"threw"} /\ UNCHANGED <<cause, lc>>
    BY <1>1, <1>2 DEF StartCompensation, CompensationEnds, Ending
  <2> QED
    BY <2>1 DEF StatusInv, StatusStep, Ending
<1>3. CASE FinishUnwind
  <2>1. ctl[Main] = "unwind" /\ ctl'[Main] = "threw" /\ cause' = cause
    BY <1>1, <1>3 DEF FinishUnwind
  <2>2. cause \in {"cancelled", "failure"} /\ lc.terminalStatus \in {Null, "failed"}
    BY <1>1, <2>1 DEF StatusInv, Ending, IInv, ControlOK, Causes, LifecycleState
  <2>3. CASE cause = "cancelled"
    <3>1. lc' = CancelledWith(lc, CompensationStatus)
      BY <1>3, <2>3 DEF FinishUnwind
    <3>2. lc'.terminalStatus = "cancelled" /\ lc'.cancellationRequested = lc.cancellationRequested
      BY <1>1, <3>1 DEF CancelledWith, LifecycleState
    <3> QED
      BY <2>1, <2>2, <2>3, <3>2 DEF StatusInv, StatusStep, Ending
  <2>4. CASE cause # "cancelled"
    <3>1. lc' = FailedWith(lc, CompensationStatus)
      BY <1>3, <2>4 DEF FinishUnwind
    <3>2. lc'.terminalStatus = "failed" /\ lc'.cancellationRequested = lc.cancellationRequested
      BY <1>1, <2>2, <3>1 DEF FailedWith, LifecycleState
    <3> QED
      BY <2>1, <2>2, <2>4, <3>2 DEF StatusInv, StatusStep, Ending
  <2> QED
    BY <2>3, <2>4
<1> QED
  BY <1>2, <1>3 DEF Unwind

\* A command changes neither the terminal status nor takes a cancellation back.
LEMMA SubmittedStatus ==
  ASSUME NEW l \in LifecycleState, NEW m,
         \/ \E named \in Gates \cup {Null}, d \in Decisions : m = SubmittedReview(l, named, d)
         \/ m = SubmittedMalformed(l)
  PROVE  /\ m.terminalStatus = l.terminalStatus
         /\ m.cancellationRequested = l.cancellationRequested
         /\ m.compensationStatus = l.compensationStatus
BY DEF SubmittedReview, SubmittedMalformed, InvalidDecision, LifecycleState

LEMMA SignalStatus == ASSUME IInv, StatusInv, Signal PROVE StatusStep
<1>1. ctl' = ctl /\ cause' = cause /\ lc \in LifecycleState
  BY DEF Signal, RequestCancel, SubmitReview, CancelNatively, IInv, LifeOK
<1>2. CASE RequestCancel
  BY <1>1, <1>2, StatusKept DEF RequestCancel, RequestCancelled, LifecycleState
<1>3. CASE SubmitReview
  BY <1>1, <1>3, SubmittedStatus, StatusKept DEF SubmitReview
<1>4. CASE CancelNatively
  BY <1>1, <1>4, StatusKept DEF CancelNatively
<1> QED
  BY <1>2, <1>3, <1>4 DEF Signal

LEMMA InitStatus == Init => StatusInv
BY MainIsThread DEF Init, NewLifecycle, StatusInv, Ending, Null

LEMMA NextStatus == IInv /\ StatusInv /\ [Next]_vars => StatusStep
<1> SUFFICES ASSUME IInv, StatusInv, [Next]_vars PROVE StatusStep
  OBVIOUS
<1>0. ctl \in [Threads -> Controls] /\ Main \in Threads /\ lc \in LifecycleState
  BY MainIsThread DEF IInv, ControlOK, LifeOK
<1>1. CASE \E t \in Threads : Step(t)
  BY <1>1, StepMoves, StepStatus
<1>2. CASE Start
  <2>1. ctl[Main] = "start" /\ ctl'[Main] = "ready" /\ cause' = cause
    BY <1>0, <1>2 DEF Start
  <2>2. lc'.terminalStatus = lc.terminalStatus
    BY <1>0, <1>2 DEF Start, Started, AddUnits, LifecycleState
  <2> QED
    BY <2>1, <2>2, StatusRuns DEF Ending
<1>3. CASE ItemSettles
  BY <1>0, <1>3, UnitsCount, StatusKept DEF ItemSettles, ItemCompletes, ItemFails, Counts
<1>4. CASE UNCHANGED vars
  BY <1>4, StatusKept DEF vars
<1> QED
  BY <1>1, <1>2, <1>3, <1>4, GateStatus, UnwindStatus, SignalStatus DEF Next, Closed

\* In every run the terminal status says how the main sequence ended, is never
\* "cancelled" without a request, and never changes once it is set: completed,
\* cancelled, failed and the re-entry guard of failed (lifecycle.ts).
THEOREM TerminalStatusHonestHolds == Spec => TerminalStatusHonest
<1> DEFINE A ==
      /\ lc'.terminalStatus = "completed" <=> ctl'[Main] = "returned"
      /\ ctl'[Main] = "threw" =>
           lc'.terminalStatus = cause \/ (cause = "failure" /\ lc'.terminalStatus = "failed")
      /\ lc'.terminalStatus = "cancelled" => lc'.cancellationRequested
      /\ lc.terminalStatus # Null => lc'.terminalStatus = lc.terminalStatus
<1>1. StatusStep => StatusInv'
  BY DEF StatusStep
<1>2. StatusStep => A
  BY DEF StatusStep, StatusInv
<1> QED
  BY <1>1, <1>2, InvHolds, InitStatus, NextStatus, PTL DEF Spec, TerminalStatusHonest
-----------------------------------------------------------------------------
(* Nothing new after a cancel request *)

\* Only the fan-out and its items touch the items.
LEMMA ItemsChange ==
  ASSUME Next
  PROVE  \/ \E t \in Threads : Step(t) /\ FanOutItems(t)
         \/ \E x \in Items : ItemCompletes(x) \/ ItemFails(x)
         \/ UNCHANGED item
<1>1. \A t \in Threads : Step(t) => FanOutItems(t) \/ UNCHANGED item
  BY DEF Step, RaiseIfCancelled, SkipRemainder, FinishSequence, StartAtomic,
         AtomicCompletes, AtomicRecorded, AtomicFails, StartMap, PrepCompletes, PrepFails, MapSettles,
         ReleaseEnds, RaceRejects, StartParallel, ParallelSettles
<1>2. Start \/ Gate \/ Unwind \/ Signal \/ Closed => UNCHANGED item
  BY DEF Start, Gate, GateRaisesCancelled, GateFailsOnInvalid, GateRoutes,
         GateKeepsWaiting, GateTimesOut, ReviewRejects, Unwind, StartCompensation,
         CompensationEnds, FinishUnwind, Signal, RequestCancel, SubmitReview,
         CancelNatively, Closed, vars
<1> QED
  BY <1>1, <1>2 DEF Next, ItemSettles

LEMMA ClaimCancelled ==
  ASSUME FanOutCancelled, NEW s, NEW f, NEW x \in Items, Claim(s, f)[x] = "running"
  PROVE  f[x] = "running"
BY DEF Claim

\* A cancelled fan-out starts no item.
LEMMA NoItemWhenCancelled ==
  ASSUME IInv, Next, FanOutCancelled, NEW x \in Items, item'[x] = "running"
  PROVE  item[x] = "running"
<1>0. item \in [Items -> {"waiting", "running", "done", "failed"}]
  BY DEF IInv, DataOK
<1>1. CASE \E t \in Threads : FanOutItems(t)
  BY <1>1, ClaimCancelled DEF FanOutItems
<1>2. CASE \E y \in Items : ItemCompletes(y)
  <2>1. PICK y \in Items : ItemCompletes(y)
    BY <1>2
  <2>2. [item EXCEPT ![y] = "done"][x] = "running"
    BY <2>1, ClaimCancelled DEF ItemCompletes
  <2> QED
    BY <1>0, <2>2
<1>3. CASE \E y \in Items : ItemFails(y)
  BY <1>0, <1>3 DEF ItemFails
<1> QED
  BY <1>1, <1>2, <1>3, ItemsChange

\* Work is scheduled only in a scope that is not cancelled.
LEMMA WorkScheduled ==
  ASSUME IInv, NEW t \in Threads, Step(t), ctl'[t] \in {"activity", "prep", "release"}
  PROVE  ~ScopeCancelled(t) /\ ~(Cancellation /\ lc.cancellationRequested)
<1>0. ctl \in [Threads -> Controls]
  BY DEF IInv, ControlOK
<1>1. \A why : ~Throw(t, why)
  BY <1>0 DEF Throw
<1>2. \A l : ~StepDone(t, l) /\ ~EndSequence(t, l)
  BY <1>0 DEF StepDone, EndSequence
<1>3. ~StartParallel(t) /\ ~FanOutItems(t)
  BY <1>0 DEF StartParallel, FanOutItems
<1>4. \A outcome : ~MapEnds(t, outcome)
  BY <1>1, <1>2 DEF MapEnds
<1>5. ~AtomicCompletes(t)
  BY <1>0 DEF AtomicCompletes
<1> QED
  BY <1>1, <1>2, <1>3, <1>4, <1>5
     DEF Step, RaiseIfCancelled, SkipRemainder, FinishSequence, StartAtomic, AtomicRecorded,
         AtomicFails, StartMap, PrepCompletes, PrepFails, MapSettles, ReleaseEnds, RaceRejects,
         ParallelSettles

\* A step of t leaves every other thread where it is, but starts its branches.
LEMMA OthersStay ==
  ASSUME IInv, NEW t \in Threads, Step(t), NEW u \in Threads, u # t
  PROVE  /\ pc'[u] = pc[u] /\ Cur(u)' = Cur(u)
         /\ \/ ctl'[u] = ctl[u]
            \/ u \in BranchesOf[Cur(t)] /\ StartParallel(t)
<1>0. ctl \in [Threads -> Controls] /\ pc \in [Threads -> Nat]
  BY DEF IInv, ControlOK
<1>1. pc'[u] = pc[u]
  <2>1. CASE GoesOn(t)
    BY <1>0, <2>1 DEF GoesOn, StepDone
  <2>2. CASE ~GoesOn(t)
    BY <1>0, <2>2, StepMoves DEF Moves, ThrowsOut, Throw, Ends, Waits, Splits, StartParallel
  <2> QED
    BY <2>1, <2>2
<1>2. \/ ctl'[u] = ctl[u]
      \/ u \in BranchesOf[Cur(t)] /\ StartParallel(t)
  <2>1. CASE Splits(t)
    <3>1. PICK out \in SUBSET (BranchesOf[Cur(t)] \cap Gated) :
            ctl' = [v \in Threads |-> IF v = t THEN "fanout"
                                      ELSE IF v \in out THEN "skipped"
                                      ELSE IF v \in BranchesOf[Cur(t)] THEN "ready"
                                      ELSE ctl[v]]
      BY <2>1 DEF Splits, StartParallel
    <3> QED
      BY <2>1, <3>1 DEF Splits
  <2>2. CASE GoesOn(t)
    BY <1>0, <2>2 DEF GoesOn, StepDone
  <2>3. CASE ThrowsOut(t) \/ Ends(t) \/ Waits(t)
    BY <1>0, <2>3 DEF ThrowsOut, Throw, Ends, EndSequence, Waits
  <2> QED
    BY <2>1, <2>2, <2>3, StepMoves DEF Moves
<1> QED
  BY <1>1, <1>2 DEF Cur

\* No other step schedules work.
LEMMA WorkerOfStep ==
  ASSUME IInv, Next, NEW t \in Threads, ctl'[t] \in {"activity", "prep", "release"},
         ctl'[t] # ctl[t]
  PROVE  Step(t)
<1>0. ctl \in [Threads -> Controls] /\ Main \in Threads
  BY MainIsThread DEF IInv, ControlOK
<1>1. CASE \E u \in Threads : Step(u)
  <2>1. PICK u \in Threads : Step(u)
    BY <1>1
  <2>2. u # t => ctl'[t] \in {ctl[t], "fanout", "skipped", "ready"}
    <3>1. CASE ctl'[t] # ctl[t] /\ u # t
      <4>1. StartParallel(u) /\ t \in BranchesOf[Cur(u)]
        BY <2>1, <3>1, OthersStay
      <4>2. PICK out \in SUBSET (BranchesOf[Cur(u)] \cap Gated) :
              ctl' = [v \in Threads |-> IF v = u THEN "fanout"
                                        ELSE IF v \in out THEN "skipped"
                                        ELSE IF v \in BranchesOf[Cur(u)] THEN "ready"
                                        ELSE ctl[v]]
        BY <4>1 DEF StartParallel
      <4> QED
        BY <4>1, <4>2
    <3> QED
      BY <3>1
  <2> QED
    BY <2>1, <2>2
<1>2. CASE Start \/ Gate \/ Unwind
  BY <1>0, <1>2
     DEF Start, Gate, GateRaisesCancelled, GateFailsOnInvalid, GateRoutes, JumpTo,
         GateKeepsWaiting, GateTimesOut, ReviewRejects, Throw, Unwind, StartCompensation,
         CompensationEnds, FinishUnwind
<1>3. CASE ItemSettles \/ Signal \/ Closed
  BY <1>3 DEF ItemSettles, ItemCompletes, ItemFails, Signal, RequestCancel, SubmitReview,
              CancelNatively, Closed, vars
<1> QED
  BY <1>1, <1>2, <1>3 DEF Next

\* Once cancellation was requested no item, activity, session preparation or
\* release is scheduled, in every plan and however branches and items
\* interleave: the guards of the loops and of fanOutCancellable (workflows.ts).
THEOREM NoWorkAfterCancelHolds == Spec => NoWorkAfterCancel
<1> DEFINE A ==
      Cancellation /\ lc.cancellationRequested =>
        /\ \A x \in Items : item'[x] = "running" => item[x] = "running"
        /\ \A t \in Threads :
             ctl'[t] \in {"activity", "prep", "release"} => ctl[t] = ctl'[t]
<1>1. IInv /\ [Next]_vars => [A]_vars
  <2> SUFFICES ASSUME IInv, Next, Cancellation, lc.cancellationRequested
               PROVE  A
    OBVIOUS
  <2>0. FanOutCancelled
    BY DEF FanOutCancelled
  <2>1. ASSUME NEW x \in Items, item'[x] = "running" PROVE item[x] = "running"
    BY <2>0, <2>1, NoItemWhenCancelled
  <2>2. ASSUME NEW t \in Threads, ctl'[t] \in {"activity", "prep", "release"}
        PROVE  ctl[t] = ctl'[t]
    BY <2>2, WorkerOfStep, WorkScheduled
  <2> QED
    BY <2>1, <2>2
<1> QED
  BY <1>1, InvHolds, PTL DEF Spec, NoWorkAfterCancel
-----------------------------------------------------------------------------
(* What is in flight *)

\* A branch at work belongs to a block that is awaited, an item in flight to a
\* map that is, until a native cancellation rejects the wait.
FlightInv ==
  ~rootCancelled =>
    /\ \A b \in Branches : ctl[b] \in BusyStates =>
         \E t \in Threads : ctl[t] = "fanout" /\ b \in BranchesOf[Cur(t)]
    /\ \A x \in Items : item[x] = "running" =>
         \E t \in Threads : ctl[t] = "fanout" /\ Cur(t) = x[1]

\* The tree of the plan has no cycle: a run that awaits no fan-out at its top
\* level has nothing in flight.
LEMMA NothingInFlight ==
  ASSUME IInv, FlightInv, ~rootCancelled, ctl[Main] # "fanout"
  PROVE  /\ \A b \in Branches : ctl[b] \notin BusyStates
         /\ \A x \in Items : item[x] # "running"
<1>1. PICK level \in [Threads -> 0..3] : \A t \in Threads : \A i \in DOMAIN Body[t] :
        \A b \in BranchesOf[Body[t][i]] : level[t] < level[b]
  BY PlanTree DEF PlanTree
<1>2. ASSUME NEW b \in Branches, ctl[b] \in BusyStates
      PROVE  \E c \in Branches : ctl[c] \in BusyStates /\ level[c] < level[b]
  <2>1. PICK t \in Threads : ctl[t] = "fanout" /\ b \in BranchesOf[Cur(t)]
    BY <1>2 DEF FlightInv
  <2>2. t \in Branches /\ ctl[t] \in BusyStates
    BY <2>1 DEF Threads, BusyStates
  <2>3. level[t] < level[b]
    BY <1>1, <2>1 DEF IInv, ControlOK, InStep, Cur
  <2> QED
    BY <2>2, <2>3
<1>3. \A b \in Branches : level[b] \in 0..3
  BY <1>1 DEF Threads
<1>4. \A b \in Branches : ctl[b] \in BusyStates => level[b] # 0
  BY <1>2, <1>3
<1>5. \A b \in Branches : ctl[b] \in BusyStates => level[b] \notin {0, 1}
  BY <1>2, <1>3, <1>4
<1>6. \A b \in Branches : ctl[b] \in BusyStates => level[b] \notin {0, 1, 2}
  BY <1>2, <1>3, <1>5
<1>7. \A b \in Branches : ctl[b] \notin BusyStates
  BY <1>2, <1>3, <1>6
<1>8. \A x \in Items : item[x] # "running"
  BY <1>7 DEF FlightInv, Threads, BusyStates
<1> QED
  BY <1>7, <1>8

\* A fan-out is left when it has settled, or by a native cancellation.
LEMMA FanOutLeft ==
  ASSUME NEW t \in Threads, Step(t), ctl[t] = "fanout", ~rootCancelled
  PROVE  FanOutSettled(t)
BY DEF Step, RaiseIfCancelled, SkipRemainder, FinishSequence, StartAtomic, AtomicCompletes, AtomicRecorded,
       AtomicFails, StartMap, PrepCompletes, PrepFails, MapSettles, ReleaseEnds, RaceRejects,
       RaceRejected, StartParallel, ParallelSettles, AtStep

\* What a settled fan-out has left: neither branches at work nor items.
LEMMA SettledLeaves ==
  ASSUME IInv, NEW t \in Threads, ctl[t] = "fanout", FanOutSettled(t)
  PROVE  /\ \A b \in BranchesOf[Cur(t)] : ctl[b] \notin BusyStates
         /\ \A x \in Items : x[1] = Cur(t) => item[x] # "running"
<1>1. Cur(t) \in Steps
  BY CurType DEF IInv, InStep
<1>2. CASE Cur(t) \in Mapped
  <2>1. BranchesOf[Cur(t)] = {}
    BY <1>1, <1>2, PlanAssumption DEF PlanAssumption, Mapped, Parallel
  <2>2. \A x \in Items : x[1] = Cur(t) => x \in ItemsOf(Cur(t))
    BY DEF Items, ItemsOf
  <2> QED
    BY <1>2, <2>1, <2>2 DEF FanOutSettled
<1>3. CASE Cur(t) \notin Mapped
  <2>1. \A x \in Items : x[1] # Cur(t)
    BY <1>3 DEF Items, ItemsOf
  <2> QED
    BY <1>3, <2>1 DEF FanOutSettled, BusyStates
<1> QED
  BY <1>2, <1>3

\* A thread that waits for a fan-out starts it at its own step.
LEMMA FanOutAt ==
  ASSUME IInv, NEW t \in Threads, FanOutItems(t) \/ StartParallel(t)
  PROVE  ctl'[t] = "fanout" /\ Cur(t)' = Cur(t)
BY DEF FanOutItems, StartParallel, IInv, ControlOK, Cur

LEMMA ClaimOwn ==
  ASSUME NEW s, NEW f, NEW x \in Items, Claim(s, f)[x] = "running"
  PROVE  f[x] = "running" \/ x[1] = s
BY DEF Claim, ItemsOf

\* The thread a branch belongs to, and the step it belongs to there, are unique.
LEMMA OneOwner ==
  ASSUME NEW t \in Threads, NEW u \in Threads, pc[t] \in DOMAIN Body[t],
         pc[u] \in DOMAIN Body[u],
         \/ Cur(t) = Cur(u)
         \/ BranchesOf[Cur(t)] \cap BranchesOf[Cur(u)] # {}
  PROVE  t = u
<1>1. Cur(t) \in Steps /\ Cur(u) \in Steps
  BY BodyType DEF Cur
<1>2. Cur(t) = Cur(u)
  BY <1>1, PlanShape DEF PlanShape
<1> QED
  BY <1>2, PlanShape DEF PlanShape, Cur

\* The branches of a block that is about to start are not at work.
LEMMA StartsIdle ==
  ASSUME IInv, FlightInv, ~rootCancelled, NEW t \in Threads, AtStep(t),
         NEW b \in BranchesOf[Cur(t)]
  PROVE  ctl[b] \notin BusyStates
<1> SUFFICES ASSUME ctl[b] \in BusyStates PROVE FALSE
  OBVIOUS
<1>1. Cur(t) \in Steps /\ pc[t] \in DOMAIN Body[t]
  BY BodyType DEF Cur, AtStep
<1>2. b \in Branches
  BY <1>1, PlanAssumption DEF PlanAssumption
<1>3. PICK u \in Threads : ctl[u] = "fanout" /\ b \in BranchesOf[Cur(u)]
  BY <1>2 DEF FlightInv
<1>4. pc[u] \in DOMAIN Body[u]
  BY <1>3 DEF IInv, ControlOK, InStep
<1>5. t = u
  BY <1>1, <1>3, <1>4, OneOwner
<1> QED
  BY <1>3, <1>5 DEF AtStep

LEMMA StepFlight ==
  ASSUME IInv, FlightInv, NEW t \in Threads, Step(t)
  PROVE  FlightInv'
<1> SUFFICES ASSUME ~rootCancelled
             PROVE  /\ \A b \in Branches : ctl'[b] \in BusyStates =>
                         \E u \in Threads : ctl'[u] = "fanout" /\ b \in BranchesOf[Cur(u)']
                    /\ \A x \in Items : item'[x] = "running" =>
                         \E u \in Threads : ctl'[u] = "fanout" /\ Cur(u)' = x[1]
  BY StepMoves DEF Moves, FlightInv
<1>0. item \in [Items -> {"waiting", "running", "done", "failed"}]
  BY DEF IInv, DataOK
<1>1. ctl[t] \in BusyStates
  BY StepMoves DEF Moves
<1>2. \A u \in Threads \ {t} : ctl[u] = "fanout" => ctl'[u] = "fanout" /\ Cur(u)' = Cur(u)
  <2> SUFFICES ASSUME NEW u \in Threads \ {t}, ctl[u] = "fanout", StartParallel(t),
                      u \in BranchesOf[Cur(t)]
               PROVE  FALSE
    BY OthersStay
  <2> QED
    BY StartsIdle DEF StartParallel, BusyStates
<1>3. \A b \in BranchesOf[Cur(t)] : ctl[t] = "fanout" => ctl[b] \notin BusyStates
  BY FanOutLeft, SettledLeaves
<1>4. \A x \in Items : ctl[t] = "fanout" /\ x[1] = Cur(t) => item[x] # "running"
  BY FanOutLeft, SettledLeaves
<1>5. ASSUME NEW b \in Branches, ctl'[b] \in BusyStates
      PROVE  \E u \in Threads : ctl'[u] = "fanout" /\ b \in BranchesOf[Cur(u)']
  <2>1. CASE b \in BranchesOf[Cur(t)] /\ StartParallel(t)
    BY <2>1, FanOutAt
  <2>2. CASE ctl[b] \in BusyStates
    <3>1. PICK u \in Threads : ctl[u] = "fanout" /\ b \in BranchesOf[Cur(u)]
      BY <2>2 DEF FlightInv
    <3>2. u # t
      BY <1>3, <2>2, <3>1
    <3> QED
      BY <1>2, <3>1, <3>2
  <2> QED
    BY <1>1, <1>5, <2>1, <2>2, OthersStay DEF Threads
<1>6. ASSUME NEW x \in Items, item'[x] = "running"
      PROVE  \E u \in Threads : ctl'[u] = "fanout" /\ Cur(u)' = x[1]
  <2>1. CASE item[x] = "running"
    <3>1. PICK u \in Threads : ctl[u] = "fanout" /\ Cur(u) = x[1]
      BY <2>1 DEF FlightInv
    <3>2. u # t
      BY <1>4, <2>1, <3>1
    <3> QED
      BY <1>2, <3>1, <3>2
  <2>2. CASE item[x] # "running"
    <3>1. FanOutItems(t)
      BY <1>6, <2>2 DEF Step, RaiseIfCancelled, SkipRemainder, FinishSequence, StartAtomic,
         AtomicCompletes, AtomicRecorded, AtomicFails, StartMap, PrepCompletes, PrepFails, MapSettles,
         ReleaseEnds, RaceRejects, StartParallel, ParallelSettles
    <3> QED
      BY <1>6, <2>2, <3>1, ClaimOwn, FanOutAt DEF FanOutItems
  <2> QED
    BY <2>1, <2>2
<1> QED
  BY <1>5, <1>6

LEMMA ItemFlight ==
  ASSUME IInv, FlightInv, NEW x \in Items, ItemCompletes(x) \/ ItemFails(x)
  PROVE  FlightInv'
<1>0. item \in [Items -> {"waiting", "running", "done", "failed"}]
  BY DEF IInv, DataOK
<1>1. UNCHANGED <<pc, ctl, rootCancelled>> /\ item[x] = "running"
  BY DEF ItemCompletes, ItemFails
<1>2. \A t \in Threads : Cur(t)' = Cur(t)
  BY <1>1 DEF Cur
<1>3. ASSUME NEW y \in Items, item'[y] = "running" PROVE item[y] = "running" \/ y[1] = x[1]
  <2>1. CASE ItemFails(x)
    BY <1>0, <1>3, <2>1 DEF ItemFails
  <2>2. CASE ItemCompletes(x)
    <3> DEFINE f == [item EXCEPT ![x] = "done"]
    <3>1. f \in [Items -> {"waiting", "running", "done", "failed"}] /\ item' = Claim(x[1], f)
      BY <1>0, <2>2 DEF ItemCompletes
    <3>2. f[y] = "running" \/ y[1] = x[1]
      BY <1>3, <3>1, ClaimOwn
    <3> QED
      BY <1>0, <3>2
  <2> QED
    BY <2>1, <2>2
<1> QED
  BY <1>1, <1>2, <1>3 DEF FlightInv

\* Other steps of the run start and settle nothing.
LEMMA OtherFlight ==
  ASSUME IInv, FlightInv, Start \/ Gate \/ Unwind \/ Signal \/ UNCHANGED vars
  PROVE  FlightInv'
<1>0. ctl \in [Threads -> Controls] /\ Main \in Threads /\ Main \notin Branches
  BY MainIsThread, PlanAssumption DEF IInv, ControlOK, PlanAssumption
<1>1. item' = item /\ (rootCancelled => rootCancelled')
  <2>1. CASE Start \/ Unwind
    <3>1. CASE StartCompensation
      BY <3>1 DEF StartCompensation
    <3>2. CASE Start
      BY <3>2 DEF Start
    <3>3. CASE CompensationEnds
      BY <3>3 DEF CompensationEnds
    <3>4. CASE FinishUnwind
      BY <3>4 DEF FinishUnwind
    <3> QED
      BY <2>1, <3>1, <3>2, <3>3, <3>4 DEF Unwind
  <2>2. CASE Gate
    <3>1. CASE GateKeepsWaiting
      BY <3>1 DEF GateKeepsWaiting
    <3> QED
      BY <2>2, <3>1 DEF Gate, GateRaisesCancelled, GateFailsOnInvalid, GateRoutes,
           GateTimesOut, ReviewRejects
  <2>3. CASE Signal \/ UNCHANGED vars
    <3>1. CASE SubmitReview
      BY <3>1 DEF SubmitReview
    <3> QED
      BY <2>3, <3>1 DEF Signal, RequestCancel, CancelNatively, vars
  <2> QED
    BY <2>1, <2>2, <2>3
<1>2. \A t \in Threads : t # Main => ctl'[t] = ctl[t] /\ pc'[t] = pc[t]
  <2>1. CASE Start \/ Unwind
    BY <1>0, <2>1 DEF Start, Unwind, StartCompensation, CompensationEnds, FinishUnwind
  <2>2. CASE Gate
    <3>1. CASE GateRoutes \/ GateTimesOut
      BY <1>0, <3>1 DEF GateRoutes, GateTimesOut, JumpTo, Throw, IInv, ControlOK
    <3>2. CASE ~(GateRoutes \/ GateTimesOut)
      BY <1>0, <2>2, <3>2 DEF Gate, GateRaisesCancelled, GateFailsOnInvalid,
         GateKeepsWaiting, ReviewRejects, Throw
    <3> QED
      BY <3>1, <3>2
  <2>3. CASE Signal \/ UNCHANGED vars
    BY <2>3 DEF Signal, RequestCancel, SubmitReview, CancelNatively, vars
  <2> QED
    BY <2>1, <2>2, <2>3
<1>3. ctl[Main] = "fanout" => ctl'[Main] = "fanout" /\ pc'[Main] = pc[Main]
  <2>1. CASE Start \/ Gate \/ Unwind
    BY <2>1 DEF Start, Gate, GateRaisesCancelled, GateFailsOnInvalid, GateRoutes,
         GateKeepsWaiting, GateTimesOut, ReviewRejects, Polling, Unwind, StartCompensation,
         CompensationEnds, FinishUnwind
  <2>2. CASE Signal \/ UNCHANGED vars
    BY <2>2 DEF Signal, RequestCancel, SubmitReview, CancelNatively, vars
  <2> QED
    BY <2>1, <2>2
<1>4. \A t \in Threads : ctl[t] = "fanout" => ctl'[t] = "fanout" /\ Cur(t)' = Cur(t)
  BY <1>2, <1>3 DEF Cur
<1>5. \A b \in Branches : ctl'[b] = ctl[b]
  BY <1>0, <1>2 DEF Threads
<1> QED
  BY <1>1, <1>4, <1>5 DEF FlightInv

LEMMA NextFlight == ASSUME IInv, FlightInv, [Next]_vars PROVE FlightInv'
<1>1. CASE \E t \in Threads : Step(t)
  BY <1>1, StepFlight
<1>2. CASE ItemSettles
  BY <1>2, ItemFlight DEF ItemSettles
<1>3. CASE Start \/ Gate \/ Unwind \/ Signal \/ UNCHANGED vars
  BY <1>3, OtherFlight
<1> QED
  BY <1>1, <1>2, <1>3 DEF Next, Closed

LEMMA InitFlight == Init => FlightInv
BY MainIsThread, PlanAssumption DEF Init, FlightInv, Threads, BusyStates, PlanAssumption

LEMMA FlightHolds == Spec => []FlightInv
BY InvHolds, InitFlight, NextFlight, PTL DEF Spec

\* Once the unwind has begun nothing but compensations is scheduled: without a
\* native cancellation nothing is left that could, and with one every fan-out
\* and every branch of the run is in a cancelled scope (workflows.ts:906-915).
THEOREM NoWorkDuringUnwindHolds == Spec => NoWorkDuringUnwind
<1> DEFINE A ==
      Unwinding =>
        /\ \A x \in Items : item'[x] = "running" => item[x] = "running"
        /\ \A t \in Threads :
             ctl'[t] \in {"activity", "prep", "release"} => ctl[t] = ctl'[t]
<1>1. IInv /\ FlightInv /\ [Next]_vars => [A]_vars
  <2> SUFFICES ASSUME IInv, FlightInv, Next, Unwinding
               PROVE  A
    OBVIOUS
  <2>0. Main \in Threads /\ \A t \in Threads : t = Main \/ t \in Branches
    BY DEF Threads
  <2>1. CASE rootCancelled
    <3>1. FanOutCancelled
      BY <2>1 DEF FanOutCancelled
    <3>2. \A t \in Threads : ScopeCancelled(t)
      BY <2>1 DEF ScopeCancelled
    <3> QED
      BY <3>1, <3>2, NoItemWhenCancelled, WorkerOfStep, WorkScheduled
  <2>2. CASE ~rootCancelled
    <3>1. /\ \A b \in Branches : ctl[b] \notin BusyStates
          /\ \A x \in Items : item[x] # "running"
      BY <2>2, NothingInFlight DEF Unwinding
    <3>2. \A t \in Threads : ~Step(t)
      <4> SUFFICES ASSUME NEW t \in Threads, Step(t) PROVE FALSE
        OBVIOUS
      <4>1. ctl[t] \in BusyStates
        BY StepMoves DEF Moves
      <4> QED
        BY <2>0, <3>1, <4>1 DEF Unwinding, BusyStates
    <3>3. UNCHANGED item
      BY <3>1, <3>2, ItemsChange DEF ItemCompletes, ItemFails
    <3> QED
      BY <3>2, <3>3, WorkerOfStep
  <2> QED
    BY <2>1, <2>2
<1> QED
  BY <1>1, InvHolds, FlightHolds, PTL DEF Spec, NoWorkDuringUnwind

\* Only a native cancellation cancels the root scope.
LEMMA NeverCancelled ==
  ASSUME NativeCancel = FALSE, IInv, ~rootCancelled, [Next]_vars
  PROVE  ~rootCancelled'
<1>1. CASE \E t \in Threads : Step(t)
  BY <1>1, StepMoves DEF Moves
<1>2. CASE Start \/ Gate \/ Unwind \/ ItemSettles
  BY <1>2 DEF Start, Gate, GateRaisesCancelled, GateFailsOnInvalid, GateRoutes,
       GateKeepsWaiting, GateTimesOut, ReviewRejects, Unwind, StartCompensation,
       CompensationEnds, FinishUnwind, ItemSettles, ItemCompletes, ItemFails
<1>3. CASE Signal \/ Closed \/ UNCHANGED vars
  BY <1>3 DEF Signal, RequestCancel, SubmitReview, CancelNatively, Closed, vars
<1> QED
  BY <1>1, <1>2, <1>3 DEF Next

\* Without native cancellation the unwind begins only when everything the run
\* had in flight has settled, in every plan: the await of every fan-out before
\* its sequence goes on or throws (composition.ts:22-27, workflows.ts:610-611).
THEOREM NothingInFlightHolds ==
  ASSUME NativeCancel = FALSE
  PROVE  Spec => []NothingInFlightOnUnwind
<1>1. Init => ~rootCancelled
  BY DEF Init
<1>2. IInv /\ FlightInv /\ ~rootCancelled => NothingInFlightOnUnwind
  BY NothingInFlight DEF NothingInFlightOnUnwind, Unwinding
<1> QED
  BY <1>1, <1>2, NeverCancelled, InvHolds, FlightHolds, PTL DEF Spec
-----------------------------------------------------------------------------
(* Where a run stands in its plan *)

\* Thread u has begun its step k, and has left it behind.
Reached(u, k) == k < pc[u] \/ (k = pc[u] /\ ctl[u] \notin {"start", "idle", "ready"})
Past(u, k) == k < pc[u] \/ (k = pc[u] /\ ctl[u] \notin {"start", "idle"} \cup BusyStates)

\* A thread that was never started is at its first step.
IdleFresh == \A u \in Threads : ctl[u] \in {"start", "idle"} => pc[u] = 1

\* A branch is started only by its block.
BranchesInOrder ==
  \A u \in Threads : \A k \in DOMAIN Body[u] : \A b \in BranchesOf[Body[u][k]] :
    ctl[b] # "idle" => Reached(u, k)

PlaceInv == IdleFresh /\ BranchesInOrder

\* A block reaches the steps of its branches only through their threads.
LEMMA InsideMember ==
  ASSUME NEW S, NEW r
  PROVE  r \in Inside(S) <=>
           \E s \in S : \E b \in BranchesOf[s] : \E m \in DOMAIN Body[b] \cap Nat :
             m <= Len(Body[b]) /\ m >= 1 /\ r = Body[b][m]
BY DEF Inside, Slice

LEMMA InsideType == ASSUME NEW S \in SUBSET Steps PROVE Inside(S) \subseteq Steps
<1> SUFFICES ASSUME NEW r \in Inside(S) PROVE r \in Steps
  OBVIOUS
<1>1. PICK s \in S : \E b \in BranchesOf[s] : \E m \in DOMAIN Body[b] : r = Body[b][m]
  BY InsideMember
<1>2. PICK b \in BranchesOf[s] : \E m \in DOMAIN Body[b] : r = Body[b][m]
  BY <1>1
<1>3. b \in Threads
  BY <1>2, PlanAssumption DEF PlanAssumption, Threads
<1> QED
  BY <1>2, <1>3, BodyType

\* The step of a thread at work is inside a step some thread waits for.
LEMMA AwaitedAbove ==
  ASSUME IInv, FlightInv, ~rootCancelled, NEW S \in SUBSET Steps,
         NEW t \in Threads, ctl[t] \in BusyStates, pc[t] \in DOMAIN Body[t], Cur(t) \in Inside(S)
  PROVE  \E u \in Threads : /\ ctl[u] \in BusyStates /\ pc[u] \in DOMAIN Body[u]
                            /\ Cur(u) \in S
<1>0. PICK s \in S : \E b \in BranchesOf[s] : \E m \in DOMAIN Body[b] : Cur(t) = Body[b][m]
  BY InsideMember
<1>1. PICK b \in BranchesOf[s] : \E m \in DOMAIN Body[b] : Cur(t) = Body[b][m]
  BY <1>0
<1>2. b \in Branches /\ b \in Threads
  BY <1>1, PlanAssumption DEF PlanAssumption, Threads
<1>3. t = b
  BY <1>1, <1>2, PlanShape DEF PlanShape, Cur
<1>4. PICK u \in Threads : ctl[u] = "fanout" /\ b \in BranchesOf[Cur(u)]
  BY <1>2, <1>3 DEF FlightInv
<1>5. pc[u] \in DOMAIN Body[u] /\ Cur(u) \in Steps
  BY <1>4, CurType DEF IInv, InStep
<1>6. Cur(u) = s
  BY <1>1, <1>4, <1>5, PlanShape DEF PlanShape
<1> QED
  BY <1>4, <1>5, <1>6 DEF BusyStates

\* A step at work at any depth below step i of u: u is at that step.
LEMMA WorksBelow ==
  ASSUME IInv, FlightInv, ~rootCancelled, NEW t \in Threads, ctl[t] \in BusyStates,
         pc[t] \in DOMAIN Body[t], NEW u \in Threads, NEW i \in DOMAIN Body[u],
         Cur(t) \in Nested({Body[u][i]})
  PROVE  pc[u] = i
<1> DEFINE S0 == {Body[u][i]}
           S1 == Inside(S0)
           S2 == Inside(S1)
           S3 == Inside(S2)
           At(S) == \E v \in Threads : /\ ctl[v] \in BusyStates /\ pc[v] \in DOMAIN Body[v]
                                       /\ Cur(v) \in S
<1>1. S0 \in SUBSET Steps /\ S1 \in SUBSET Steps /\ S2 \in SUBSET Steps
  BY BodyType, InsideType
<1>2. At(S0) \/ At(S1) \/ At(S2) \/ At(S3)
  BY DEF Nested
<1> HIDE DEF S1, S2, S3
<1>3. At(S3) => At(S2)
  BY <1>1, AwaitedAbove DEF S3
<1>4. At(S2) => At(S1)
  BY <1>1, AwaitedAbove DEF S2
<1>5. At(S1) => At(S0)
  BY <1>1, AwaitedAbove DEF S1
<1>6. PICK v \in Threads : pc[v] \in DOMAIN Body[v] /\ Cur(v) = Body[u][i]
  BY <1>2, <1>3, <1>4, <1>5
<1> QED
  BY <1>6, PlanShape DEF PlanShape, Cur

\* Wherever a step is in the plan, the run has begun it.
StepReached(r) == \A u \in Threads : \A k \in DOMAIN Body[u] : Body[u][k] = r => Reached(u, k)

\* A step inside a block is begun only after the block.
LEMMA ReachedAbove ==
  ASSUME IInv, PlaceInv, NEW S \in SUBSET Steps, NEW r \in Inside(S), StepReached(r)
  PROVE  \E s \in S : StepReached(s)
<1>1. PICK s \in S : \E b \in BranchesOf[s] : \E m \in DOMAIN Body[b] \cap Nat :
        m >= 1 /\ r = Body[b][m]
  BY InsideMember
<1>2. PICK b \in BranchesOf[s] : \E m \in DOMAIN Body[b] \cap Nat : m >= 1 /\ r = Body[b][m]
  BY <1>1
<1>3. PICK m \in DOMAIN Body[b] \cap Nat : m >= 1 /\ r = Body[b][m]
  BY <1>2
<1>4. b \in Threads /\ b # Main
  BY <1>2, PlanAssumption DEF PlanAssumption, Threads
<1>5. Reached(b, m)
  BY <1>4, <1>3 DEF StepReached
<1>6. ctl[b] # "idle"
  BY <1>4, <1>5, <1>3 DEF Reached, PlaceInv, IdleFresh
<1>7. StepReached(s)
  BY <1>2, <1>6 DEF StepReached, PlaceInv, BranchesInOrder
<1> QED
  BY <1>2, <1>7

LEMMA ReachedBelow ==
  ASSUME IInv, PlaceInv, NEW r, StepReached(r), NEW u \in Threads, NEW j \in DOMAIN Body[u],
         r \in Nested({Body[u][j]})
  PROVE  Reached(u, j)
<1> DEFINE S0 == {Body[u][j]}
           S1 == Inside(S0)
           S2 == Inside(S1)
           S3 == Inside(S2)
           At(S) == \E s \in S : StepReached(s)
<1>1. S0 \in SUBSET Steps /\ S1 \in SUBSET Steps /\ S2 \in SUBSET Steps
  BY BodyType, InsideType
<1>2. At(S0) \/ At(S1) \/ At(S2) \/ At(S3)
  BY DEF Nested
<1> HIDE DEF S1, S2, S3
<1>3. At(S3) => At(S2)
  BY <1>1, ReachedAbove DEF S3
<1>4. At(S2) => At(S1)
  BY <1>1, ReachedAbove DEF S2
<1>5. At(S1) => At(S0)
  BY <1>1, ReachedAbove DEF S1
<1> QED
  BY <1>2, <1>3, <1>4, <1>5 DEF StepReached

\* No step at work comes before a step that has begun.
LEMMA NothingBehind ==
  ASSUME IInv, FlightInv, PlaceInv, ~rootCancelled, NEW t \in Threads, ctl[t] \in BusyStates,
         pc[t] \in DOMAIN Body[t], NEW r, StepReached(r)
  PROVE  ~StepBefore(Cur(t), r)
<1> SUFFICES ASSUME NEW u \in Threads, NEW i \in DOMAIN Body[u], NEW j \in DOMAIN Body[u],
                    i < j, Cur(t) \in Nested({Body[u][i]}), r \in Nested({Body[u][j]})
             PROVE  FALSE
  BY DEF StepBefore
<1>1. pc[u] = i
  BY WorksBelow
<1>2. Reached(u, j)
  BY ReachedBelow
<1>3. i \in Nat /\ j \in Nat
  BY BodyType
<1> QED
  BY <1>1, <1>2, <1>3 DEF Reached
-----------------------------------------------------------------------------
(* The place of a run in its plan only moves forward *)

Forward(u) == \A k \in Nat : (Reached(u, k) => Reached(u, k)') /\ (Past(u, k) => Past(u, k)')

LEMMA ForwardStays ==
  ASSUME NEW u, pc'[u] = pc[u], ctl'[u] = ctl[u]
  PROVE  Forward(u)
BY DEF Forward, Reached, Past

\* The branches of a block that is about to start were never started.
LEMMA StartsFresh ==
  ASSUME IInv, PlaceInv, NEW t \in Threads, AtStep(t), NEW b \in BranchesOf[Cur(t)]
  PROVE  ctl[b] = "idle" /\ pc[b] = 1
<1>1. Cur(t) \in Steps /\ pc[t] \in DOMAIN Body[t] /\ pc[t] \in Nat
  BY BodyType DEF Cur, AtStep
<1>2. b \in Threads
  BY <1>1, PlanAssumption DEF PlanAssumption, Threads
<1>3. ~Reached(t, pc[t])
  BY <1>1 DEF Reached, AtStep
<1> QED
  BY <1>1, <1>2, <1>3 DEF PlaceInv, IdleFresh, BranchesInOrder, Cur

\* What a step of t makes of its own place.
LEMMA OwnPlace ==
  ASSUME IInv, NEW t \in Threads, Step(t)
  PROVE  /\ Forward(t)
         /\ ctl'[t] \notin {"start", "idle"}
         /\ ctl'[t] = "fanout" => pc'[t] = pc[t]
<1>0. ctl \in [Threads -> Controls] /\ pc \in [Threads -> Nat] /\ ctl[t] \in BusyStates
  BY StepMoves DEF IInv, ControlOK, Moves
<1>1. CASE ThrowsOut(t)
  <2>1. pc'[t] = pc[t] /\ ctl'[t] \in {"unwind", "failed"}
    BY <1>0, <1>1 DEF ThrowsOut, Throw
  <2> QED
    BY <1>0, <2>1 DEF Forward, Reached, Past, BusyStates
<1>2. CASE GoesOn(t)
  <2>1. \/ pc'[t] = pc[t] + 1 /\ ctl'[t] = "ready"
        \/ pc'[t] = pc[t] /\ ctl'[t] = "poll"
    BY <1>0, <1>2 DEF GoesOn, StepDone
  <2> QED
    BY <1>0, <2>1 DEF Forward, Reached, Past, BusyStates
<1>3. CASE Ends(t)
  <2>1. pc'[t] = pc[t] /\ ctl'[t] \in {"returned", "done"}
    BY <1>0, <1>3 DEF Ends, EndSequence
  <2> QED
    BY <1>0, <2>1 DEF Forward, Reached, Past, BusyStates
<1>4. CASE Waits(t) \/ Splits(t)
  <2>1. pc'[t] = pc[t] /\ ctl'[t] \in BusyStates \ {"ready"}
    BY <1>0, <1>4 DEF Waits, Splits, StartParallel, BusyStates
  <2> QED
    BY <1>0, <2>1 DEF Forward, Reached, Past, BusyStates
<1> QED
  BY <1>1, <1>2, <1>3, <1>4, StepMoves DEF Moves

LEMMA StepForward ==
  ASSUME IInv, PlaceInv, NEW t \in Threads, Step(t), NEW u \in Threads
  PROVE  Forward(u)
<1>1. CASE u = t
  BY <1>1, OwnPlace
<1>2. CASE u # t /\ ctl'[u] = ctl[u]
  BY <1>2, OthersStay, ForwardStays
<1>3. CASE u # t /\ ctl'[u] # ctl[u]
  <2>1. u \in BranchesOf[Cur(t)] /\ AtStep(t)
    BY <1>3, OthersStay DEF StartParallel
  <2>2. ctl[u] = "idle" /\ pc'[u] = pc[u]
    BY <1>3, <2>1, StartsFresh, OthersStay
  <2> QED
    BY <2>2 DEF Forward, Reached, Past
<1> QED
  BY <1>1, <1>2, <1>3

LEMMA StepPlace ==
  ASSUME IInv, PlaceInv, NEW t \in Threads, Step(t)
  PROVE  PlaceInv'
<1>1. IdleFresh'
  <2> SUFFICES ASSUME NEW u \in Threads, ctl'[u] \in {"start", "idle"} PROVE pc'[u] = 1
    BY DEF IdleFresh
  <2>1. u # t
    BY OwnPlace
  <2>2. ctl'[u] = ctl[u]
    <3> SUFFICES ASSUME StartParallel(t), u \in BranchesOf[Cur(t)] PROVE FALSE
      BY <2>1, OthersStay
    <3> QED
      BY <2>1 DEF StartParallel
  <2> QED
    BY <2>1, <2>2, OthersStay DEF PlaceInv, IdleFresh
<1>2. BranchesInOrder'
  <2> SUFFICES ASSUME NEW u \in Threads, NEW k \in DOMAIN Body[u], NEW b \in BranchesOf[Body[u][k]],
                      ctl'[b] # "idle"
               PROVE  Reached(u, k)'
    BY DEF BranchesInOrder
  <2>0. k \in Nat /\ Body[u][k] \in Steps
    BY BodyType
  <2>1. b \in Threads
    BY <2>0, PlanAssumption DEF PlanAssumption, Threads
  <2>2. CASE ctl[b] # "idle"
    BY <2>0, <2>2, StepForward DEF PlaceInv, BranchesInOrder, Forward
  <2>3. CASE ctl[b] = "idle"
    <3>1. b # t
      BY <2>3, StepMoves DEF Moves, BusyStates
    <3>2. b \in BranchesOf[Cur(t)] /\ StartParallel(t)
      BY <2>1, <2>3, <3>1, OthersStay
    <3>3. pc[t] \in DOMAIN Body[t] /\ Cur(t) \in Steps
      BY <3>2, CurType DEF IInv, StartParallel
    <3>4. u = t /\ k = pc[t]
      BY <2>0, <3>2, <3>3, PlanShape DEF PlanShape, Cur
    <3>5. ctl'[t] = "fanout" /\ pc'[t] = pc[t]
      BY <3>2, FanOutAt, OwnPlace
    <3> QED
      BY <3>4, <3>5 DEF Reached
  <2> QED
    BY <2>2, <2>3
<1> QED
  BY <1>1, <1>2 DEF PlaceInv

\* Every route of the current gate leads forward.
LEMMA RouteForward ==
  ASSUME IInv, ctl[Main] \in {"poll", "review"}, NEW g \in Gates, AfterStep[g] = Cur(Main),
         NEW s \in {UserDecisions[g][d] : d \in Decisions} \cup {TimeoutRoute[g]}, s # Null
  PROVE  IndexOf(s) \in Nat /\ IndexOf(s) > pc[Main]
<1>1. PICK i \in DOMAIN Body[Main] :
        /\ Body[Main][i] = AfterStep[g]
        /\ \A r \in ({UserDecisions[g][d] : d \in Decisions} \cup {TimeoutRoute[g]}) \ {Null} :
             \E j \in DOMAIN Body[Main] : i < j /\ Body[Main][j] = r
  BY PlanShape DEF PlanShape
<1>2. PICK j \in DOMAIN Body[Main] : i < j /\ Body[Main][j] = s
  BY <1>1
<1>3. pc[Main] \in DOMAIN Body[Main]
  BY MainIsThread DEF IInv, ControlOK, InStep
<1>4. i = pc[Main]
  BY <1>1, <1>3, MainIsThread, PlanShape DEF PlanShape, Cur
<1>5. IndexOf(s) = j
  BY <1>2, RouteIndex, MainIsThread, PlanShape DEF PlanShape
<1> QED
  BY <1>2, <1>4, <1>5, BodyType, MainIsThread

\* The gates, the unwind and the signals move only the main sequence, and
\* only forward; items move nothing.
LEMMA OtherForward ==
  ASSUME IInv, PlaceInv, Start \/ Gate \/ Unwind \/ Signal \/ ItemSettles \/ UNCHANGED vars
  PROVE  /\ \A u \in Threads : Forward(u)
         /\ \A u \in Threads : u # Main => ctl'[u] = ctl[u] /\ pc'[u] = pc[u]
         /\ \/ ctl'[Main] \in {"ready", "review", "unwind", "compensating", "threw"}
            \/ ctl'[Main] = ctl[Main] /\ pc'[Main] = pc[Main]
<1>0. /\ ctl \in [Threads -> Controls] /\ pc \in [Threads -> Nat] /\ Main \in Threads
      /\ \A k \in DOMAIN Body[Main] : k \in Nat
  BY MainIsThread, BodyType DEF IInv, ControlOK
<1> DEFINE Goes ==
      \/ \E k \in Nat : k > pc[Main] /\ pc' = [pc EXCEPT ![Main] = k] /\ ctl' = [ctl EXCEPT ![Main] = "ready"]
      \/ \E c \in {"review", "unwind", "compensating", "threw"} :
           ctl[Main] \notin BusyStates \cup {"start", "idle"} /\ pc' = pc /\ ctl' = [ctl EXCEPT ![Main] = c]
      \/ ctl[Main] = "start" /\ pc' = pc /\ ctl' = [ctl EXCEPT ![Main] = "ready"]
      \/ pc' = pc /\ ctl' = ctl
<1>1. Goes
  <2>1. CASE Start
    BY <1>0, <2>1 DEF Start
  <2>2. CASE GateRoutes
    <3> DEFINE s == lc.gate[CurrentGate].routeTarget
    <3>1. s # Null /\ CurrentGate \in Gates /\ AfterStep[CurrentGate] = Cur(Main)
      BY <2>2, CurrentGateType DEF IInv, GateRoutes, Polling
    <3>2. IndexOf(s) \in Nat /\ IndexOf(s) > pc[Main]
      BY <2>2, <3>1, RouteForward DEF IInv, LifeOK, RoutesKnown, GateRoutes, Polling
    <3> QED
      BY <2>2, <3>2 DEF GateRoutes, JumpTo
  <2>3. CASE GateTimesOut
    <3>1. CASE OnTimeout[CurrentGate] = "route"
      <4> DEFINE s == TimeoutRoute[CurrentGate]
      <4>1. CurrentGate \in Gates /\ AfterStep[CurrentGate] = Cur(Main)
        BY <2>3, CurrentGateType DEF IInv, GateTimesOut
      <4>2. s # Null
        BY <3>1, <4>1, LifecycleAssumption DEF LifecycleAssumption
      <4>3. IndexOf(s) \in Nat /\ IndexOf(s) > pc[Main]
        BY <2>3, <4>1, <4>2, RouteForward DEF GateTimesOut
      <4> QED
        BY <2>3, <3>1, <4>3 DEF GateTimesOut, JumpTo
    <3>2. CASE OnTimeout[CurrentGate] # "route"
      BY <2>3, <3>2 DEF GateTimesOut, Throw, BusyStates
    <3> QED
      BY <3>1, <3>2
  <2>4. CASE GateRaisesCancelled \/ GateFailsOnInvalid \/ ReviewRejects
    BY <2>4 DEF GateRaisesCancelled, GateFailsOnInvalid, ReviewRejects, Polling, Throw, BusyStates
  <2>5. CASE GateKeepsWaiting
    BY <2>5 DEF GateKeepsWaiting, Polling, BusyStates
  <2>6. CASE Unwind
    BY <2>6 DEF Unwind, StartCompensation, CompensationEnds, FinishUnwind, BusyStates
  <2>7. CASE Signal \/ ItemSettles \/ UNCHANGED vars
    BY <2>7 DEF Signal, RequestCancel, SubmitReview, CancelNatively, ItemSettles,
         ItemCompletes, ItemFails, vars
  <2> QED
    BY <2>1, <2>2, <2>3, <2>4, <2>5, <2>6, <2>7 DEF Gate
<1>2. \A u \in Threads : u # Main => ctl'[u] = ctl[u] /\ pc'[u] = pc[u]
  BY <1>0, <1>1
<1>3. \/ ctl'[Main] \in {"ready", "review", "unwind", "compensating", "threw"}
      \/ ctl'[Main] = ctl[Main] /\ pc'[Main] = pc[Main]
  BY <1>0, <1>1
<1>4. Forward(Main)
  <2>1. \/ pc'[Main] > pc[Main] /\ pc'[Main] \in Nat
        \/ /\ ctl[Main] \notin BusyStates \cup {"start", "idle"} /\ pc'[Main] = pc[Main]
           /\ ctl'[Main] \in {"review", "unwind", "compensating", "threw"}
        \/ ctl[Main] = "start" /\ pc'[Main] = pc[Main]
        \/ ctl'[Main] = ctl[Main] /\ pc'[Main] = pc[Main]
    BY <1>0, <1>1
  <2> QED
    BY <1>0, <2>1 DEF Forward, Reached, Past, BusyStates
<1> QED
  BY <1>2, <1>3, <1>4, ForwardStays

LEMMA OtherPlace ==
  ASSUME IInv, PlaceInv, Start \/ Gate \/ Unwind \/ Signal \/ ItemSettles \/ UNCHANGED vars
  PROVE  PlaceInv'
<1>1. IdleFresh'
  BY OtherForward DEF PlaceInv, IdleFresh
<1>2. BranchesInOrder'
  <2> SUFFICES ASSUME NEW u \in Threads, NEW k \in DOMAIN Body[u], NEW b \in BranchesOf[Body[u][k]],
                      ctl'[b] # "idle"
               PROVE  Reached(u, k)'
    BY DEF BranchesInOrder
  <2>1. k \in Nat /\ Body[u][k] \in Steps
    BY BodyType
  <2>2. b \in Threads /\ b # Main
    BY <2>1, PlanAssumption DEF PlanAssumption, Threads
  <2> QED
    BY <2>1, <2>2, OtherForward DEF PlaceInv, BranchesInOrder, Forward
<1> QED
  BY <1>1, <1>2 DEF PlaceInv

LEMMA InitPlace == Init => PlaceInv
<1> SUFFICES ASSUME Init PROVE PlaceInv
  OBVIOUS
<1>1. IdleFresh
  BY DEF Init, IdleFresh
<1>2. BranchesInOrder
  <2> SUFFICES ASSUME NEW u \in Threads, NEW k \in DOMAIN Body[u], NEW b \in BranchesOf[Body[u][k]]
               PROVE  ctl[b] = "idle"
    BY DEF BranchesInOrder
  <2>1. b \in Threads /\ b # Main
    BY BodyType, PlanAssumption DEF PlanAssumption, Threads
  <2> QED
    BY <2>1 DEF Init
<1> QED
  BY <1>1, <1>2 DEF PlaceInv

LEMMA NextForward ==
  ASSUME IInv, PlaceInv, [Next]_vars
  PROVE  PlaceInv' /\ \A u \in Threads : Forward(u)
BY StepForward, StepPlace, OtherForward, OtherPlace DEF Next, Closed
-----------------------------------------------------------------------------
(* The compensation stack grows in the order of the plan *)

\* Every input_from of a compensated step resolves.
Resolvable == Fragile \cap Compensated = {}

\* What a thread at work is at work on.
KindInv ==
  \A t \in Threads : /\ ctl[t] \in {"activity", "resolved"} => Cur(t) \in Atomic
                     /\ ctl[t] \in {"prep", "release"} => Cur(t) \in Mapped

\* The steps on the stack are behind the run, in the order they ran in.
StackBehind ==
  \A i \in DOMAIN compensationStack : \A u \in Threads : \A k \in DOMAIN Body[u] :
    Body[u][k] = compensationStack[i][1] => Past(u, k)

StackOrdered ==
  \A i, j \in DOMAIN compensationStack :
    i <= j => /\ ~StepBefore(compensationStack[j][1], compensationStack[i][1])
              /\ i < j => compensationStack[i][1] # compensationStack[j][1]

StackInv == StackBehind /\ StackOrdered

LEMMA StepKind == ASSUME IInv, PlaceInv, KindInv, NEW t \in Threads, Step(t) PROVE KindInv'
<1>0. ctl \in [Threads -> Controls] /\ pc \in [Threads -> Nat]
  BY DEF IInv, ControlOK
<1> SUFFICES ASSUME NEW u \in Threads
             PROVE  /\ ctl'[u] \in {"activity", "resolved"} => Cur(u)' \in Atomic
                    /\ ctl'[u] \in {"prep", "release"} => Cur(u)' \in Mapped
  BY DEF KindInv
<1>1. CASE u # t
  <2>1. CASE ctl'[u] = ctl[u]
    BY <1>1, <2>1, OthersStay DEF KindInv
  <2>2. CASE ctl'[u] # ctl[u]
    <3>1. StartParallel(t) /\ u \in BranchesOf[Cur(t)]
      BY <1>1, <2>2, OthersStay
    <3>2. PICK out \in SUBSET (BranchesOf[Cur(t)] \cap Gated) :
            ctl' = [v \in Threads |-> IF v = t THEN "fanout"
                                      ELSE IF v \in out THEN "skipped"
                                      ELSE IF v \in BranchesOf[Cur(t)] THEN "ready"
                                      ELSE ctl[v]]
      BY <3>1 DEF StartParallel
    <3> QED
      BY <1>1, <3>1, <3>2
  <2> QED
    BY <2>1, <2>2
<1>2. CASE u = t
  <2>1. CASE ThrowsOut(t)
    BY <1>0, <1>2, <2>1 DEF ThrowsOut, Throw
  <2>2. CASE GoesOn(t)
    BY <1>0, <1>2, <2>2 DEF GoesOn, StepDone
  <2>3. CASE Ends(t)
    BY <1>0, <1>2, <2>3 DEF Ends, EndSequence
  <2>4. CASE Splits(t)
    BY <1>0, <1>2, <2>4 DEF Splits, StartParallel
  <2>5. CASE Waits(t)
    <3>1. PICK c \in {"activity", "resolved", "prep", "fanout", "release"} :
            ctl' = [ctl EXCEPT ![t] = c] /\ UNCHANGED pc
      BY <2>5 DEF Waits
    <3>2. ctl'[t] = c /\ Cur(t)' = Cur(t)
      BY <1>0, <3>1 DEF Cur
    <3>3. ctl[t] \in BusyStates /\ c # "ready"
      BY <3>1, StepMoves DEF Moves
    <3>4. \A why : ~Throw(t, why)
      BY <1>0, <3>1, <3>2 DEF Throw
    <3>5. \A l : ~StepDone(t, l) /\ ~EndSequence(t, l)
      BY <1>0, <3>1, <3>2 DEF StepDone, EndSequence
    <3>6. \A outcome : ~MapEnds(t, outcome)
      BY <3>4, <3>5 DEF MapEnds
    <3>7. c \in {"activity", "resolved"} => StartAtomic(t) \/ AtomicCompletes(t)
      BY <1>0, <3>2, <3>4, <3>5, <3>6
         DEF Step, RaiseIfCancelled, SkipRemainder, FinishSequence, AtomicRecorded, AtomicFails,
             StartMap, PrepCompletes, PrepFails, MapSettles, ReleaseEnds,
             RaceRejects, StartParallel, ParallelSettles, FanOutItems
    <3>8. c \in {"prep", "release"} => StartMap(t) \/ MapSettles(t)
      BY <1>0, <3>2, <3>4, <3>5, <3>6
         DEF Step, RaiseIfCancelled, SkipRemainder, FinishSequence, StartAtomic,
             AtomicCompletes, AtomicRecorded, AtomicFails, PrepCompletes, PrepFails, ReleaseEnds,
             RaceRejects, StartParallel, ParallelSettles, FanOutItems
    <3> QED
      BY <1>2, <3>2, <3>7, <3>8 DEF StartAtomic, AtomicCompletes, StartMap, MapSettles, KindInv
  <2> QED
    BY <2>1, <2>2, <2>3, <2>4, <2>5, StepMoves DEF Moves
<1> QED
  BY <1>1, <1>2

\* The ways in which a step of t treats the operations that took effect: the
\* result of an atomic step, its record, the end of a map, or none of these.
Performs(t) ==
  /\ AtomicCompletes(t) /\ Cur(t) \in Atomic
  /\ ctl'[t] = "resolved" /\ Cur(t)' = Cur(t)

Records(t) ==
  /\ ctl[t] = "resolved" /\ Cur(t) \in Atomic
  /\ Push(Cur(t), {0})
  /\ UNCHANGED <<effects, item>>
  /\ GoesOn(t)

Collects(t) ==
  /\ ctl[t] \in {"fanout", "release"} /\ Cur(t) \in Mapped
  /\ Push(Cur(t), CompletedIndices(Cur(t)))
  /\ UNCHANGED <<effects, item>>
  /\ ThrowsOut(t) \/ GoesOn(t)

Spares(t) ==
  /\ UNCHANGED <<compensationStack, effects>>
  /\ UNCHANGED item \/ FanOutItems(t)
  /\ ctl[t] \in {"fanout", "release"} /\ Cur(t) \in Mapped =>
       ctl'[t] = "release" /\ pc'[t] = pc[t]
  /\ ctl[t] = "resolved" => Cur(t) \notin Compensated
  /\ ~AtomicCompletes(t)

LEMMA MapEndsCollects ==
  ASSUME Resolvable, IInv, NEW t \in Threads, NEW outcome \in {"ok", "cancelled", "failure"},
         MapEnds(t, outcome), outcome = "cancelled" => lc.cancellationRequested
  PROVE  Push(Cur(t), CompletedIndices(Cur(t))) /\ (ThrowsOut(t) \/ GoesOn(t))
BY MapEndsMoves DEF MapEnds, Resolvable

LEMMA StepOps ==
  ASSUME Resolvable, IInv, KindInv, ~rootCancelled, NEW t \in Threads, Step(t)
  PROVE  UNCHANGED undone /\ (Performs(t) \/ Records(t) \/ Collects(t) \/ Spares(t))
<1>0. ctl \in [Threads -> Controls] /\ pc \in [Threads -> Nat] /\ lc \in LifecycleState
  BY DEF IInv, ControlOK, LifeOK
<1>1. UNCHANGED undone
  BY DEF Step, RaiseIfCancelled, SkipRemainder, FinishSequence, StartAtomic, AtomicCompletes, AtomicRecorded,
         AtomicFails, StartMap, PrepCompletes, PrepFails, MapSettles, ReleaseEnds, RaceRejects,
         StartParallel, ParallelSettles
<1>2. CASE RaiseIfCancelled(t) \/ SkipRemainder(t) \/ FinishSequence(t) \/ StartAtomic(t)
           \/ AtomicFails(t) \/ PrepFails(t)
  <2>1. ~AtomicCompletes(t)
    BY <1>0, <1>2 DEF RaiseIfCancelled, SkipRemainder, FinishSequence, StartAtomic, AtomicFails,
              PrepFails, AtStep, AtomicCompletes, Throw
  <2> QED
    BY <1>2, <2>1 DEF Spares, RaiseIfCancelled, SkipRemainder, FinishSequence, StartAtomic,
              AtomicFails, PrepFails, AtStep
<1>3. CASE StartMap(t) \/ PrepCompletes(t)
  BY <1>3 DEF Spares, StartMap, PrepCompletes, AtStep, AtomicCompletes
<1>4. CASE StartParallel(t)
  BY <1>4 DEF Spares, StartParallel, AtStep, AtomicCompletes
<1>5. CASE ParallelSettles(t)
  BY <1>5 DEF Spares, ParallelSettles, Parallel, Mapped, AtomicCompletes
<1>6. CASE AtomicCompletes(t)
  <2>1. Cur(t) \in Atomic
    BY <1>6 DEF AtomicCompletes, KindInv
  <2>2. ctl'[t] = "resolved" /\ Cur(t)' = Cur(t)
    BY <1>0, <1>6 DEF AtomicCompletes, Cur
  <2> QED
    BY <1>1, <1>6, <2>1, <2>2 DEF Performs
<1>10. CASE AtomicRecorded(t)
  <2>1. ctl[t] = "resolved" /\ Cur(t) \in Atomic /\ Cur(t) \notin Mapped /\ ~AtomicCompletes(t)
    BY <1>10 DEF AtomicRecorded, AtomicCompletes, KindInv, Atomic, Mapped
  <2>2. CASE Cur(t) \in Fragile /\ UNCHANGED compensationStack
    BY <1>1, <1>10, <2>1, <2>2 DEF AtomicRecorded, Resolvable, Spares
  <2>3. CASE Push(Cur(t), {0}) /\ StepDone(t, lc)
    <3>1. GoesOn(t)
      BY <1>0, <2>3, UnitsCount DEF GoesOn
    <3> QED
      BY <1>1, <1>10, <2>1, <2>3, <3>1 DEF AtomicRecorded, Records
  <2> QED
    BY <1>10, <2>2, <2>3 DEF AtomicRecorded
<1>7. CASE MapSettles(t)
  <2>1. ctl[t] = "fanout" /\ Cur(t) \in Mapped /\ UNCHANGED <<item, effects>>
    BY <1>7 DEF MapSettles
  <2>2. CASE \E outcome \in {"ok", "failure"} : MapEnds(t, outcome)
    BY <1>1, <2>1, <2>2, MapEndsCollects DEF Collects
  <2>3. CASE lc.cancellationRequested /\ MapEnds(t, "cancelled")
    BY <1>1, <2>1, <2>3, MapEndsCollects DEF Collects
  <2>4. CASE ctl' = [ctl EXCEPT ![t] = "release"] /\ UNCHANGED <<pc, compensationStack>>
    BY <1>0, <1>1, <2>1, <2>4 DEF Spares, AtomicCompletes
  <2> QED
    BY <1>7, <2>2, <2>3, <2>4 DEF MapSettles, Collected
<1>8. CASE ReleaseEnds(t)
  <2>1. \E outcome \in {"ok", "failure"} : MapEnds(t, outcome)
    BY <1>8 DEF ReleaseEnds, Collected
  <2>2. ctl[t] = "release" /\ Cur(t) \in Mapped /\ UNCHANGED <<item, effects>>
    BY <1>8 DEF ReleaseEnds, KindInv
  <2> QED
    BY <1>1, <2>1, <2>2, MapEndsCollects DEF Collects
<1>9. ~RaceRejects(t)
  BY DEF RaceRejects, RaceRejected
<1> QED
  BY <1>1, <1>2, <1>3, <1>4, <1>5, <1>6, <1>7, <1>8, <1>9, <1>10 DEF Step

\* A step that is over is behind.
LEMMA LeftBehind ==
  ASSUME IInv, NEW t \in Threads, ThrowsOut(t) \/ GoesOn(t), NEW k, k = pc[t]
  PROVE  Past(t, k)'
<1>0. ctl \in [Threads -> Controls] /\ pc \in [Threads -> Nat]
  BY DEF IInv, ControlOK
<1>1. CASE ThrowsOut(t)
  <2>1. pc'[t] = pc[t] /\ ctl'[t] \in {"unwind", "failed"}
    BY <1>0, <1>1 DEF ThrowsOut, Throw
  <2> QED
    BY <2>1 DEF Past, BusyStates
<1>2. CASE GoesOn(t)
  <2>1. \/ pc'[t] = pc[t] + 1
        \/ pc'[t] = pc[t] /\ ctl'[t] = "poll"
    BY <1>0, <1>2 DEF GoesOn, StepDone
  <2> QED
    BY <1>0, <2>1 DEF Past, BusyStates
<1> QED
  BY <1>1, <1>2

LEMMA PastIsReached == ASSUME NEW u, NEW k, Past(u, k) PROVE Reached(u, k)
BY DEF Past, Reached, BusyStates

LEMMA StackKept ==
  ASSUME IInv, StackInv, \A u \in Threads : Forward(u),
         DOMAIN compensationStack' \subseteq DOMAIN compensationStack,
         \A i \in DOMAIN compensationStack' : compensationStack'[i][1] = compensationStack[i][1]
  PROVE  StackInv'
<1>1. StackBehind'
  BY BodyType DEF StackInv, StackBehind, Forward
<1>2. StackOrdered'
  BY DEF StackInv, StackOrdered, StepBefore
<1> QED
  BY <1>1, <1>2 DEF StackInv

LEMMA StepStack ==
  ASSUME Resolvable, IInv, FlightInv, PlaceInv, KindInv, StackInv, ~rootCancelled,
         NEW t \in Threads, Step(t)
  PROVE  StackInv'
<1>0. \A u \in Threads : Forward(u)
  BY StepForward
<1>1. CASE UNCHANGED compensationStack
  BY <1>0, <1>1, StackKept
<1>2. CASE compensationStack' # compensationStack
  <2>1. PICK I : /\ compensationStack' = Append(compensationStack, <<Cur(t), I>>)
                 /\ ctl[t] \in {"resolved", "fanout", "release"}
                 /\ ThrowsOut(t) \/ GoesOn(t)
    <3>1. CASE Records(t)
      BY <1>2, <3>1 DEF Records, Push
    <3>2. CASE Collects(t)
      BY <1>2, <3>2 DEF Collects, Push
    <3> QED
      BY <1>2, <3>1, <3>2, StepOps DEF Spares, Performs, AtomicCompletes
  <2> DEFINE n == Len(compensationStack)
             s == Cur(t)
  <2>2. /\ compensationStack \in Seq(Steps \X SUBSET Nat)
        /\ n \in Nat /\ DOMAIN compensationStack = 1..n
        /\ DOMAIN compensationStack' = 1..(n + 1)
        /\ \A i \in 1..n : compensationStack'[i] = compensationStack[i]
        /\ compensationStack'[n + 1] = <<s, I>>
    BY <2>1 DEF IInv, DataOK
  <2>3. pc[t] \in DOMAIN Body[t] /\ s \in Steps /\ pc[t] \in Nat /\ ctl[t] \in BusyStates \ {"ready"}
    BY <2>1, CurType, BodyType DEF IInv, InStep, BusyStates
  <2> HIDE DEF n, s
  <2>4. \A u \in Threads : \A k \in DOMAIN Body[u] : Body[u][k] = s => u = t /\ k = pc[t]
    BY <2>3, PlanShape DEF PlanShape, s, Cur
  <2>5. StackBehind'
    <3> SUFFICES ASSUME NEW i \in 1..(n + 1), NEW u \in Threads, NEW k \in DOMAIN Body[u],
                        Body[u][k] = compensationStack'[i][1]
                 PROVE  Past(u, k)'
      BY <2>2 DEF StackBehind
    <3>1. CASE i = n + 1
      BY <2>1, <2>2, <2>4, <3>1, LeftBehind
    <3>2. CASE i \in 1..n
      BY <1>0, <2>2, <3>2, BodyType DEF StackInv, StackBehind, Forward
    <3> QED
      BY <2>2, <3>1, <3>2
  <2>6. StepReached(s)
    BY <2>3, <2>4 DEF StepReached, Reached, BusyStates
  <2>7. \A i \in 1..n : StepReached(compensationStack[i][1]) /\ compensationStack[i][1] # s
    <3> SUFFICES ASSUME NEW i \in 1..n
                 PROVE  StepReached(compensationStack[i][1]) /\ compensationStack[i][1] # s
      OBVIOUS
    <3>1. StepReached(compensationStack[i][1])
      BY <2>2, PastIsReached DEF StackInv, StackBehind, StepReached
    <3>2. ~Past(t, pc[t])
      BY <2>3 DEF Past
    <3> QED
      BY <2>2, <2>3, <3>1, <3>2 DEF StackInv, StackBehind, s, Cur
  <2>8. ~StepBefore(s, s) /\ \A i \in 1..n : ~StepBefore(s, compensationStack[i][1])
    BY <2>3, <2>6, <2>7, NothingBehind DEF s
  <2>9. StackOrdered'
    <3> SUFFICES ASSUME NEW i \in 1..(n + 1), NEW j \in 1..(n + 1), i <= j
                 PROVE  /\ ~StepBefore(compensationStack'[j][1], compensationStack'[i][1])
                        /\ i < j => compensationStack'[i][1] # compensationStack'[j][1]
      BY <2>2 DEF StackOrdered, StepBefore
    <3>1. CASE j = n + 1
      BY <2>2, <2>7, <2>8, <3>1
    <3>2. CASE j \in 1..n
      <4>1. i \in 1..n
        BY <2>2, <3>2
      <4>2. compensationStack'[i] = compensationStack[i] /\ compensationStack'[j] = compensationStack[j]
        BY <2>2, <3>2, <4>1
      <4> QED
        BY <2>2, <3>2, <4>1, <4>2 DEF StackInv, StackOrdered
    <3> QED
      BY <2>2, <3>1, <3>2
  <2> QED
    BY <2>5, <2>9 DEF StackInv
<1> QED
  BY <1>1, <1>2
-----------------------------------------------------------------------------
(* Every compensated operation that took effect is accounted for *)

\* The operations on the stack, and those a map still has to push.
Batch(s, I) == {<<s, i>> : i \in I}

StackOps ==
  UNION {Batch(compensationStack[k][1], compensationStack[k][2]) : k \in DOMAIN compensationStack}

Awaited(s) == \E t \in Threads : ctl[t] \in {"fanout", "release"} /\ Cur(t) = s

Pending == {x \in Items : item[x] = "done" /\ x[1] \in Compensated /\ Awaited(x[1])}

\* The results of atomic steps that their sequences have in hand.
InHand(o) == \E t \in Threads : ctl[t] = "resolved" /\ o = <<Cur(t), 0>>

Held == {o \in SagaOps : InHand(o)}

EffectsInv ==
  /\ effects \subseteq SagaOps
  /\ \A x \in Items : item[x] = "done" /\ x[1] \in Compensated => x \in effects
  /\ UndoneOps \cup StackOps \cup Held \subseteq effects
  /\ effects \subseteq UndoneOps \cup StackOps \cup Pending \cup Held

LEMMA StackMember ==
  ASSUME NEW o
  PROVE  o \in StackOps <=>
           \E k \in DOMAIN compensationStack :
             \E i \in compensationStack[k][2] : o = <<compensationStack[k][1], i>>
BY DEF StackOps, Batch

LEMMA StackMemberNext ==
  ASSUME NEW o
  PROVE  o \in StackOps' <=>
           \E k \in DOMAIN compensationStack' :
             \E i \in compensationStack'[k][2] : o = <<compensationStack'[k][1], i>>
BY DEF StackOps, Batch

LEMMA PushOps ==
  ASSUME IInv, NEW s \in Steps, NEW I \in SUBSET Nat, Push(s, I)
  PROVE  StackOps' = StackOps \cup (IF s \in Compensated THEN Batch(s, I) ELSE {})
<1>1. CASE compensationStack' = compensationStack /\ (s \notin Compensated \/ I = {})
  BY <1>1 DEF StackOps, Batch
<1>2. CASE compensationStack' = Append(compensationStack, <<s, I>>) /\ s \in Compensated
  <2> DEFINE n == Len(compensationStack)
  <2>1. /\ n \in Nat /\ DOMAIN compensationStack = 1..n
        /\ DOMAIN compensationStack' = 1..(n + 1)
        /\ \A i \in 1..n : compensationStack'[i] = compensationStack[i]
        /\ compensationStack'[n + 1] = <<s, I>>
    BY <1>2 DEF IInv, DataOK
  <2> HIDE DEF n
  <2>2. \A o : o \in StackOps' <=> o \in StackOps \/ \E i \in I : o = <<s, i>>
    <3> SUFFICES ASSUME NEW o
                 PROVE  o \in StackOps' <=> o \in StackOps \/ \E i \in I : o = <<s, i>>
      OBVIOUS
    <3>1. o \in StackOps' <=> \/ \E k \in 1..n : \E i \in compensationStack[k][2] :
                                   o = <<compensationStack[k][1], i>>
                              \/ \E i \in I : o = <<s, i>>
      BY <2>1, StackMemberNext
    <3> QED
      BY <2>1, <3>1, StackMember
  <2> QED
    BY <1>2, <2>2 DEF Batch
<1> QED
  BY <1>1, <1>2 DEF Push

\* A thread that waits for a map, releases its session or has a result in hand is
\* left alone by the steps of the others.
LEMMA AwaitedStays ==
  ASSUME IInv, PlaceInv, NEW t \in Threads, Step(t), NEW u \in Threads, u # t,
         ctl[u] \in {"resolved", "fanout", "release"}
  PROVE  ctl'[u] = ctl[u] /\ Cur(u)' = Cur(u)
<1>1. ~(StartParallel(t) /\ u \in BranchesOf[Cur(t)])
  BY StartsFresh DEF StartParallel
<1> QED
  BY <1>1, OthersStay

\* Only the completion of an atomic step leaves a result in hand.
LEMMA ResultOf ==
  ASSUME IInv, NEW t \in Threads, Step(t), ctl'[t] = "resolved"
  PROVE  AtomicCompletes(t)
<1>0. ctl \in [Threads -> Controls]
  BY DEF IInv, ControlOK
<1>1. \A why : ~Throw(t, why)
  BY <1>0 DEF Throw
<1>2. \A l : ~StepDone(t, l) /\ ~EndSequence(t, l)
  BY <1>0 DEF StepDone, EndSequence
<1>3. ~StartParallel(t) /\ ~FanOutItems(t)
  BY <1>0 DEF StartParallel, FanOutItems
<1>4. \A outcome : ~MapEnds(t, outcome)
  BY <1>1, <1>2 DEF MapEnds
<1> QED
  BY <1>0, <1>1, <1>2, <1>3, <1>4
     DEF Step, RaiseIfCancelled, SkipRemainder, FinishSequence, StartAtomic, AtomicRecorded,
         AtomicFails, StartMap, PrepCompletes, PrepFails, MapSettles, ReleaseEnds, RaceRejects,
         ParallelSettles

\* A step of t changes no result in hand but its own.
LEMMA HandChanges ==
  ASSUME IInv, PlaceInv, NEW t \in Threads, Step(t), NEW o
  PROVE  /\ InHand(o)' => InHand(o) \/ (AtomicCompletes(t) /\ o = <<Cur(t), 0>>)
         /\ InHand(o) => InHand(o)' \/ (ctl[t] = "resolved" /\ o = <<Cur(t), 0>>)
<1>0. ctl \in [Threads -> Controls] /\ pc \in [Threads -> Nat]
  BY DEF IInv, ControlOK
<1>1. ASSUME NEW u \in Threads, u # t, ctl'[u] = "resolved"
      PROVE  ctl[u] = "resolved" /\ Cur(u)' = Cur(u)
  <2>1. ASSUME StartParallel(t) PROVE ctl'[u] = ctl[u]
    BY <1>0, <1>1, <2>1 DEF StartParallel
  <2> QED
    BY <1>1, <2>1, OthersStay
<1>2. ctl'[t] = "resolved" => AtomicCompletes(t) /\ Cur(t)' = Cur(t)
  BY ResultOf DEF AtomicCompletes, Cur
<1>3. InHand(o)' => InHand(o) \/ (AtomicCompletes(t) /\ o = <<Cur(t), 0>>)
  BY <1>1, <1>2 DEF InHand
<1>4. InHand(o) => InHand(o)' \/ (ctl[t] = "resolved" /\ o = <<Cur(t), 0>>)
  BY AwaitedStays DEF InHand
<1> QED
  BY <1>3, <1>4

\* The other actions leave the results in hand alone.
LEMMA HandsStay ==
  ASSUME IInv, PlaceInv, Start \/ Gate \/ Unwind \/ Signal \/ ItemSettles \/ UNCHANGED vars,
         NEW o
  PROVE  InHand(o)' <=> InHand(o)
<1>1. ctl[Main] = "resolved" => ctl'[Main] = ctl[Main] /\ pc'[Main] = pc[Main]
  <2>1. CASE Start \/ Gate
    BY <2>1 DEF Start, Gate, GateRaisesCancelled, GateFailsOnInvalid, GateRoutes,
         GateKeepsWaiting, GateTimesOut, ReviewRejects, Polling
  <2>2. CASE Unwind
    BY <2>2 DEF Unwind, StartCompensation, CompensationEnds, FinishUnwind
  <2>3. CASE Signal \/ ItemSettles \/ UNCHANGED vars
    BY <2>3 DEF Signal, RequestCancel, SubmitReview, CancelNatively, ItemSettles,
         ItemCompletes, ItemFails, vars
  <2> QED
    BY <2>1, <2>2, <2>3
<1>2. \A u \in Threads : ctl'[u] = "resolved" \/ ctl[u] = "resolved" =>
        ctl'[u] = ctl[u] /\ pc'[u] = pc[u]
  BY <1>1, OtherForward
<1> QED
  BY <1>2 DEF InHand, Cur

LEMMA ClaimDone ==
  ASSUME NEW s, NEW f, NEW x \in Items
  PROVE  Claim(s, f)[x] = "done" <=> f[x] = "done"
BY DEF Claim

LEMMA StepEffects ==
  ASSUME Resolvable, IInv, PlaceInv, KindInv, EffectsInv, ~rootCancelled,
         NEW t \in Threads, Step(t)
  PROVE  EffectsInv'
<1>0. UndoneOps' = UndoneOps
  BY StepOps DEF UndoneOps
<1>1. CASE Performs(t)
  <2> DEFINE s == Cur(t)
             new == IF s \in Compensated THEN {<<s, 0>>} ELSE {}
  <2>1. s \in Atomic /\ ctl[t] = "activity"
    BY <1>1 DEF Performs, AtomicCompletes
  <2>2. StackOps' = StackOps /\ effects' = effects \cup new /\ item' = item
    BY <1>1 DEF Performs, AtomicCompletes, StackOps
  <2>3. new \subseteq SagaOps /\ \A o \in SagaOps : o = <<s, 0>> => o \in new
    BY <2>1 DEF SagaOps, Atomic
  <2>4. Pending \subseteq Pending'
    <3> SUFFICES ASSUME NEW x \in Pending PROVE x \in Pending'
      OBVIOUS
    <3>1. PICK u \in Threads : ctl[u] \in {"fanout", "release"} /\ Cur(u) = x[1]
      BY DEF Pending, Awaited
    <3>2. u # t
      BY <2>1, <3>1
    <3> QED
      BY <2>2, <3>1, <3>2, AwaitedStays DEF Pending, Awaited
  <2>5. SagaOps' = SagaOps
    BY DEF SagaOps
  <2>6. new \subseteq Held'
    BY <1>1, <2>3, <2>5 DEF Performs, Held, InHand
  <2>7. Held \subseteq Held' /\ Held' \subseteq Held \cup new
    BY <2>1, <2>3, <2>5, HandChanges DEF Held
  <2> HIDE DEF s, new
  <2> QED
    BY <1>0, <2>2, <2>3, <2>4, <2>5, <2>6, <2>7 DEF EffectsInv
<1>4. CASE Records(t)
  <2> DEFINE s == Cur(t)
             new == IF s \in Compensated THEN {<<s, 0>>} ELSE {}
  <2>1. s \in Steps /\ s \in Atomic
    BY <1>4 DEF Records, Atomic
  <2>2. StackOps' = StackOps \cup new
    BY <1>4, <2>1, PushOps DEF Records, Batch
  <2>3. effects' = effects /\ item' = item
    BY <1>4 DEF Records
  <2>4. new \subseteq SagaOps /\ \A o \in SagaOps : o = <<s, 0>> => o \in new
    BY <2>1 DEF SagaOps, Atomic
  <2>5. new \subseteq Held
    BY <1>4, <2>4 DEF Records, Held, InHand
  <2>6. Held \subseteq Held' \cup new /\ Held' \subseteq Held
    <3>1. ~AtomicCompletes(t)
      BY <1>4 DEF Records, AtomicCompletes
    <3> QED
      BY <2>4, <3>1, HandChanges DEF Held, SagaOps
  <2>7. Pending \subseteq Pending'
    <3> SUFFICES ASSUME NEW x \in Pending PROVE x \in Pending'
      OBVIOUS
    <3>1. PICK u \in Threads : ctl[u] \in {"fanout", "release"} /\ Cur(u) = x[1]
      BY DEF Pending, Awaited
    <3>2. u # t
      BY <1>4, <3>1 DEF Records
    <3> QED
      BY <2>3, <3>1, <3>2, AwaitedStays DEF Pending, Awaited
  <2>8. SagaOps' = SagaOps
    BY DEF SagaOps
  <2> HIDE DEF s, new
  <2> QED
    BY <1>0, <2>2, <2>3, <2>5, <2>6, <2>7, <2>8 DEF EffectsInv
<1>2. CASE Collects(t)
  <2> DEFINE s == Cur(t)
             I == CompletedIndices(s)
             new == IF s \in Compensated THEN Batch(s, I) ELSE {}
  <2>1. s \in Mapped /\ s \in Steps
    BY <1>2 DEF Collects, Mapped
  <2>2. I \in SUBSET Nat /\ I \subseteq 1..Size[s]
    BY DEF CompletedIndices
  <2>3. StackOps' = StackOps \cup new
    BY <1>2, <2>1, <2>2, PushOps DEF Collects
  <2>4. effects' = effects /\ item' = item
    BY <1>2 DEF Collects
  <2>5. new \subseteq effects
    <3> SUFFICES ASSUME s \in Compensated, NEW i \in I PROVE <<s, i>> \in effects
      BY DEF Batch
    <3>1. <<s, i>> \in Items
      BY <2>1, <2>2 DEF Items, ItemsOf
    <3>2. item[<<s, i>>] = "done"
      BY DEF CompletedIndices
    <3> QED
      BY <3>1, <3>2 DEF EffectsInv
  <2>6. Pending \subseteq Pending' \cup new
    <3> SUFFICES ASSUME NEW x \in Pending, x \notin new PROVE x \in Pending'
      OBVIOUS
    <3>1. PICK u \in Threads : ctl[u] \in {"fanout", "release"} /\ Cur(u) = x[1]
      BY DEF Pending, Awaited
    <3>2. x[1] # s
      <4> SUFFICES ASSUME x[1] = s PROVE x \in new
        OBVIOUS
      <4>1. x = <<s, x[2]>> /\ x[2] \in 1..Size[s]
        BY DEF Pending, Items, ItemsOf
      <4>2. x[2] \in I
        BY <4>1 DEF Pending, CompletedIndices
      <4> QED
        BY <4>1, <4>2 DEF Pending, Batch
    <3>3. u # t
      BY <3>1, <3>2
    <3> QED
      BY <2>4, <3>1, <3>3, AwaitedStays DEF Pending, Awaited
  <2>7. SagaOps' = SagaOps
    BY DEF SagaOps
  <2>8. Held' = Held
    <3>1. ~AtomicCompletes(t) /\ ctl[t] # "resolved"
      BY <1>2 DEF Collects, AtomicCompletes
    <3> QED
      BY <3>1, HandChanges DEF Held, SagaOps
  <2> HIDE DEF s, I, new
  <2> QED
    BY <1>0, <2>3, <2>4, <2>5, <2>6, <2>7, <2>8 DEF EffectsInv
<1>3. CASE Spares(t)
  <2>1. effects' = effects /\ StackOps' = StackOps
    BY <1>3 DEF Spares, StackOps
  <2>2. \A x \in Items : item'[x] = "done" <=> item[x] = "done"
    BY <1>3, ClaimDone DEF Spares, FanOutItems
  <2>3. Pending \subseteq Pending'
    <3> SUFFICES ASSUME NEW x \in Pending PROVE x \in Pending'
      OBVIOUS
    <3>1. PICK u \in Threads : ctl[u] \in {"fanout", "release"} /\ Cur(u) = x[1]
      BY DEF Pending, Awaited
    <3>2. ctl'[u] \in {"fanout", "release"} /\ Cur(u)' = x[1]
      <4>1. CASE u # t
        BY <3>1, <4>1, AwaitedStays
      <4>2. CASE u = t
        <5>1. Cur(t) \in Mapped
          BY <3>1, <4>2 DEF Pending, Items, ItemsOf
        <5> QED
          BY <1>3, <3>1, <4>2, <5>1 DEF Spares, Cur
      <4> QED
        BY <4>1, <4>2
    <3> QED
      BY <2>2, <3>2 DEF Pending, Awaited
  <2>4. SagaOps' = SagaOps
    BY DEF SagaOps
  <2>5. Held' = Held
    <3>1. ctl[t] = "resolved" => <<Cur(t), 0>> \notin SagaOps
      BY <1>3 DEF Spares, SagaOps
    <3> QED
      BY <1>3, <2>4, <3>1, HandChanges DEF Spares, Held
  <2> QED
    BY <1>0, <2>1, <2>2, <2>3, <2>4, <2>5 DEF EffectsInv
<1> QED
  BY <1>1, <1>2, <1>3, <1>4, StepOps

LEMMA ItemEffects ==
  ASSUME IInv, FlightInv, EffectsInv, ~rootCancelled, NEW x \in Items, ItemCompletes(x) \/ ItemFails(x)
  PROVE  EffectsInv'
<1>0. item \in [Items -> {"waiting", "running", "done", "failed"}]
  BY DEF IInv, DataOK
<1> DEFINE new == IF ItemCompletes(x) /\ x[1] \in Compensated THEN {x} ELSE {}
<1>1. UNCHANGED <<pc, ctl, compensationStack, undone>> /\ item[x] = "running"
  BY DEF ItemCompletes, ItemFails
<1>2. effects' = effects \cup new
  BY DEF ItemCompletes, ItemFails
<1>3. \A y \in Items : item'[y] = "done" <=> item[y] = "done" \/ (y = x /\ ItemCompletes(x))
  <2> SUFFICES ASSUME NEW y \in Items
               PROVE  item'[y] = "done" <=> item[y] = "done" \/ (y = x /\ ItemCompletes(x))
    OBVIOUS
  <2>1. CASE ItemCompletes(x)
    <3>1. item' = Claim(x[1], [item EXCEPT ![x] = "done"])
      BY <2>1 DEF ItemCompletes
    <3>2. item'[y] = "done" <=> [item EXCEPT ![x] = "done"][y] = "done"
      BY <3>1, ClaimDone
    <3> QED
      BY <1>0, <2>1, <3>2
  <2>2. CASE ~ItemCompletes(x)
    BY <1>0, <1>1, <2>2 DEF ItemFails
  <2> QED
    BY <2>1, <2>2
<1>4. UndoneOps' = UndoneOps /\ StackOps' = StackOps /\ SagaOps' = SagaOps
  BY <1>1 DEF UndoneOps, StackOps, SagaOps
<1>5. Awaited(x[1])
  BY <1>1 DEF FlightInv, Awaited
<1>6. \A s : Awaited(s)' <=> Awaited(s)
  BY <1>1 DEF Awaited, Cur
<1>7. Pending \cup new \subseteq Pending'
  BY <1>3, <1>5, <1>6 DEF Pending
<1>8. new \subseteq SagaOps
  BY DEF SagaOps
<1>9. \A y \in Items : item'[y] = "done" /\ y[1] \in Compensated => y \in effects'
  BY <1>2, <1>3 DEF EffectsInv
<1>10. Held' = Held
  BY <1>1, <1>4 DEF Held, InHand, Cur
<1> HIDE DEF new
<1> QED
  BY <1>2, <1>4, <1>7, <1>8, <1>9, <1>10 DEF EffectsInv

\* The compensation that starts is the last of the top batch, and leaves the stack.
LEMMA TopStarts ==
  ASSUME IInv, StartCompensation
  PROVE  \E n \in Nat \ {0} : \E i \in compensationStack[n][2] :
           /\ DOMAIN compensationStack = 1..n
           /\ \A k \in compensationStack[n][2] : k <= i
           /\ undone' = Append(undone, <<compensationStack[n][1], i>>)
           /\ DOMAIN compensationStack' \subseteq 1..n
           /\ \A j \in DOMAIN compensationStack' :
                /\ compensationStack'[j][1] = compensationStack[j][1]
                /\ compensationStack'[j][2] \subseteq compensationStack[j][2]
           /\ \A j \in 1..n : \A k \in compensationStack[j][2] :
                (j = n /\ k = i) \/ (j \in DOMAIN compensationStack' /\ k \in compensationStack'[j][2])
           /\ n \in DOMAIN compensationStack' => i \notin compensationStack'[n][2]
<1> DEFINE n == Len(compensationStack)
           top == compensationStack[n]
           rest == SubSeq(compensationStack, 1, n - 1)
<1>1. compensationStack \in Seq(Steps \X SUBSET Nat) /\ compensationStack # <<>>
  BY DEF IInv, DataOK, StartCompensation
<1>2. n \in Nat \ {0} /\ DOMAIN compensationStack = 1..n /\ top \in Steps \X SUBSET Nat
  BY <1>1
<1>3. /\ rest \in Seq(Steps \X SUBSET Nat) /\ Len(rest) = n - 1
      /\ \A j \in 1..(n - 1) : rest[j] = compensationStack[j]
  <2>1. \A j \in 1..(n - 1) : compensationStack[j] \in Steps \X SUBSET Nat
    BY <1>1
  <2> QED
    BY <1>1, <1>2, <2>1, SubSeqProperties
<1>4. PICK i \in top[2] :
        /\ \A k \in top[2] : k <= i
        /\ compensationStack' =
             IF top[2] = {i} THEN rest ELSE Append(rest, <<top[1], top[2] \ {i}>>)
        /\ undone' = Append(undone, <<top[1], i>>)
  BY DEF StartCompensation
<1> HIDE DEF rest
<1>5. CASE top[2] = {i}
  <2>1. compensationStack' = rest /\ DOMAIN compensationStack' = 1..(n - 1)
    BY <1>3, <1>4, <1>5
  <2> HIDE DEF n
  <2>2. /\ DOMAIN compensationStack' \subseteq 1..n
        /\ \A j \in DOMAIN compensationStack' : compensationStack'[j] = compensationStack[j]
        /\ \A j \in 1..n : j = n \/ j \in DOMAIN compensationStack'
        /\ n \notin DOMAIN compensationStack'
    BY <1>2, <1>3, <2>1
  <2> QED
    BY <1>2, <1>4, <1>5, <2>2
<1>6. CASE top[2] # {i}
  <2> DEFINE e == <<top[1], top[2] \ {i}>>
  <2>0. e \in Steps \X SUBSET Nat /\ e[1] = top[1] /\ e[2] = top[2] \ {i}
    BY <1>2
  <2>1. compensationStack' = Append(rest, e)
    BY <1>4, <1>6
  <2> HIDE DEF e, n
  <2>2. /\ DOMAIN compensationStack' = 1..n
        /\ \A j \in 1..(n - 1) : compensationStack'[j] = compensationStack[j]
        /\ compensationStack'[n] = e
    BY <1>2, <1>3, <2>0, <2>1, AppendProperties
  <2>3. \A j \in 1..n : j = n \/ j \in 1..(n - 1)
    BY <1>2
  <2>4. ASSUME NEW j \in 1..n
        PROVE  /\ compensationStack'[j][1] = compensationStack[j][1]
               /\ compensationStack'[j][2] \subseteq compensationStack[j][2]
               /\ \A k \in compensationStack[j][2] :
                    (j = n /\ k = i) \/ k \in compensationStack'[j][2]
    <3>1. CASE j = n
      BY <2>0, <2>2, <3>1
    <3>2. CASE j \in 1..(n - 1)
      BY <2>2, <3>2
    <3> QED
      BY <2>3, <3>1, <3>2
  <2>5. /\ i \in compensationStack[n][2]
        /\ \A k \in compensationStack[n][2] : k <= i
        /\ undone' = Append(undone, <<compensationStack[n][1], i>>)
    BY <1>4
  <2>6. /\ DOMAIN compensationStack' \subseteq 1..n
        /\ \A j \in DOMAIN compensationStack' :
             /\ compensationStack'[j][1] = compensationStack[j][1]
             /\ compensationStack'[j][2] \subseteq compensationStack[j][2]
    BY <2>2, <2>4
  <2>7. \A j \in 1..n : \A k \in compensationStack[j][2] :
          (j = n /\ k = i) \/ (j \in DOMAIN compensationStack' /\ k \in compensationStack'[j][2])
    BY <2>2, <2>4
  <2>8. i \notin compensationStack'[n][2]
    BY <2>0, <2>2
  <2> QED
    BY <1>2, <2>5, <2>6, <2>7, <2>8
<1> QED
  BY <1>5, <1>6

LEMMA StartCompensationOps ==
  ASSUME IInv, StartCompensation
  PROVE  /\ UndoneOps' \cup StackOps' \subseteq UndoneOps \cup StackOps
         /\ UndoneOps \cup StackOps \subseteq UndoneOps' \cup StackOps'
<1>1. PICK n \in Nat \ {0} : \E i \in compensationStack[n][2] :
           /\ DOMAIN compensationStack = 1..n
           /\ undone' = Append(undone, <<compensationStack[n][1], i>>)
           /\ DOMAIN compensationStack' \subseteq 1..n
           /\ \A j \in DOMAIN compensationStack' :
                /\ compensationStack'[j][1] = compensationStack[j][1]
                /\ compensationStack'[j][2] \subseteq compensationStack[j][2]
           /\ \A j \in 1..n : \A k \in compensationStack[j][2] :
                (j = n /\ k = i) \/ (j \in DOMAIN compensationStack' /\ k \in compensationStack'[j][2])
  BY TopStarts
<1>2. PICK i \in compensationStack[n][2] :
           /\ DOMAIN compensationStack = 1..n
           /\ undone' = Append(undone, <<compensationStack[n][1], i>>)
           /\ DOMAIN compensationStack' \subseteq 1..n
           /\ \A j \in DOMAIN compensationStack' :
                /\ compensationStack'[j][1] = compensationStack[j][1]
                /\ compensationStack'[j][2] \subseteq compensationStack[j][2]
           /\ \A j \in 1..n : \A k \in compensationStack[j][2] :
                (j = n /\ k = i) \/ (j \in DOMAIN compensationStack' /\ k \in compensationStack'[j][2])
  BY <1>1
<1> DEFINE o == <<compensationStack[n][1], i>>
<1>3. UndoneOps' = UndoneOps \cup {o}
  <2>1. undone \in Seq(Ops)
    BY DEF IInv, DataOK
  <2> DEFINE m == Len(undone)
  <2>2. /\ m \in Nat /\ DOMAIN undone = 1..m /\ DOMAIN undone' = 1..(m + 1)
        /\ \A j \in 1..m : undone'[j] = undone[j]
        /\ undone'[m + 1] = o
    BY <1>2, <2>1
  <2> HIDE DEF m, o
  <2> QED
    BY <2>2 DEF UndoneOps
<1>4. o \in StackOps
  BY <1>2, StackMember
<1> HIDE DEF o
<1>5. StackOps' \subseteq StackOps
  BY <1>2, StackMember, StackMemberNext
<1>6. StackOps \subseteq StackOps' \cup {o}
  <2> SUFFICES ASSUME NEW p \in StackOps PROVE p \in StackOps' \cup {o}
    OBVIOUS
  <2>1. PICK k \in DOMAIN compensationStack :
          \E h \in compensationStack[k][2] : p = <<compensationStack[k][1], h>>
    BY StackMember
  <2>2. PICK h \in compensationStack[k][2] : p = <<compensationStack[k][1], h>>
    BY <2>1
  <2>3. CASE k = n /\ h = i
    BY <2>2, <2>3 DEF o
  <2>4. CASE k \in DOMAIN compensationStack' /\ h \in compensationStack'[k][2]
    BY <1>2, <2>2, <2>4, StackMemberNext
  <2> QED
    BY <1>2, <2>3, <2>4
<1> QED
  BY <1>3, <1>4, <1>5, <1>6

LEMMA OtherEffects ==
  ASSUME IInv, PlaceInv, EffectsInv, Start \/ Gate \/ Unwind \/ Signal \/ UNCHANGED vars
  PROVE  EffectsInv'
<1>0. SagaOps' = SagaOps
  BY DEF SagaOps
<1>1. UNCHANGED <<item, effects>>
  <2>1. CASE Start \/ Gate
    BY <2>1 DEF Start, Gate, GateRaisesCancelled, GateFailsOnInvalid, GateRoutes,
         GateKeepsWaiting, GateTimesOut, ReviewRejects
  <2>2. CASE Unwind
    BY <2>2 DEF Unwind, StartCompensation, CompensationEnds, FinishUnwind
  <2>3. CASE Signal \/ UNCHANGED vars
    BY <2>3 DEF Signal, RequestCancel, SubmitReview, CancelNatively, vars
  <2> QED
    BY <2>1, <2>2, <2>3
<1>2. \A s : Awaited(s) => Awaited(s)'
  <2>1. \A u \in Threads : ctl[u] \in {"fanout", "release"} =>
          ctl'[u] = ctl[u] /\ pc'[u] = pc[u]
    <3>1. ctl[Main] \in {"fanout", "release"} => ctl'[Main] = ctl[Main] /\ pc'[Main] = pc[Main]
      <4>1. CASE Start \/ Gate
        BY <4>1 DEF Start, Gate, GateRaisesCancelled, GateFailsOnInvalid, GateRoutes,
             GateKeepsWaiting, GateTimesOut, ReviewRejects, Polling
      <4>2. CASE Unwind
        BY <4>2 DEF Unwind, StartCompensation, CompensationEnds, FinishUnwind
      <4>3. CASE Signal \/ UNCHANGED vars
        BY <4>3 DEF Signal, RequestCancel, SubmitReview, CancelNatively, vars
      <4> QED
        BY <4>1, <4>2, <4>3
    <3> QED
      BY <3>1, OtherForward
  <2> QED
    BY <2>1 DEF Awaited, Cur
<1>3. Pending \subseteq Pending'
  BY <1>1, <1>2 DEF Pending
<1>6. Held' = Held
  BY <1>0, HandsStay DEF Held
<1>4. CASE StartCompensation
  BY <1>0, <1>1, <1>3, <1>4, <1>6, StartCompensationOps DEF EffectsInv
<1>5. CASE ~StartCompensation
  <2>1. UNCHANGED <<compensationStack, undone>>
    <3>1. CASE Start \/ Gate
      BY <3>1 DEF Start, Gate, GateRaisesCancelled, GateFailsOnInvalid, GateRoutes,
           GateKeepsWaiting, GateTimesOut, ReviewRejects
    <3>2. CASE Unwind
      BY <1>5, <3>2 DEF Unwind, CompensationEnds, FinishUnwind
    <3>3. CASE Signal \/ UNCHANGED vars
      BY <3>3 DEF Signal, RequestCancel, SubmitReview, CancelNatively, vars
    <3> QED
      BY <3>1, <3>2, <3>3
  <2>2. UndoneOps' = UndoneOps /\ StackOps' = StackOps
    BY <2>1 DEF UndoneOps, StackOps
  <2> QED
    BY <1>0, <1>1, <1>3, <1>6, <2>2 DEF EffectsInv
<1> QED
  BY <1>4, <1>5
-----------------------------------------------------------------------------
(* The outcome of the unwind *)

\* Only the end of the unwind notes its outcome.
LEMMA OutcomeKept ==
  ASSUME IInv, [Next]_vars, ~FinishUnwind
  PROVE  lc'.compensationStatus = lc.compensationStatus
<1>0. lc \in LifecycleState
  BY DEF IInv, LifeOK
<1>1. CASE \E t \in Threads : Step(t)
  <2>1. PICK t \in Threads : Moves(t)
    BY <1>1, StepMoves
  <2>2. CASE GoesOn(t)
    BY <2>2, StepDoneStatus DEF GoesOn, Counts
  <2>3. CASE Ends(t)
    <3>1. PICK l \in LifecycleState : Counts(lc, l) /\ lc' = IF t = Main THEN Completed(l) ELSE l
      BY <2>3 DEF Ends, EndSequence
    <3> QED
      BY <3>1 DEF Counts, Completed, LifecycleState
  <2> QED
    BY <2>1, <2>2, <2>3 DEF Moves, ThrowsOut, Waits, Splits, Counts
<1>2. CASE Gate
  <2>1. CurrentGate \in Gates
    BY <1>2, CurrentGateType
       DEF Gate, GateRaisesCancelled, GateFailsOnInvalid, GateRoutes, GateKeepsWaiting,
           GateTimesOut, ReviewRejects, Polling
  <2>2. CASE GateRaisesCancelled \/ ReviewRejects
    BY <2>2 DEF GateRaisesCancelled, ReviewRejects
  <2>3. CASE GateFailsOnInvalid
    BY <1>0, <2>3 DEF GateFailsOnInvalid, InvalidReviewFailed, LifecycleState
  <2>4. CASE GateRoutes
    <3>1. JumpTo(lc.gate[CurrentGate].routeTarget, GateRouted(lc, CurrentGate))
      BY <2>4 DEF GateRoutes
    <3>2. GateRouted(lc, CurrentGate) \in LifecycleState
      BY <1>0, <2>1, GateRoutedEvolves DEF Evolves
    <3> QED
      BY <1>0, <2>1, <3>1, <3>2, GateRoutedStatus, JumpCounts DEF Counts
  <2>5. CASE GateKeepsWaiting
    BY <1>0, <2>5 DEF GateKeepsWaiting, LifecycleState
  <2>6. CASE GateTimesOut
    <3>1. \/ lc' = GateTimedOut(lc, CurrentGate)
          \/ JumpTo(TimeoutRoute[CurrentGate], GateTimedOut(lc, CurrentGate))
      BY <2>6 DEF GateTimesOut
    <3>2. GateTimedOut(lc, CurrentGate) \in LifecycleState
      BY <1>0, <2>1, GateTimedOutEvolves DEF Evolves
    <3> QED
      BY <1>0, <2>1, <3>1, <3>2, GateTimedOutStatus, JumpCounts DEF Counts
  <2> QED
    BY <1>2, <2>2, <2>3, <2>4, <2>5, <2>6 DEF Gate
<1>3. CASE Start
  BY <1>0, <1>3 DEF Start, Started, AddUnits, LifecycleState
<1>4. CASE ItemSettles
  BY <1>0, <1>4, UnitsCount DEF ItemSettles, ItemCompletes, ItemFails, Counts
<1>5. CASE Unwind
  BY <1>5 DEF Unwind, StartCompensation, CompensationEnds
<1>6. CASE Signal
  <2>1. CASE RequestCancel
    BY <1>0, <2>1 DEF RequestCancel, RequestCancelled, LifecycleState
  <2>2. CASE SubmitReview
    BY <1>0, <2>2, SubmittedStatus DEF SubmitReview
  <2>3. CASE CancelNatively
    BY <2>3 DEF CancelNatively
  <2> QED
    BY <1>6, <2>1, <2>2, <2>3 DEF Signal
<1>7. CASE UNCHANGED vars
  BY <1>7 DEF vars
<1> QED
  BY <1>1, <1>2, <1>3, <1>4, <1>5, <1>6, <1>7 DEF Next, Closed

\* A run that has closed does nothing more.
LEMMA ClosedStays ==
  ASSUME IInv, ctl[Main] \in {"returned", "threw"}, [Next]_vars
  PROVE  UNCHANGED vars
<1>1. ~Open
  BY DEF Open
<1>2. \A t \in Threads : ~Step(t)
  BY <1>1, StepMoves DEF Moves
<1>3. ~ItemSettles /\ ~Start /\ ~Unwind
  BY <1>1 DEF ItemSettles, ItemCompletes, ItemFails, Start, Unwind, StartCompensation,
              CompensationEnds, FinishUnwind
<1>4. ~Gate
  BY DEF Gate, GateRaisesCancelled, GateFailsOnInvalid, GateRoutes, GateKeepsWaiting,
         GateTimesOut, ReviewRejects, Polling
<1>5. ~Signal
  BY <1>1 DEF Signal, RequestCancel, SubmitReview, CancelNatively
<1> QED
  BY <1>2, <1>3, <1>4, <1>5 DEF Next, Closed

\* The outcome is noted once, at the end, and "none" means nothing was undone.
OutcomeInv ==
  lc.compensationStatus # Null =>
    /\ ctl[Main] = "threw" /\ compensationStack = <<>>
    /\ lc.compensationStatus = "none" <=> undone = <<>>

LEMMA NextOutcome == ASSUME IInv, OutcomeInv, [Next]_vars PROVE OutcomeInv'
<1>1. CASE lc.compensationStatus # Null
  <2>1. UNCHANGED vars
    BY <1>1, ClosedStays DEF OutcomeInv
  <2> QED
    BY <2>1 DEF OutcomeInv, vars
<1>2. CASE lc.compensationStatus = Null /\ ~FinishUnwind
  BY <1>2, OutcomeKept DEF OutcomeInv
<1>3. CASE lc.compensationStatus = Null /\ FinishUnwind
  <2>1. /\ ctl'[Main] = "threw" /\ compensationStack' = <<>> /\ undone' = undone
        /\ lc \in LifecycleState
    BY <1>3, MainIsThread DEF FinishUnwind, IInv, ControlOK, LifeOK
  <2> DEFINE c == CompensationStatus
  <2>2. lc'.compensationStatus = c
    <3>1. CASE cause = "cancelled"
      BY <1>3, <2>1, <3>1 DEF FinishUnwind, CancelledWith, LifecycleState
    <3>2. CASE cause # "cancelled"
      <4>1. lc' = FailedWith(lc, c)
        BY <1>3, <3>2 DEF FinishUnwind
      <4> HIDE DEF c
      <4> QED
        BY <1>3, <2>1, <4>1 DEF FailedWith, LifecycleState
    <3> QED
      BY <3>1, <3>2
  <2>3. c = "none" <=> undone = <<>>
    BY DEF CompensationStatus
  <2> QED
    BY <2>1, <2>2, <2>3 DEF OutcomeInv
<1> QED
  BY <1>1, <1>2, <1>3
-----------------------------------------------------------------------------
(* The saga *)

\* What the theorems about compensation assume: no native cancellation, which
\* rejects the wait for a fan-out whatever is in flight, and no input_from that
\* may not resolve, after which an operation is not pushed; the runs with
\* either show why.
Reliable == NativeCancel = FALSE /\ Resolvable

SagaInv ==
  /\ IInv /\ FlightInv /\ ~rootCancelled
  /\ PlaceInv /\ KindInv /\ StackInv
  /\ EffectsInv /\ OutcomeInv

LEMMA OtherKind ==
  ASSUME IInv, PlaceInv, KindInv,
         Start \/ Gate \/ Unwind \/ Signal \/ ItemSettles \/ UNCHANGED vars
  PROVE  KindInv'
<1> SUFFICES ASSUME NEW u \in Threads
             PROVE  /\ ctl'[u] \in {"activity", "resolved"} => Cur(u)' \in Atomic
                    /\ ctl'[u] \in {"prep", "release"} => Cur(u)' \in Mapped
  BY DEF KindInv
<1>1. \/ ctl'[u] \notin {"activity", "resolved", "prep", "release"}
      \/ ctl'[u] = ctl[u] /\ pc'[u] = pc[u]
  BY OtherForward
<1> QED
  BY <1>1 DEF KindInv, Cur

LEMMA OtherStack ==
  ASSUME IInv, StackInv, \A u \in Threads : Forward(u),
         Start \/ Gate \/ Unwind \/ Signal \/ ItemSettles \/ UNCHANGED vars
  PROVE  StackInv'
<1>1. CASE StartCompensation
  <2>1. /\ DOMAIN compensationStack' \subseteq DOMAIN compensationStack
        /\ \A i \in DOMAIN compensationStack' : compensationStack'[i][1] = compensationStack[i][1]
    BY <1>1, TopStarts
  <2> QED
    BY <2>1, StackKept
<1>2. CASE ~StartCompensation
  <2>1. UNCHANGED compensationStack
    <3>1. CASE Start \/ Gate
      BY <3>1 DEF Start, Gate, GateRaisesCancelled, GateFailsOnInvalid, GateRoutes,
           GateKeepsWaiting, GateTimesOut, ReviewRejects
    <3>2. CASE Unwind
      BY <1>2, <3>2 DEF Unwind, CompensationEnds, FinishUnwind
    <3>3. CASE Signal \/ ItemSettles \/ UNCHANGED vars
      BY <3>3 DEF Signal, RequestCancel, SubmitReview, CancelNatively, ItemSettles,
           ItemCompletes, ItemFails, vars
    <3> QED
      BY <3>1, <3>2, <3>3
  <2> QED
    BY <2>1, StackKept
<1> QED
  BY <1>1, <1>2

LEMMA InitSaga == Init => SagaInv
<1> SUFFICES ASSUME Init PROVE SagaInv
  OBVIOUS
<1>1. IInv /\ FlightInv /\ PlaceInv /\ ~rootCancelled
  BY InitInv, InitFlight, InitPlace DEF Init
<1>2. KindInv
  BY DEF Init, KindInv
<1>3. StackInv
  BY DEF Init, StackInv, StackBehind, StackOrdered
<1>4. EffectsInv
  BY DEF Init, EffectsInv, UndoneOps, StackOps, Held, InHand
<1>5. OutcomeInv
  BY DEF Init, OutcomeInv, NewLifecycle
<1> QED
  BY <1>1, <1>2, <1>3, <1>4, <1>5 DEF SagaInv

\* The invariant is inductive: each step keeps each part.
LEMMA NextSaga == ASSUME Reliable, SagaInv, [Next]_vars PROVE SagaInv'
<1>1. IInv' /\ FlightInv' /\ ~rootCancelled' /\ PlaceInv' /\ OutcomeInv'
  BY StepInv, NextFlight, NeverCancelled, NextForward, NextOutcome DEF SagaInv, Reliable
<1>2. CASE \E t \in Threads : Step(t)
  BY <1>1, <1>2, StepKind, StepStack, StepEffects DEF SagaInv, Reliable
<1>3. CASE ~(\E t \in Threads : Step(t))
  <2>1. ItemSettles \/ Start \/ Gate \/ Unwind \/ Signal \/ UNCHANGED vars
    BY <1>3 DEF Next, Closed
  <2>2. KindInv'
    BY <2>1, OtherKind DEF SagaInv
  <2>3. StackInv'
    BY <2>1, OtherStack, NextForward DEF SagaInv
  <2>4. EffectsInv'
    BY <2>1, OtherEffects, ItemEffects DEF SagaInv, ItemSettles
  <2> QED
    BY <1>1, <2>2, <2>3, <2>4 DEF SagaInv
<1> QED
  BY <1>2, <1>3
-----------------------------------------------------------------------------
LEMMA SagaHolds == ASSUME Reliable PROVE Spec => []SagaInv
BY InitSaga, NextSaga, PTL DEF Spec

\* While the run unwinds nothing is left to push.
LEMMA NothingPending == ASSUME SagaInv, Unwinding PROVE Pending = {} /\ Held = {}
<1>1. ctl[Main] \notin {"resolved", "fanout", "release"} /\ \A b \in Branches : ctl[b] \notin BusyStates
  BY NothingInFlight DEF SagaInv, Unwinding
<1> QED
  BY <1>1 DEF Pending, Awaited, Held, InHand, Threads, BusyStates

\* A run works only while it goes forward.
LEMMA WorksForward ==
  ASSUME SagaInv, ItemSettles \/ \E t \in Threads : Step(t)
  PROVE  ctl[Main] \notin Ending \cup {"returned"}
<1>1. Open
  BY StepMoves DEF SagaInv, Moves, ItemSettles, ItemCompletes, ItemFails
<1>2. SUFFICES ASSUME Unwinding PROVE FALSE
  BY <1>1 DEF Unwinding, Open, Ending
<1>3. /\ \A b \in Branches : ctl[b] \notin BusyStates
      /\ \A x \in Items : item[x] # "running"
  BY <1>2, NothingInFlight DEF SagaInv, Unwinding
<1>4. ~ItemSettles
  BY <1>3 DEF ItemSettles, ItemCompletes, ItemFails
<1>5. ASSUME NEW t \in Threads, Step(t) PROVE FALSE
  BY <1>2, <1>3, <1>5, StepMoves DEF SagaInv, Moves, Unwinding, Threads, BusyStates
<1> QED
  BY <1>4, <1>5

-----------------------------------------------------------------------------
(* Nothing is compensated twice *)

\* Compensations begin with the unwind, and what is undone leaves the stack.
OnceInv ==
  /\ ctl[Main] \notin Ending => undone = <<>>
  /\ \A i, j \in DOMAIN undone : undone[i] = undone[j] => i = j
  /\ UndoneOps \cap StackOps = {}

LEMMA UndoOnce == ASSUME SagaInv, OnceInv, StartCompensation PROVE OnceInv'
<1>1. PICK n \in Nat \ {0} : \E i \in compensationStack[n][2] :
           /\ DOMAIN compensationStack = 1..n
           /\ undone' = Append(undone, <<compensationStack[n][1], i>>)
           /\ DOMAIN compensationStack' \subseteq 1..n
           /\ \A j \in DOMAIN compensationStack' :
                /\ compensationStack'[j][1] = compensationStack[j][1]
                /\ compensationStack'[j][2] \subseteq compensationStack[j][2]
           /\ n \in DOMAIN compensationStack' => i \notin compensationStack'[n][2]
  BY TopStarts DEF SagaInv
<1>2. PICK i \in compensationStack[n][2] :
           /\ DOMAIN compensationStack = 1..n
           /\ undone' = Append(undone, <<compensationStack[n][1], i>>)
           /\ DOMAIN compensationStack' \subseteq 1..n
           /\ \A j \in DOMAIN compensationStack' :
                /\ compensationStack'[j][1] = compensationStack[j][1]
                /\ compensationStack'[j][2] \subseteq compensationStack[j][2]
           /\ n \in DOMAIN compensationStack' => i \notin compensationStack'[n][2]
  BY <1>1
<1> DEFINE o == <<compensationStack[n][1], i>>
           m == Len(undone)
<1>3. /\ m \in Nat /\ DOMAIN undone = 1..m /\ DOMAIN undone' = 1..(m + 1)
      /\ \A j \in 1..m : undone'[j] = undone[j]
      /\ undone'[m + 1] = o
  <2>1. undone \in Seq(Ops)
    BY DEF SagaInv, IInv, DataOK
  <2>2. undone' = Append(undone, o)
    BY <1>2
  <2> HIDE DEF o
  <2> QED
    BY <2>1, <2>2
<1>4. o \in StackOps
  BY <1>2, StackMember
<1>5. o \notin StackOps'
  <2> SUFFICES ASSUME NEW k \in DOMAIN compensationStack',
                      NEW h \in compensationStack'[k][2],
                      o = <<compensationStack'[k][1], h>>
               PROVE  FALSE
    BY StackMemberNext
  <2>1. compensationStack[k][1] = compensationStack[n][1] /\ h = i
    BY <1>2
  <2>2. k \in 1..n /\ k # n
    BY <1>2, <2>1
  <2>3. k < n /\ k <= n /\ k \in DOMAIN compensationStack /\ n \in DOMAIN compensationStack
    BY <1>2, <2>2
  <2> HIDE DEF o, m
  <2>4. compensationStack[k][1] # compensationStack[n][1]
    BY <2>3 DEF SagaInv, StackInv, StackOrdered
  <2> QED
    BY <2>1, <2>4
<1>6. StackOps' \subseteq StackOps
  BY <1>2, StackMember, StackMemberNext
<1>7. ctl'[Main] \in Ending
  BY MainIsThread DEF StartCompensation, Ending, SagaInv, IInv, ControlOK
<1> HIDE DEF o, m
<1>8. o \notin UndoneOps
  BY <1>4 DEF OnceInv
<1>9. UndoneOps' = UndoneOps \cup {o}
  BY <1>3 DEF UndoneOps
<1>10. \A j \in 1..m : undone[j] # o
  BY <1>3, <1>8 DEF UndoneOps
<1>11. \A k, j \in DOMAIN undone' : undone'[k] = undone'[j] => k = j
  <2> SUFFICES ASSUME NEW k \in 1..(m + 1), NEW j \in 1..(m + 1), undone'[k] = undone'[j]
               PROVE  k = j
    BY <1>3
  <2>1. /\ k \in 1..m \/ k = m + 1
        /\ j \in 1..m \/ j = m + 1
    BY <1>3
  <2> QED
    BY <2>1, <1>3, <1>10 DEF OnceInv
<1> QED
  BY <1>5, <1>6, <1>7, <1>9, <1>11 DEF OnceInv

LEMMA NextOnce == ASSUME Reliable, SagaInv, OnceInv, [Next]_vars PROVE OnceInv'
<1>1. CASE \E t \in Threads : Step(t)
  <2>1. undone' = undone
    BY <1>1, StepOps DEF SagaInv, Reliable
  <2>2. undone = <<>>
    BY <1>1, WorksForward DEF OnceInv
  <2> QED
    BY <2>1, <2>2 DEF OnceInv, UndoneOps
<1>2. CASE StartCompensation
  BY <1>2, UndoOnce
<1>3. CASE ~StartCompensation /\ ~(\E t \in Threads : Step(t))
  <2>1. UNCHANGED <<compensationStack, undone>>
    <3>1. CASE Start \/ Gate
      BY <3>1 DEF Start, Gate, GateRaisesCancelled, GateFailsOnInvalid, GateRoutes,
           GateKeepsWaiting, GateTimesOut, ReviewRejects
    <3>2. CASE Unwind
      BY <1>3, <3>2 DEF Unwind, CompensationEnds, FinishUnwind
    <3>3. CASE Signal \/ ItemSettles \/ UNCHANGED vars
      BY <3>3 DEF Signal, RequestCancel, SubmitReview, CancelNatively, ItemSettles,
           ItemCompletes, ItemFails, vars
    <3> QED
      BY <1>3, <3>1, <3>2, <3>3 DEF Next, Closed
  <2>2. UndoneOps' = UndoneOps /\ StackOps' = StackOps
    BY <2>1 DEF UndoneOps, StackOps
  <2>3. ctl'[Main] \notin Ending => ctl[Main] \notin Ending
    <3>1. CASE Start
      BY <3>1 DEF Start, Ending
    <3>2. CASE Gate
      BY <3>2 DEF Gate, GateRaisesCancelled, GateFailsOnInvalid, GateRoutes,
           GateKeepsWaiting, GateTimesOut, ReviewRejects, Polling, Ending
    <3>3. CASE Unwind
      <4>1. ctl'[Main] \in {"unwind", "threw"}
        BY <1>3, <3>3, MainIsThread DEF Unwind, CompensationEnds, FinishUnwind, SagaInv, IInv,
           ControlOK
      <4> QED
        BY <4>1 DEF Ending
    <3>4. CASE Signal \/ ItemSettles \/ UNCHANGED vars
      BY <3>4 DEF Signal, RequestCancel, SubmitReview, CancelNatively, ItemSettles,
           ItemCompletes, ItemFails, vars
    <3> QED
      BY <1>3, <3>1, <3>2, <3>3, <3>4 DEF Next, Closed
  <2> QED
    BY <2>1, <2>2, <2>3 DEF OnceInv
<1> QED
  BY <1>1, <1>2, <1>3

LEMMA OnceHolds == ASSUME Reliable PROVE Spec => []OnceInv
<1>1. Init => OnceInv
  BY DEF Init, OnceInv, UndoneOps
<1> QED
  BY <1>1, NextOnce, SagaHolds, PTL DEF Spec

\* When a run reports the outcome of its unwind, every compensated operation
\* that took effect has been compensated, once, and nothing else has, for every
\* plan and every interleaving of its branches and items: the push after each step,
\* the finally of each map and the reverse walk of the stack (workflows.ts).
THEOREM CompensationAccountedHolds ==
  ASSUME Reliable
  PROVE  Spec => []CompensationAccounted
<1>1. SagaInv /\ OnceInv => CompensationAccounted
  <2> SUFFICES ASSUME SagaInv, OnceInv, lc.compensationStatus # Null
               PROVE  UndoneOps = effects /\ (lc.compensationStatus = "none" <=> effects = {})
    BY DEF CompensationAccounted, OnceInv
  <2>1. ctl[Main] = "threw" /\ compensationStack = <<>>
    BY DEF SagaInv, OutcomeInv
  <2>2. StackOps = {} /\ Pending = {} /\ Held = {}
    BY <2>1, NothingPending DEF StackOps, Unwinding
  <2>3. UndoneOps = effects
    BY <2>2 DEF SagaInv, EffectsInv
  <2>4. undone = <<>> <=> UndoneOps = {}
    <3>1. undone \in Seq(Ops)
      BY DEF SagaInv, IInv, DataOK
    <3>2. CASE undone = <<>>
      <4>1. DOMAIN undone = {}
        BY <3>2
      <4> QED
        BY <3>2, <4>1 DEF UndoneOps
    <3>3. CASE undone # <<>>
      <4>1. Len(undone) > 0
        BY <3>1, <3>3
      <4>2. 1 \in DOMAIN undone
        BY <3>1, <4>1
      <4>3. undone[1] \in UndoneOps
        BY <4>2 DEF UndoneOps
      <4> QED
        BY <3>3, <4>3
    <3> QED
      BY <3>2, <3>3
  <2> QED
    BY <2>3, <2>4 DEF SagaInv, OutcomeInv
<1> QED
  BY <1>1, SagaHolds, OnceHolds, PTL
-----------------------------------------------------------------------------
(* The interpreter implements Saga, step by step *)

LEMMA PhaseOf ==
  /\ ctl[Main] = "returned" => SagaPhase = "committed"
  /\ ctl[Main] = "threw" => SagaPhase = "compensated"
  /\ ctl[Main] \in {"unwind", "compensating"} => SagaPhase = "backward"
  /\ ctl[Main] \notin Ending \cup {"returned"} => SagaPhase = "forward"
BY DEF SagaPhase, Ending

LEMMA PhaseOfNext ==
  /\ ctl'[Main] = "returned" => SagaPhase' = "committed"
  /\ ctl'[Main] = "threw" => SagaPhase' = "compensated"
  /\ ctl'[Main] \in {"unwind", "compensating"} => SagaPhase' = "backward"
  /\ ctl'[Main] \notin Ending \cup {"returned"} => SagaPhase' = "forward"
BY DEF SagaPhase, Ending

SagaStep == [Abstract!Next]_<<SagaPhase, effects, UndoneOps>>

LEMMA StepImplements ==
  ASSUME Reliable, SagaInv, NEW t \in Threads, Step(t)
  PROVE  SagaStep
<1>0. /\ ctl \in [Threads -> Controls] /\ Main \in Threads
      /\ Moves(t) /\ UNCHANGED undone
      /\ Performs(t) \/ Records(t) \/ Collects(t) \/ Spares(t)
  BY MainIsThread, StepMoves, StepOps DEF SagaInv, IInv, ControlOK, Reliable
<1>1. SagaPhase = "forward"
  BY WorksForward, PhaseOf
<1>2. UndoneOps' = UndoneOps
  BY <1>0 DEF UndoneOps
<1>3. ctl'[Main] \in {"unwind", "returned"} \/ SagaPhase' = "forward"
  <2>1. CASE t # Main
    BY <1>0, <2>1, BranchMoves, WorksForward, PhaseOfNext DEF SagaInv
  <2>2. CASE t = Main
    <3>1. CASE ThrowsOut(t) \/ GoesOn(t)
      BY <1>0, <2>2, <3>1, PhaseOfNext DEF ThrowsOut, Throw, GoesOn, StepDone, Ending
    <3>2. CASE Ends(t) \/ Waits(t) \/ Splits(t)
      BY <1>0, <2>2, <3>2, PhaseOfNext DEF Ends, EndSequence, Waits, Splits, StartParallel, Ending
    <3> QED
      BY <1>0, <3>1, <3>2 DEF Moves
  <2> QED
    BY <2>1, <2>2
<1>4. CASE effects' = effects
  <2>1. CASE SagaPhase' = "forward"
    BY <1>1, <1>2, <1>4, <2>1 DEF SagaStep
  <2>2. CASE ctl'[Main] = "unwind"
    BY <1>1, <1>2, <1>4, <2>2, PhaseOfNext DEF SagaStep, Abstract!Next, Abstract!TurnBack
  <2>3. CASE ctl'[Main] = "returned"
    BY <1>1, <1>2, <1>4, <2>3, PhaseOfNext DEF SagaStep, Abstract!Next, Abstract!Commit
  <2> QED
    BY <1>3, <2>1, <2>2, <2>3
<1>5. CASE effects' # effects
  <2>1. Performs(t) /\ Cur(t) \in Compensated
    BY <1>0, <1>5 DEF Performs, AtomicCompletes, Records, Collects, Spares
  <2> DEFINE o == <<Cur(t), 0>>
  <2>2. effects' = effects \cup {o} /\ o \in SagaOps
    BY <2>1 DEF Performs, AtomicCompletes, SagaOps
  <2>3. SagaPhase' = "forward"
    <3>1. CASE t # Main
      BY <1>0, <3>1, BranchMoves, WorksForward, PhaseOfNext DEF SagaInv
    <3>2. CASE t = Main
      BY <1>0, <2>1, <3>2, PhaseOfNext DEF Performs, AtomicCompletes, Ending
    <3> QED
      BY <3>1, <3>2
  <2> HIDE DEF o
  <2> QED
    BY <1>1, <1>2, <2>2, <2>3 DEF SagaStep, Abstract!Next, Abstract!Perform
<1> QED
  BY <1>4, <1>5

LEMMA ItemImplements == ASSUME SagaInv, ItemSettles PROVE SagaStep
<1>1. SagaPhase = "forward"
  BY WorksForward, PhaseOf
<1>2. PICK x \in Items : ItemCompletes(x) \/ ItemFails(x)
  BY DEF ItemSettles
<1>3. ctl' = ctl /\ UndoneOps' = UndoneOps
  BY <1>2 DEF ItemCompletes, ItemFails, UndoneOps
<1>4. SagaPhase' = SagaPhase
  BY <1>3 DEF SagaPhase
<1>5. CASE effects' = effects
  BY <1>3, <1>4, <1>5 DEF SagaStep
<1>6. CASE effects' # effects
  <2>1. effects' = effects \cup {x} /\ x \in SagaOps
    BY <1>2, <1>6 DEF ItemCompletes, ItemFails, SagaOps
  <2> QED
    BY <1>1, <1>3, <1>4, <2>1 DEF SagaStep, Abstract!Next, Abstract!Perform
<1> QED
  BY <1>5, <1>6

\* The operation whose compensation starts is a last one of those left.
LEMMA UndoImplements == ASSUME SagaInv, StartCompensation PROVE SagaStep
<1>1. PICK n \in Nat \ {0} : \E i \in compensationStack[n][2] :
           /\ DOMAIN compensationStack = 1..n
           /\ \A k \in compensationStack[n][2] : k <= i
           /\ undone' = Append(undone, <<compensationStack[n][1], i>>)
  BY TopStarts DEF SagaInv
<1>2. PICK i \in compensationStack[n][2] :
           /\ DOMAIN compensationStack = 1..n
           /\ \A k \in compensationStack[n][2] : k <= i
           /\ undone' = Append(undone, <<compensationStack[n][1], i>>)
  BY <1>1
<1> DEFINE s == compensationStack[n][1]
           o == <<s, i>>
<1>3. UndoneOps' = UndoneOps \cup {o}
  <2>1. undone \in Seq(Ops)
    BY DEF SagaInv, IInv, DataOK
  <2> DEFINE m == Len(undone)
  <2>2. /\ m \in Nat /\ DOMAIN undone = 1..m /\ DOMAIN undone' = 1..(m + 1)
        /\ \A j \in 1..m : undone'[j] = undone[j]
        /\ undone'[m + 1] = o
    BY <1>2, <2>1
  <2> HIDE DEF m, o
  <2> QED
    BY <2>2 DEF UndoneOps
<1>4. o \in StackOps
  BY <1>2, StackMember
<1>5. SagaPhase = "backward" /\ SagaPhase' = "backward" /\ effects' = effects
  BY MainIsThread, PhaseOf, PhaseOfNext DEF StartCompensation, SagaInv, IInv, ControlOK
<1>6. Pending = {} /\ Held = {}
  BY NothingPending DEF StartCompensation, Unwinding
<1>7. ASSUME NEW p \in effects \ UndoneOps PROVE <<o, p>> \notin SagaPrecedes
  <2>1. p \in StackOps
    BY <1>6 DEF SagaInv, EffectsInv
  <2>2. PICK k \in DOMAIN compensationStack :
          \E h \in compensationStack[k][2] : p = <<compensationStack[k][1], h>>
    BY <2>1, StackMember
  <2>3. PICK h \in compensationStack[k][2] : p = <<compensationStack[k][1], h>>
    BY <2>2
  <2>4. k <= n /\ n \in DOMAIN compensationStack /\ (k # n => k < n)
    BY <1>2
  <2>5. ~StepBefore(s, p[1])
    BY <2>3, <2>4 DEF SagaInv, StackInv, StackOrdered
  <2>6. ~(s = p[1] /\ i < p[2])
    <3>1. CASE k = n
      <4>1. p[2] <= i /\ p[2] \in Nat /\ i \in Nat
        BY <1>2, <2>3, <3>1 DEF SagaInv, IInv, DataOK
      <4> QED
        BY <4>1
    <3>2. CASE k # n
      BY <2>3, <2>4, <3>2 DEF SagaInv, StackInv, StackOrdered
    <3> QED
      BY <3>1, <3>2
  <2> QED
    BY <2>5, <2>6 DEF SagaPrecedes
<1>8. CASE o \in UndoneOps
  BY <1>3, <1>5, <1>8 DEF SagaStep
<1>9. CASE o \notin UndoneOps
  <2>1. o \in effects \ UndoneOps /\ o \in SagaOps
    BY <1>4, <1>9 DEF SagaInv, EffectsInv
  <2> HIDE DEF o
  <2>2. Abstract!Undo(o)
    BY <1>3, <1>5, <1>7, <2>1 DEF Abstract!Undo
  <2> QED
    BY <2>1, <2>2 DEF SagaStep, Abstract!Next
<1> QED
  BY <1>8, <1>9

LEMMA FinishImplements == ASSUME SagaInv, FinishUnwind PROVE SagaStep
<1>1. SagaPhase = "backward" /\ SagaPhase' = "compensated"
  BY MainIsThread, PhaseOf, PhaseOfNext DEF FinishUnwind, SagaInv, IInv, ControlOK
<1>2. effects' = effects /\ UndoneOps' = UndoneOps
  BY DEF FinishUnwind, UndoneOps
<1>3. StackOps = {} /\ Pending = {} /\ Held = {}
  BY NothingPending DEF FinishUnwind, StackOps, Unwinding
<1>4. UndoneOps = effects
  BY <1>3 DEF SagaInv, EffectsInv
<1> QED
  BY <1>1, <1>2, <1>4 DEF SagaStep, Abstract!Next, Abstract!Close

LEMMA OtherImplements ==
  ASSUME SagaInv, Start \/ Gate \/ CompensationEnds \/ Signal \/ UNCHANGED vars
  PROVE  SagaStep
<1>0. ctl \in [Threads -> Controls] /\ Main \in Threads
  BY MainIsThread DEF SagaInv, IInv, ControlOK
<1>1. UNCHANGED <<effects, undone>>
  <2>1. CASE Start \/ Gate
    BY <2>1 DEF Start, Gate, GateRaisesCancelled, GateFailsOnInvalid, GateRoutes,
         GateKeepsWaiting, GateTimesOut, ReviewRejects
  <2>2. CASE CompensationEnds \/ Signal \/ UNCHANGED vars
    BY <2>2 DEF CompensationEnds, Signal, RequestCancel, SubmitReview, CancelNatively, vars
  <2> QED
    BY <2>1, <2>2
<1>2. effects' = effects /\ UndoneOps' = UndoneOps
  BY <1>1 DEF UndoneOps
<1>3. CASE Gate
  <2>1. ctl[Main] \in AtGate
    BY <1>3 DEF Gate, GateRaisesCancelled, GateFailsOnInvalid, GateRoutes, GateKeepsWaiting,
         GateTimesOut, ReviewRejects, Polling, AtGate
  <2>2. SagaPhase = "forward"
    BY <2>1, PhaseOf DEF AtGate, Ending
  <2>3. ctl'[Main] \in {"ready", "review", "unwind"}
    <3>1. CASE GateRoutes \/ GateTimesOut
      BY <1>0, <3>1 DEF GateRoutes, GateTimesOut, JumpTo, Throw
    <3>2. CASE GateKeepsWaiting
      BY <1>0, <3>2 DEF GateKeepsWaiting
    <3>3. CASE GateRaisesCancelled \/ GateFailsOnInvalid
      BY <1>0, <3>3 DEF GateRaisesCancelled, GateFailsOnInvalid, Throw
    <3>4. CASE ReviewRejects
      BY <1>0, <3>4 DEF ReviewRejects, Throw
    <3> QED
      BY <1>3, <3>1, <3>2, <3>3, <3>4 DEF Gate
  <2>4. SagaPhase' \in {"forward", "backward"}
    BY <2>3, PhaseOfNext DEF Ending
  <2> QED
    BY <1>2, <2>2, <2>4 DEF SagaStep, Abstract!Next, Abstract!TurnBack
<1>4. CASE Start \/ CompensationEnds
  <2>1. CASE Start
    <3>1. ctl[Main] = "start" /\ ctl'[Main] = "ready"
      BY <1>0, <2>1 DEF Start
    <3> QED
      BY <3>1, <1>2, PhaseOf, PhaseOfNext DEF Ending, SagaStep
  <2>2. CASE CompensationEnds
    <3>1. ctl[Main] = "compensating" /\ ctl'[Main] = "unwind"
      BY <1>0, <2>2 DEF CompensationEnds
    <3> QED
      BY <3>1, <1>2, PhaseOf, PhaseOfNext DEF SagaStep
  <2> QED
    BY <1>4, <2>1, <2>2
<1>5. CASE Signal \/ UNCHANGED vars
  <2>1. ctl' = ctl
    BY <1>5 DEF Signal, RequestCancel, SubmitReview, CancelNatively, vars
  <2>2. SagaPhase' = SagaPhase
    BY <2>1 DEF SagaPhase
  <2> QED
    BY <1>2, <2>2 DEF SagaStep
<1> QED
  BY <1>3, <1>4, <1>5

LEMMA NextImplements == ASSUME Reliable, SagaInv, [Next]_vars PROVE SagaStep
BY StepImplements, ItemImplements, UndoImplements, FinishImplements, OtherImplements
   DEF Next, Unwind, Closed

\* Every run of every plan keeps the promise of Saga: operations take effect
\* only while it goes forward, each one that did is undone, only after all that
\* may have built on it, and the run ends with nothing left to undo.
THEOREM ImplementsSagaHolds ==
  ASSUME Reliable
  PROVE  Spec => ImplementsSaga
<1>1. Init => Abstract!Init
  BY MainIsThread, PhaseOf DEF Init, Abstract!Init, UndoneOps, Ending
<1>2. SagaInv /\ [Next]_vars => [Abstract!Next]_Abstract!vars
  BY NextImplements DEF SagaStep, Abstract!vars
<1> QED
  BY <1>1, <1>2, SagaHolds, PTL DEF Spec, ImplementsSaga, Abstract!Spec

\* What Saga promises of the operations undone so far, with what it rests on.
ReverseInv ==
  /\ Abstract!UndoneFromTheEnd
  /\ SagaPhase = "forward" => UndoneOps = {}

LEMMA SagaStepReverses == ASSUME ReverseInv, SagaStep PROVE ReverseInv'
<1>0. SagaOps' = SagaOps /\ SagaPrecedes' = SagaPrecedes
  BY DEF SagaOps, SagaPrecedes, StepBefore
<1>1. CASE \E o \in SagaOps : Abstract!Perform(o)
  BY <1>0, <1>1 DEF ReverseInv, Abstract!Perform, Abstract!UndoneFromTheEnd
<1>2. CASE \E o \in SagaOps : Abstract!Undo(o)
  BY <1>0, <1>2 DEF ReverseInv, Abstract!Undo, Abstract!UndoneFromTheEnd
<1>3. CASE Abstract!TurnBack \/ Abstract!Commit \/ Abstract!Close
           \/ UNCHANGED <<SagaPhase, effects, UndoneOps>>
  BY <1>0, <1>3 DEF ReverseInv, Abstract!TurnBack, Abstract!Commit, Abstract!Close,
     Abstract!UndoneFromTheEnd
<1> QED
  BY <1>1, <1>2, <1>3 DEF SagaStep, Abstract!Next

\* At any point of the unwind every operation that ran after an undone one, and
\* may have built on it, has been undone: the walk of runCompensations takes
\* the flat stack of all branches in reverse (workflows.ts).
THEOREM UndoneInReverse ==
  ASSUME Reliable
  PROVE  Spec => []Abstract!UndoneFromTheEnd
<1>1. Init => ReverseInv
  BY DEF Init, ReverseInv, Abstract!UndoneFromTheEnd, UndoneOps
<1>2. ReverseInv => Abstract!UndoneFromTheEnd
  BY DEF ReverseInv
<1>3. SagaInv /\ [Next]_vars => SagaStep
  BY NextImplements
<1>4. ReverseInv /\ SagaStep => ReverseInv'
  BY SagaStepReverses
<1> QED
  BY <1>1, <1>2, <1>3, <1>4, SagaHolds, PTL DEF Spec
-----------------------------------------------------------------------------
(* What is compensated, with work in flight and paths that do not resolve  *)

\* The steps that were undone are behind the run.
UndoneBehind ==
  \A i \in DOMAIN undone : \A u \in Threads : \A k \in DOMAIN Body[u] :
    Body[u][k] = undone[i][1] => Past(u, k)

\* What was pushed lies behind and is pushed no more; it took effect, as what is
\* about to be pushed did, and is on the stack or undone, once.
SoundInv ==
  /\ StackBehind /\ UndoneBehind
  /\ \A j, k \in DOMAIN compensationStack :
       compensationStack[j][1] = compensationStack[k][1] => j = k
  /\ \A x \in Items : item[x] = "done" /\ x[1] \in Compensated => x \in effects
  /\ UndoneOps \cup StackOps \cup Held \subseteq effects
  /\ UndoneOps \cap StackOps = {}
  /\ \A i, j \in DOMAIN undone : undone[i] = undone[j] => i = j

\* Thread t leaves its step and pushes the operations I of it.
Pushes(t, I) ==
  /\ ctl[t] \in {"resolved", "fanout", "release"}
  /\ Push(Cur(t), I)
  /\ ThrowsOut(t) \/ GoesOn(t)
  /\ \A i \in I : Cur(t) \in Compensated =>
       \/ <<Cur(t), i>> \in Held
       \/ <<Cur(t), i>> \in Items /\ item[<<Cur(t), i>>] = "done"

LEMMA MapEndsPushes ==
  ASSUME IInv, NEW t \in Threads, NEW outcome \in {"ok", "cancelled", "failure"},
         ctl[t] \in {"fanout", "release"}, Cur(t) \in Mapped,
         MapEnds(t, outcome), outcome = "cancelled" => lc.cancellationRequested
  PROVE  UNCHANGED compensationStack \/ \E I \in SUBSET Nat : Pushes(t, I)
<1>1. CASE UNCHANGED compensationStack
  BY <1>1
<1>2. CASE Push(Cur(t), CompletedIndices(Cur(t)))
  <2>1. CompletedIndices(Cur(t)) \in SUBSET Nat
    BY DEF CompletedIndices
  <2>2. \A i \in CompletedIndices(Cur(t)) :
          <<Cur(t), i>> \in Items /\ item[<<Cur(t), i>>] = "done"
    BY DEF CompletedIndices, Items, ItemsOf
  <2> QED
    BY <1>2, <2>1, <2>2, MapEndsMoves DEF Pushes
<1> QED
  BY <1>1, <1>2 DEF MapEnds

LEMMA StepPushes ==
  ASSUME IInv, KindInv, NEW t \in Threads, Step(t)
  PROVE  /\ UNCHANGED undone /\ effects \subseteq effects'
         /\ \A x \in Items : item'[x] = "done" <=> item[x] = "done"
         /\ UNCHANGED compensationStack \/ \E I \in SUBSET Nat : Pushes(t, I)
<1>0. ctl \in [Threads -> Controls] /\ pc \in [Threads -> Nat] /\ lc \in LifecycleState
  BY DEF IInv, ControlOK, LifeOK
<1>1. UNCHANGED undone /\ effects \subseteq effects'
  BY DEF Step, RaiseIfCancelled, SkipRemainder, FinishSequence, StartAtomic, AtomicCompletes, AtomicRecorded,
         AtomicFails, StartMap, PrepCompletes, PrepFails, MapSettles, ReleaseEnds, RaceRejects,
         StartParallel, ParallelSettles
<1>2. UNCHANGED item \/ item' = Claim(Cur(t), item)
  BY DEF Step, RaiseIfCancelled, SkipRemainder, FinishSequence, StartAtomic, AtomicCompletes, AtomicRecorded,
         AtomicFails, StartMap, PrepCompletes, PrepFails, MapSettles, ReleaseEnds, RaceRejects,
         StartParallel, ParallelSettles, FanOutItems
<1>3. \A x \in Items : item'[x] = "done" <=> item[x] = "done"
  BY <1>2, ClaimDone
<1>4. UNCHANGED compensationStack \/ \E I \in SUBSET Nat : Pushes(t, I)
  <2>1. CASE RaiseIfCancelled(t) \/ SkipRemainder(t) \/ FinishSequence(t) \/ StartAtomic(t)
             \/ AtomicFails(t) \/ StartMap(t) \/ PrepCompletes(t) \/ PrepFails(t)
             \/ StartParallel(t) \/ ParallelSettles(t) \/ AtomicCompletes(t)
    BY <2>1 DEF RaiseIfCancelled, AtomicCompletes, SkipRemainder, FinishSequence, StartAtomic, AtomicFails,
         StartMap, PrepCompletes, PrepFails, StartParallel, ParallelSettles
  <2>2. CASE AtomicRecorded(t)
    <3>1. CASE UNCHANGED compensationStack
      BY <3>1
    <3>2. CASE Push(Cur(t), {0}) /\ StepDone(t, lc)
      <4>1. GoesOn(t)
        BY <1>0, <3>2, UnitsCount DEF GoesOn
      <4>2. ctl[t] = "resolved" /\ Cur(t) \in Atomic
        BY <2>2 DEF AtomicRecorded, KindInv
      <4>3. Cur(t) \in Compensated => <<Cur(t), 0>> \in Held
        BY <4>2 DEF Held, InHand, SagaOps
      <4>4. Pushes(t, {0})
        BY <3>2, <4>1, <4>2, <4>3 DEF Pushes
      <4> QED
        BY <4>4
    <3> QED
      BY <2>2, <3>1, <3>2 DEF AtomicRecorded
  <2>3. CASE MapSettles(t)
    <3>1. ctl[t] = "fanout" /\ Cur(t) \in Mapped
      BY <2>3 DEF MapSettles
    <3>2. \/ UNCHANGED compensationStack
          \/ \E outcome \in {"ok", "failure"} : MapEnds(t, outcome)
          \/ lc.cancellationRequested /\ MapEnds(t, "cancelled")
      BY <2>3 DEF MapSettles, Collected
    <3> QED
      BY <3>1, <3>2, MapEndsPushes
  <2>4. CASE ReleaseEnds(t)
    <3>1. ctl[t] = "release" /\ Cur(t) \in Mapped
      BY <2>4 DEF ReleaseEnds, KindInv
    <3>2. \E outcome \in {"ok", "failure"} : MapEnds(t, outcome)
      BY <2>4 DEF ReleaseEnds, Collected
    <3> QED
      BY <3>1, <3>2, MapEndsPushes
  <2>5. CASE RaceRejects(t)
    <3>1. ctl[t] = "fanout"
      BY <2>5 DEF RaceRejects
    <3>2. UNCHANGED compensationStack \/ (Cur(t) \in Mapped /\ MapEnds(t, "failure"))
      BY <2>5 DEF RaceRejects
    <3> QED
      BY <3>1, <3>2, MapEndsPushes
  <2> QED
    BY <2>1, <2>2, <2>3, <2>4, <2>5 DEF Step
<1> QED
  BY <1>1, <1>3, <1>4

\* Nothing was pushed of a step that a thread is at.
LEMMA NotYetPushed ==
  ASSUME IInv, SoundInv, NEW t \in Threads, ctl[t] \in {"resolved", "fanout", "release"}
  PROVE  /\ \A k \in DOMAIN compensationStack : compensationStack[k][1] # Cur(t)
         /\ \A i \in DOMAIN undone : undone[i][1] # Cur(t)
<1>1. pc[t] \in DOMAIN Body[t]
  BY CurType DEF IInv, InStep
<1>2. ~Past(t, pc[t])
  BY BodyType, <1>1 DEF Past, BusyStates
<1> QED
  BY <1>1, <1>2 DEF SoundInv, StackBehind, UndoneBehind, Cur

LEMMA StepSound ==
  ASSUME IInv, PlaceInv, KindInv, SoundInv, NEW t \in Threads, Step(t)
  PROVE  SoundInv'
<1>0. \A u \in Threads : Forward(u)
  BY StepForward
<1>1. /\ undone' = undone /\ effects \subseteq effects'
      /\ \A x \in Items : item'[x] = "done" <=> item[x] = "done"
  BY StepPushes
<1>2. UndoneOps' = UndoneOps
  BY <1>1 DEF UndoneOps
<1>3. UndoneBehind'
  BY <1>0, <1>1, BodyType DEF SoundInv, UndoneBehind, Forward
<1>4. \A x \in Items : item'[x] = "done" /\ x[1] \in Compensated => x \in effects'
  BY <1>1 DEF SoundInv
<1>5. \A i, j \in DOMAIN undone' : undone'[i] = undone'[j] => i = j
  BY <1>1 DEF SoundInv
<1>8. Held' \subseteq effects'
  <2> SUFFICES ASSUME NEW o \in SagaOps, InHand(o)' PROVE o \in effects'
    BY DEF Held, SagaOps
  <2>1. CASE InHand(o)
    BY <1>1, <2>1 DEF SoundInv, Held
  <2>2. CASE AtomicCompletes(t) /\ o = <<Cur(t), 0>>
    BY <2>2 DEF AtomicCompletes, SagaOps
  <2> QED
    BY <2>1, <2>2, HandChanges
<1>6. CASE UNCHANGED compensationStack
  <2>1. StackOps' = StackOps
    BY <1>6 DEF StackOps
  <2>2. StackBehind'
    BY <1>0, <1>6, BodyType DEF SoundInv, StackBehind, Forward
  <2>3. \A j, k \in DOMAIN compensationStack' :
          compensationStack'[j][1] = compensationStack'[k][1] => j = k
    BY <1>6 DEF SoundInv
  <2> QED
    BY <1>1, <1>2, <1>3, <1>4, <1>5, <1>8, <2>1, <2>2, <2>3 DEF SoundInv
<1>7. CASE compensationStack' # compensationStack
  <2>1. PICK I \in SUBSET Nat : Pushes(t, I)
    BY <1>7, StepPushes
  <2> DEFINE n == Len(compensationStack)
             s == Cur(t)
  <2>2. /\ s \in Compensated
        /\ compensationStack' = Append(compensationStack, <<s, I>>)
        /\ ctl[t] \in {"resolved", "fanout", "release"}
        /\ ThrowsOut(t) \/ GoesOn(t)
    BY <1>7, <2>1 DEF Pushes, Push
  <2>3. /\ compensationStack \in Seq(Steps \X SUBSET Nat)
        /\ n \in Nat /\ DOMAIN compensationStack = 1..n
        /\ DOMAIN compensationStack' = 1..(n + 1)
        /\ \A i \in 1..n : compensationStack'[i] = compensationStack[i]
        /\ compensationStack'[n + 1] = <<s, I>>
    BY <2>2 DEF IInv, DataOK
  <2>4. pc[t] \in DOMAIN Body[t] /\ s \in Steps
    BY <2>2, CurType DEF IInv, InStep
  <2>5. /\ \A i \in 1..n : compensationStack[i][1] # s
        /\ \A i \in DOMAIN undone : undone[i][1] # s
    BY <2>2, <2>3, NotYetPushed
  <2>6. StackOps' = StackOps \cup Batch(s, I)
    BY <2>1, <2>2, <2>4, PushOps DEF Pushes
  <2>7. Batch(s, I) \subseteq effects'
    <3> SUFFICES ASSUME NEW i \in I PROVE <<s, i>> \in effects'
      BY DEF Batch
    <3>1. CASE <<s, i>> \in Held
      BY <1>1, <3>1 DEF SoundInv
    <3>2. CASE <<s, i>> \in Items /\ item[<<s, i>>] = "done"
      <4>1. <<s, i>> \in effects
        BY <2>2, <3>2 DEF SoundInv
      <4> QED
        BY <1>1, <4>1
    <3> QED
      BY <2>1, <2>2, <3>1, <3>2 DEF Pushes
  <2>8. \A u \in Threads : \A k \in DOMAIN Body[u] : Body[u][k] = s => u = t /\ k = pc[t]
    BY <2>4, PlanShape DEF PlanShape, Cur
  <2> HIDE DEF n, s
  <2>9. Batch(s, I) \cap UndoneOps = {}
    BY <2>5 DEF Batch, UndoneOps
  <2>10. StackBehind'
    <3> SUFFICES ASSUME NEW i \in 1..(n + 1), NEW u \in Threads, NEW k \in DOMAIN Body[u],
                        Body[u][k] = compensationStack'[i][1]
                 PROVE  Past(u, k)'
      BY <2>3 DEF StackBehind
    <3>1. CASE i = n + 1
      BY <2>2, <2>3, <2>8, <3>1, LeftBehind
    <3>2. CASE i \in 1..n
      BY <1>0, <2>3, <3>2, BodyType DEF SoundInv, StackBehind, Forward
    <3> QED
      BY <2>3, <3>1, <3>2
  <2>11. \A j, k \in DOMAIN compensationStack' :
           compensationStack'[j][1] = compensationStack'[k][1] => j = k
    <3> SUFFICES ASSUME NEW j \in 1..(n + 1), NEW k \in 1..(n + 1),
                        compensationStack'[j][1] = compensationStack'[k][1]
                 PROVE  j = k
      BY <2>3
    <3>1. (j \in 1..n \/ j = n + 1) /\ (k \in 1..n \/ k = n + 1)
      BY <2>3
    <3>2. CASE j \in 1..n /\ k \in 1..n
      BY <2>3, <3>2 DEF SoundInv
    <3>3. CASE j = n + 1 \/ k = n + 1
      BY <2>3, <2>5, <3>1, <3>3
    <3> QED
      BY <3>1, <3>2, <3>3
  <2>12. UndoneOps' \cup StackOps' \subseteq effects' /\ UndoneOps' \cap StackOps' = {}
    BY <1>1, <1>2, <2>6, <2>7, <2>9 DEF SoundInv
  <2> QED
    BY <1>3, <1>4, <1>5, <1>8, <2>10, <2>11, <2>12 DEF SoundInv
<1> QED
  BY <1>6, <1>7


\* Steps that neither push nor undo.
LEMMA SoundStays ==
  ASSUME SoundInv, \A u \in Threads : Forward(u), UNCHANGED <<compensationStack, undone>>,
         effects \subseteq effects',
         \A x \in Items : item'[x] = "done" /\ x[1] \in Compensated => x \in effects',
         \A o : InHand(o)' => InHand(o)
  PROVE  SoundInv'
<1>1. UndoneOps' = UndoneOps /\ StackOps' = StackOps
  BY DEF UndoneOps, StackOps
<1>2. StackBehind' /\ UndoneBehind'
  BY BodyType DEF SoundInv, StackBehind, UndoneBehind, Forward
<1>3. /\ \A i, j \in DOMAIN undone' : undone'[i] = undone'[j] => i = j
      /\ \A j, k \in DOMAIN compensationStack' :
           compensationStack'[j][1] = compensationStack'[k][1] => j = k
  BY DEF SoundInv
<1>4. Held' \subseteq effects'
  BY DEF SoundInv, Held, SagaOps
<1> QED
  BY <1>1, <1>2, <1>3, <1>4 DEF SoundInv

LEMMA ItemSound ==
  ASSUME IInv, PlaceInv, SoundInv, NEW x \in Items, ItemCompletes(x) \/ ItemFails(x)
  PROVE  SoundInv'
<1>0. item \in [Items -> {"waiting", "running", "done", "failed"}]
  BY DEF IInv, DataOK
<1>1. UNCHANGED <<compensationStack, undone>> /\ effects \subseteq effects'
  BY DEF ItemCompletes, ItemFails
<1>2. \A u \in Threads : Forward(u)
  BY OtherForward DEF ItemSettles
<1>3. \A y \in Items : item'[y] = "done" => item[y] = "done" \/ (y = x /\ ItemCompletes(x))
  <2> SUFFICES ASSUME NEW y \in Items, item'[y] = "done"
               PROVE  item[y] = "done" \/ (y = x /\ ItemCompletes(x))
    OBVIOUS
  <2>1. CASE ItemCompletes(x)
    <3>1. item' = Claim(x[1], [item EXCEPT ![x] = "done"])
      BY <2>1 DEF ItemCompletes
    <3>2. [item EXCEPT ![x] = "done"][y] = "done"
      BY <3>1, ClaimDone
    <3> QED
      BY <1>0, <2>1, <3>2
  <2>2. CASE ~ItemCompletes(x)
    BY <1>0, <2>2 DEF ItemFails
  <2> QED
    BY <2>1, <2>2
<1>4. \A y \in Items : item'[y] = "done" /\ y[1] \in Compensated => y \in effects'
  BY <1>1, <1>3 DEF SoundInv, ItemCompletes
<1>5. \A o : InHand(o)' => InHand(o)
  BY HandsStay DEF ItemSettles
<1> QED
  BY <1>1, <1>2, <1>4, <1>5, SoundStays

\* The compensation that starts is of an operation on the stack, and leaves it.
LEMMA UndoSound ==
  ASSUME IInv, PlaceInv, SoundInv, StartCompensation
  PROVE  SoundInv'
<1>0. (\A u \in Threads : Forward(u)) /\ UNCHANGED <<item, effects>>
  BY OtherForward DEF Unwind, StartCompensation
<1>1. PICK n \in Nat \ {0} : \E i \in compensationStack[n][2] :
           /\ DOMAIN compensationStack = 1..n
           /\ undone' = Append(undone, <<compensationStack[n][1], i>>)
           /\ DOMAIN compensationStack' \subseteq 1..n
           /\ \A j \in DOMAIN compensationStack' :
                /\ compensationStack'[j][1] = compensationStack[j][1]
                /\ compensationStack'[j][2] \subseteq compensationStack[j][2]
           /\ n \in DOMAIN compensationStack' => i \notin compensationStack'[n][2]
  BY TopStarts
<1>2. PICK i \in compensationStack[n][2] :
           /\ DOMAIN compensationStack = 1..n
           /\ undone' = Append(undone, <<compensationStack[n][1], i>>)
           /\ DOMAIN compensationStack' \subseteq 1..n
           /\ \A j \in DOMAIN compensationStack' :
                /\ compensationStack'[j][1] = compensationStack[j][1]
                /\ compensationStack'[j][2] \subseteq compensationStack[j][2]
           /\ n \in DOMAIN compensationStack' => i \notin compensationStack'[n][2]
  BY <1>1
<1> DEFINE o == <<compensationStack[n][1], i>>
           m == Len(undone)
<1>3. /\ m \in Nat /\ DOMAIN undone = 1..m /\ DOMAIN undone' = 1..(m + 1)
      /\ \A j \in 1..m : undone'[j] = undone[j]
      /\ undone'[m + 1] = o
  <2>1. undone \in Seq(Ops)
    BY DEF IInv, DataOK
  <2>2. undone' = Append(undone, o)
    BY <1>2
  <2> HIDE DEF o
  <2> QED
    BY <2>1, <2>2
<1>4. o \in StackOps
  BY <1>2, StackMember
<1>5. o \notin StackOps'
  <2> SUFFICES ASSUME NEW k \in DOMAIN compensationStack',
                      NEW h \in compensationStack'[k][2],
                      o = <<compensationStack'[k][1], h>>
               PROVE  FALSE
    BY StackMemberNext
  <2>1. compensationStack[k][1] = compensationStack[n][1] /\ h = i
    BY <1>2
  <2>2. k \in DOMAIN compensationStack /\ n \in DOMAIN compensationStack
    BY <1>2
  <2>3. k = n
    BY <2>1, <2>2 DEF SoundInv
  <2> QED
    BY <1>2, <2>1, <2>3
<1>6. StackOps' \subseteq StackOps
  BY <1>2, StackMember, StackMemberNext
<1>7. StackBehind'
  BY <1>0, <1>2, BodyType DEF SoundInv, StackBehind, Forward
<1>8. UndoneBehind'
  <2> SUFFICES ASSUME NEW j \in 1..(m + 1), NEW u \in Threads, NEW k \in DOMAIN Body[u],
                      Body[u][k] = undone'[j][1]
               PROVE  Past(u, k)'
    BY <1>3 DEF UndoneBehind
  <2>1. CASE j = m + 1
    <3>1. n \in DOMAIN compensationStack /\ Body[u][k] = compensationStack[n][1]
      BY <1>2, <1>3, <2>1
    <3> QED
      BY <1>0, <3>1, BodyType DEF SoundInv, StackBehind, Forward
  <2>2. CASE j \in 1..m
    <3>1. j \in DOMAIN undone /\ Body[u][k] = undone[j][1]
      BY <1>3, <2>2
    <3> QED
      BY <1>0, <3>1, BodyType DEF SoundInv, UndoneBehind, Forward
  <2> QED
    BY <1>3, <2>1, <2>2
<1>9. \A j, k \in DOMAIN compensationStack' :
        compensationStack'[j][1] = compensationStack'[k][1] => j = k
  BY <1>2 DEF SoundInv
<1> HIDE DEF o, m
<1>10. o \notin UndoneOps
  BY <1>4 DEF SoundInv
<1>11. UndoneOps' = UndoneOps \cup {o}
  BY <1>3 DEF UndoneOps
<1>12. \A j \in 1..m : undone[j] # o
  BY <1>3, <1>10 DEF UndoneOps
<1>13. \A k, j \in DOMAIN undone' : undone'[k] = undone'[j] => k = j
  <2> SUFFICES ASSUME NEW k \in 1..(m + 1), NEW j \in 1..(m + 1), undone'[k] = undone'[j]
               PROVE  k = j
    BY <1>3
  <2>1. /\ k \in 1..m \/ k = m + 1
        /\ j \in 1..m \/ j = m + 1
    BY <1>3
  <2> QED
    BY <2>1, <1>3, <1>12 DEF SoundInv
<1>14. UndoneOps' \cup StackOps' \subseteq effects' /\ UndoneOps' \cap StackOps' = {}
  BY <1>0, <1>4, <1>5, <1>6, <1>11 DEF SoundInv
<1>15. \A x \in Items : item'[x] = "done" /\ x[1] \in Compensated => x \in effects'
  BY <1>0 DEF SoundInv
<1>16. Held' \subseteq effects'
  BY <1>0, HandsStay DEF Unwind, SoundInv, Held, SagaOps
<1> QED
  BY <1>7, <1>8, <1>9, <1>13, <1>14, <1>15, <1>16 DEF SoundInv

LEMMA OtherSound ==
  ASSUME IInv, PlaceInv, SoundInv, Start \/ Gate \/ Unwind \/ Signal \/ UNCHANGED vars,
         ~StartCompensation
  PROVE  SoundInv'
<1>1. UNCHANGED <<compensationStack, undone, item, effects>>
  <2>1. CASE Start \/ Gate
    BY <2>1 DEF Start, Gate, GateRaisesCancelled, GateFailsOnInvalid, GateRoutes,
         GateKeepsWaiting, GateTimesOut, ReviewRejects
  <2>2. CASE Unwind
    BY <2>2 DEF Unwind, CompensationEnds, FinishUnwind
  <2>3. CASE Signal \/ UNCHANGED vars
    BY <2>3 DEF Signal, RequestCancel, SubmitReview, CancelNatively, vars
  <2> QED
    BY <2>1, <2>2, <2>3
<1>2. \A u \in Threads : Forward(u)
  BY OtherForward
<1>3. \A x \in Items : item'[x] = "done" /\ x[1] \in Compensated => x \in effects'
  BY <1>1 DEF SoundInv
<1>4. \A o : InHand(o)' => InHand(o)
  BY HandsStay
<1> QED
  BY <1>1, <1>2, <1>3, <1>4, SoundStays

LEMMA NextSound ==
  ASSUME IInv, PlaceInv, KindInv, SoundInv, [Next]_vars
  PROVE  SoundInv' /\ KindInv'
<1>1. CASE \E t \in Threads : Step(t)
  BY <1>1, StepSound, StepKind
<1>2. CASE ItemSettles
  BY <1>2, ItemSound, OtherKind DEF ItemSettles
<1>3. CASE StartCompensation
  BY <1>3, UndoSound, OtherKind DEF Unwind
<1>4. CASE (Start \/ Gate \/ Unwind \/ Signal \/ UNCHANGED vars) /\ ~StartCompensation
  BY <1>4, OtherSound, OtherKind
<1> QED
  BY <1>1, <1>2, <1>3, <1>4 DEF Next, Closed

LEMMA InitSound == Init => KindInv /\ SoundInv
<1> SUFFICES ASSUME Init PROVE KindInv /\ SoundInv
  OBVIOUS
<1>1. compensationStack = <<>> /\ undone = <<>>
  BY DEF Init
<1>2. UndoneOps = {} /\ StackOps = {}
  BY <1>1 DEF UndoneOps, StackOps
<1>3. \A x \in Items : item[x] # "done"
  BY DEF Init
<1>4. KindInv
  BY DEF Init, KindInv
<1>5. Held = {}
  BY DEF Init, Held, InHand
<1> QED
  BY <1>1, <1>2, <1>3, <1>4, <1>5 DEF SoundInv, StackBehind, UndoneBehind

\* In every run of every plan - native cancellation with work in flight, paths
\* that do not resolve, branches that push while the stack is walked - only what
\* took effect is compensated, and nothing twice (workflows.ts).
THEOREM CompensatesSoundlyHolds == Spec => []CompensatesSoundly
<1> DEFINE Inv == IInv /\ PlaceInv /\ KindInv /\ SoundInv
<1>1. Init => KindInv /\ SoundInv
  BY InitSound
<1>2. Init => Inv
  BY <1>1, InitInv, InitPlace
<1>3. Inv /\ [Next]_vars => Inv'
  BY StepInv, NextForward, NextSound
<1>4. Inv => CompensatesSoundly
  BY DEF SoundInv, CompensatesSoundly
<1> QED
  BY <1>2, <1>3, <1>4, PTL DEF Spec

\* Operations of the steps that run but one activity or child workflow, and
\* whose input_from resolves, are undone, on the stack or in hand.
AtomicInv ==
  \A o \in effects :
    /\ o[1] \in Compensated
    /\ o[1] \in Atomic \ Fragile => o \in UndoneOps \cup StackOps \/ InHand(o)

LEMMA StepAtomic ==
  ASSUME IInv, PlaceInv, KindInv, AtomicInv, NEW t \in Threads, Step(t)
  PROVE  AtomicInv'
<1>1. UndoneOps' = UndoneOps
  BY StepPushes DEF UndoneOps
<1>2. StackOps \subseteq StackOps'
  <2>1. CASE UNCHANGED compensationStack
    BY <2>1 DEF StackOps
  <2>2. CASE \E I \in SUBSET Nat : Pushes(t, I)
    <3>1. PICK I \in SUBSET Nat : Pushes(t, I)
      BY <2>2
    <3>2. Cur(t) \in Steps
      BY <3>1, CurType DEF Pushes, IInv, InStep
    <3> QED
      BY <3>1, <3>2, PushOps DEF Pushes
  <2> QED
    BY <2>1, <2>2, StepPushes
<1> SUFFICES ASSUME NEW o \in effects'
             PROVE  /\ o[1] \in Compensated
                    /\ o[1] \in Atomic \ Fragile => o \in UndoneOps' \cup StackOps' \/ InHand(o)'
  BY DEF AtomicInv
<1>3. CASE o \notin effects
  <2>1. AtomicCompletes(t) /\ o = <<Cur(t), 0>> /\ Cur(t) \in Compensated
    BY <1>3 DEF Step, RaiseIfCancelled, SkipRemainder, FinishSequence, StartAtomic, AtomicCompletes,
         AtomicRecorded, AtomicFails, StartMap, PrepCompletes, PrepFails, MapSettles, ReleaseEnds,
         RaceRejects, StartParallel, ParallelSettles
  <2>2. ctl'[t] = "resolved" /\ Cur(t)' = Cur(t)
    BY <2>1 DEF AtomicCompletes, Cur, IInv, ControlOK
  <2> QED
    BY <2>1, <2>2 DEF InHand
<1>4. CASE o \in effects /\ (o[1] \in Atomic \ Fragile => o \in UndoneOps \cup StackOps)
  BY <1>1, <1>2, <1>4 DEF AtomicInv
<1>5. CASE o \in effects /\ ctl[t] = "resolved" /\ o = <<Cur(t), 0>> /\ o[1] \notin Fragile
  <2>1. CASE AtomicRecorded(t)
    <3>1. Push(Cur(t), {0})
      BY <1>5, <2>1 DEF AtomicRecorded
    <3>2. Cur(t) \in Steps
      BY <1>5, CurType DEF IInv, InStep
    <3>3. Cur(t) \in Compensated
      BY <1>5 DEF AtomicInv
    <3> QED
      BY <1>5, <3>1, <3>2, <3>3, PushOps DEF Batch
  <2>2. AtomicRecorded(t)
    BY <1>5 DEF Step, RaiseIfCancelled, SkipRemainder, FinishSequence, StartAtomic, AtomicCompletes,
         AtomicFails, StartMap, PrepCompletes, PrepFails, MapSettles, ReleaseEnds,
         RaceRejects, StartParallel, ParallelSettles, AtStep
  <2> QED
    BY <2>1, <2>2
<1>6. CASE o \in effects /\ InHand(o)'
  BY <1>6 DEF AtomicInv
<1> QED
  BY <1>3, <1>4, <1>5, <1>6, HandChanges DEF AtomicInv

LEMMA NextAtomic == ASSUME IInv, PlaceInv, KindInv, AtomicInv, [Next]_vars PROVE AtomicInv'
<1>1. CASE \E t \in Threads : Step(t)
  BY <1>1, StepAtomic
<1>2. CASE ItemSettles
  <2>1. PICK x \in Items : ItemCompletes(x) \/ ItemFails(x)
    BY <1>2 DEF ItemSettles
  <2>2. x[1] \notin Atomic
    BY DEF Items, ItemsOf, Mapped, Atomic
  <2>3. /\ UndoneOps' = UndoneOps /\ StackOps' = StackOps
        /\ \A o \in effects' : o \in effects \/ (o = x /\ x[1] \in Compensated)
    BY <2>1 DEF ItemCompletes, ItemFails, UndoneOps, StackOps
  <2> QED
    BY <1>2, <2>2, <2>3, HandsStay DEF AtomicInv
<1>3. CASE StartCompensation
  BY <1>3, StartCompensationOps, HandsStay DEF AtomicInv, StartCompensation, Unwind
<1>4. CASE (Start \/ Gate \/ Unwind \/ Signal \/ UNCHANGED vars) /\ ~StartCompensation
  <2>1. UNCHANGED <<compensationStack, undone, effects>>
    <3>1. CASE Start \/ Gate
      BY <3>1 DEF Start, Gate, GateRaisesCancelled, GateFailsOnInvalid, GateRoutes,
           GateKeepsWaiting, GateTimesOut, ReviewRejects
    <3>2. CASE Unwind
      BY <1>4, <3>2 DEF Unwind, CompensationEnds, FinishUnwind
    <3>3. CASE Signal \/ UNCHANGED vars
      BY <3>3 DEF Signal, RequestCancel, SubmitReview, CancelNatively, vars
    <3> QED
      BY <1>4, <3>1, <3>2, <3>3
  <2> QED
    BY <1>4, <2>1, HandsStay DEF AtomicInv, UndoneOps, StackOps
<1> QED
  BY <1>1, <1>2, <1>3, <1>4 DEF Next, Closed

\* For every plan: when a run that was cancelled natively, or failed, reports how
\* its unwind ended, each compensated activity or child workflow that completed has
\* been undone, but for those whose input_from fails and those whose result a
\* branch has in hand as the run closes.  What else can be lost are the items of
\* maps (pushCompensation and runCompensations, workflows.ts).
THEOREM AtomicsCompensatedHolds == Spec => []AtomicsCompensated
<1> DEFINE Inv == IInv /\ PlaceInv /\ KindInv /\ SoundInv /\ AtomicInv /\ OutcomeInv
<1>1. Init => KindInv /\ SoundInv
  BY InitSound
<1>2. Init => AtomicInv /\ OutcomeInv
  BY DEF Init, AtomicInv, OutcomeInv, NewLifecycle, Ending
<1>3. Init => Inv
  BY <1>1, <1>2, InitInv, InitPlace
<1>4. Inv /\ [Next]_vars => Inv'
  BY StepInv, NextForward, NextSound, NextAtomic, NextOutcome
<1>5. Inv => AtomicsCompensated
  <2> SUFFICES ASSUME Inv, lc.compensationStatus # Null,
                      NEW o \in effects, o[1] \in Atomic \ Fragile
               PROVE  o \in UndoneOps \/ \E t \in Branches : ctl[t] = "resolved" /\ o = <<Cur(t), 0>>
    BY DEF AtomicsCompensated
  <2>1. compensationStack = <<>> /\ ctl[Main] = "threw"
    BY DEF OutcomeInv
  <2>2. StackOps = {}
    BY <2>1 DEF StackOps
  <2> QED
    BY <2>1, <2>2 DEF AtomicInv, InHand, Threads
<1> QED
  BY <1>3, <1>4, <1>5, PTL DEF Spec
-----------------------------------------------------------------------------
(* The tree of the plan: what lies below a step *)

\* A step of some sequence of the plan.
Placed(s) == \E t \in Threads : \E i \in DOMAIN Body[t] : s = Body[t][i]

LEMMA PlacedStep == ASSUME NEW s, Placed(s) PROVE s \in Steps
BY BodyType DEF Placed

\* The steps of a set lie in sequences of level n at least.
AtLevel(level, S, n) ==
  \A s \in S : \E t \in Threads : \E i \in DOMAIN Body[t] : s = Body[t][i] /\ level[t] >= n

LEMMA InsideEach ==
  ASSUME NEW S, NEW r
  PROVE  r \in Inside(S) <=> \E s \in S : r \in Inside({s})
<1> DEFINE From(s) == \E b \in BranchesOf[s] : \E m \in DOMAIN Body[b] \cap Nat :
                        m <= Len(Body[b]) /\ m >= 1 /\ r = Body[b][m]
<1>1. r \in Inside(S) <=> \E s \in S : From(s)
  BY InsideMember
<1>2. \A s : r \in Inside({s}) <=> \E q \in {s} : From(q)
  BY InsideMember
<1> HIDE DEF From
<1> QED
  BY <1>1, <1>2

LEMMA InsideOne ==
  ASSUME NEW s, NEW r, Placed(s)
  PROVE  r \in Inside({s}) <=>
           \E b \in BranchesOf[s] : b \in Branches /\ \E m \in DOMAIN Body[b] : r = Body[b][m]
<1>1. s \in Steps
  BY PlacedStep
<1>2. BranchesOf[s] \subseteq Branches
  BY <1>1, PlanAssumption DEF PlanAssumption
<1>3. ASSUME NEW b \in Branches, NEW m \in DOMAIN Body[b] PROVE m \in Nat /\ m >= 1 /\ m <= Len(Body[b])
  BY <1>3, BodyType DEF Threads
<1> QED
  BY <1>2, <1>3, InsideMember

LEMMA InsidePlaced ==
  ASSUME NEW S, NEW r \in Inside(S), \A s \in S : Placed(s)
  PROVE  Placed(r)
<1>1. PICK s \in S : r \in Inside({s})
  BY InsideEach
<1> QED
  BY <1>1, InsideOne DEF Placed, Threads

LEMMA LevelDown ==
  ASSUME NEW level \in [Threads -> 0..3],
         \A t \in Threads : \A i \in DOMAIN Body[t] :
           \A b \in BranchesOf[Body[t][i]] : level[t] < level[b],
         NEW S, NEW n \in Nat, AtLevel(level, S, n)
  PROVE  AtLevel(level, Inside(S), n + 1)
<1> SUFFICES ASSUME NEW r \in Inside(S)
             PROVE  \E t \in Threads : \E i \in DOMAIN Body[t] : r = Body[t][i] /\ level[t] >= n + 1
  BY DEF AtLevel
<1>1. PICK s \in S : r \in Inside({s})
  BY InsideEach
<1>2. PICK t \in Threads : \E i \in DOMAIN Body[t] : s = Body[t][i] /\ level[t] >= n
  BY <1>1 DEF AtLevel
<1>3. PICK i \in DOMAIN Body[t] : s = Body[t][i] /\ level[t] >= n
  BY <1>2
<1>4. PICK b \in BranchesOf[s] : b \in Branches /\ \E m \in DOMAIN Body[b] : r = Body[b][m]
  BY <1>1, <1>3, InsideOne DEF Placed
<1>5. b \in Threads /\ level[t] < level[b]
  BY <1>3, <1>4 DEF Threads
<1>6. level[b] \in Nat /\ level[t] \in Nat
  BY <1>5
<1>7. level[b] >= n + 1
  BY <1>3, <1>5, <1>6
<1> QED
  BY <1>4, <1>5, <1>7

\* The plan has three parallel levels: nothing lies deeper.
LEMMA NoDeeper ==
  ASSUME NEW s, Placed(s)
  PROVE  Inside(Inside(Inside(Inside({s})))) = {}
<1>1. PICK level \in [Threads -> 0..3] : \A t \in Threads : \A i \in DOMAIN Body[t] :
        \A b \in BranchesOf[Body[t][i]] : level[t] < level[b]
  BY PlanTree DEF PlanTree
<1> DEFINE S1 == Inside({s})
           S2 == Inside(S1)
           S3 == Inside(S2)
           S4 == Inside(S3)
<1>2. AtLevel(level, {s}, 0)
  BY <1>1 DEF AtLevel, Placed
<1>3. AtLevel(level, S1, 1)
  BY <1>1, <1>2, LevelDown
<1> HIDE DEF S1
<1>4. AtLevel(level, S2, 2)
  BY <1>1, <1>3, LevelDown
<1> HIDE DEF S2
<1>5. AtLevel(level, S3, 3)
  BY <1>1, <1>4, LevelDown
<1> HIDE DEF S3
<1>6. AtLevel(level, S4, 4)
  BY <1>1, <1>5, LevelDown
<1> HIDE DEF S4
<1>7. S4 = {}
  <2> SUFFICES ASSUME NEW r \in S4 PROVE FALSE
    OBVIOUS
  <2>1. PICK t \in Threads : level[t] >= 4
    BY <1>6 DEF AtLevel
  <2> QED
    BY <1>1, <2>1
<1> QED
  BY <1>7 DEF S1, S2, S3, S4

LEMMA NestedEach ==
  ASSUME NEW S, NEW r
  PROVE  r \in Nested(S) <=> \E s \in S : r \in Nested({s})
<1> DEFINE In1(s) == Inside({s})
           In2(s) == Inside(In1(s))
           In3(s) == Inside(In2(s))
<1>1. \A q : q \in Inside(S) <=> \E s \in S : q \in In1(s)
  BY InsideEach
<1>2. \A q : q \in Inside(Inside(S)) <=> \E s \in S : q \in In2(s)
  <2> TAKE q
  <2>1. q \in Inside(Inside(S)) <=> \E p \in Inside(S) : q \in Inside({p})
    BY InsideEach
  <2>2. \A s : q \in In2(s) <=> \E p \in In1(s) : q \in Inside({p})
    BY InsideEach
  <2> QED
    BY <1>1, <2>1, <2>2
<1>3. \A q : q \in Inside(Inside(Inside(S))) <=> \E s \in S : q \in In3(s)
  <2> TAKE q
  <2>1. q \in Inside(Inside(Inside(S))) <=> \E p \in Inside(Inside(S)) : q \in Inside({p})
    BY InsideEach
  <2>2. \A s : q \in In3(s) <=> \E p \in In2(s) : q \in Inside({p})
    BY InsideEach
  <2> QED
    BY <1>2, <2>1, <2>2
<1>4. \A s : r \in Nested({s}) <=> r = s \/ r \in In1(s) \/ r \in In2(s) \/ r \in In3(s)
  BY DEF Nested
<1> QED
  BY <1>1, <1>2, <1>3, <1>4 DEF Nested

\* Below a block lies what lies below the steps of its branches.
LEMMA NestedBelow ==
  ASSUME NEW s, NEW r, Placed(s)
  PROVE  r \in Nested({s}) <=> r = s \/ r \in Nested(Inside({s}))
<1> DEFINE S1 == Inside({s})
<1>1. Inside(Inside(Inside(S1))) = {}
  BY NoDeeper
<1> QED
  BY <1>1 DEF Nested

LEMMA NestedBranch ==
  ASSUME NEW s, NEW r, Placed(s)
  PROVE  r \in Nested({s}) <=>
           \/ r = s
           \/ \E b \in BranchesOf[s] :
                b \in Branches /\ \E m \in DOMAIN Body[b] : r \in Nested({Body[b][m]})
<1>1. r \in Nested(Inside({s})) <=> \E q \in Inside({s}) : r \in Nested({q})
  BY NestedEach
<1>2. \A q : q \in Inside({s}) <=>
        \E b \in BranchesOf[s] : b \in Branches /\ \E m \in DOMAIN Body[b] : q = Body[b][m]
  BY InsideOne
<1>3. r \in Nested(Inside({s})) <=>
        \E b \in BranchesOf[s] :
          b \in Branches /\ \E m \in DOMAIN Body[b] : r \in Nested({Body[b][m]})
  BY <1>1, <1>2
<1> QED
  BY <1>3, NestedBelow

LEMMA NestedPlaced ==
  ASSUME NEW s, NEW r \in Nested({s}), Placed(s)
  PROVE  Placed(r)
<1> DEFINE S1 == Inside({s})
           S2 == Inside(S1)
           S3 == Inside(S2)
<1>1. \A q \in S1 : Placed(q)
  BY InsidePlaced
<1> HIDE DEF S1
<1>2. \A q \in S2 : Placed(q)
  BY <1>1, InsidePlaced
<1> HIDE DEF S2
<1>3. \A q \in S3 : Placed(q)
  BY <1>2, InsidePlaced
<1> QED
  BY <1>1, <1>2, <1>3 DEF S1, S2, S3, Nested

\* What lies below a step of a branch lies below its block, at any depth.
LEMMA NestedWithin ==
  ASSUME NEW s, NEW q \in Nested({s}), Placed(s)
  PROVE  Nested({q}) \subseteq Nested({s})
<1> DEFINE S1 == Inside({s})
           S2 == Inside(S1)
           S3 == Inside(S2)
<1>1. ASSUME NEW p, Placed(p), NEW q1 \in Inside({p}) PROVE Nested({q1}) \subseteq Nested({p}) /\ Placed(q1)
  <2>1. \A r : r \in Nested(Inside({p})) <=> \E q2 \in Inside({p}) : r \in Nested({q2})
    BY NestedEach
  <2>2. \A r : r \in Nested({p}) <=> r = p \/ r \in Nested(Inside({p}))
    BY <1>1, NestedBelow
  <2>3. Placed(q1)
    <3>1. \A s1 \in {p} : Placed(s1)
      BY <1>1
    <3> QED
      BY <1>1, <3>1, InsidePlaced
  <2> QED
    BY <1>1, <2>1, <2>2, <2>3
<1>2. \A q1 \in S1 : Nested({q1}) \subseteq Nested({s}) /\ Placed(q1)
  BY <1>1
<1> HIDE DEF S1
<1>3. \A q2 \in S2 : Nested({q2}) \subseteq Nested({s}) /\ Placed(q2)
  <2> SUFFICES ASSUME NEW q2 \in S2 PROVE Nested({q2}) \subseteq Nested({s}) /\ Placed(q2)
    OBVIOUS
  <2>1. PICK p \in S1 : q2 \in Inside({p})
    BY InsideEach
  <2> QED
    BY <1>1, <1>2, <2>1
<1> HIDE DEF S2
<1>4. \A q3 \in S3 : Nested({q3}) \subseteq Nested({s})
  <2> SUFFICES ASSUME NEW q3 \in S3 PROVE Nested({q3}) \subseteq Nested({s})
    OBVIOUS
  <2>1. PICK p \in S2 : q3 \in Inside({p})
    BY InsideEach
  <2> QED
    BY <1>1, <1>3, <2>1
<1>5. q = s \/ q \in S1 \/ q \in S2 \/ q \in S3
  BY DEF Nested, S1, S2, S3
<1> QED
  BY <1>2, <1>3, <1>4, <1>5

\* A step lies in one block at most.
LEMMA OneParent ==
  ASSUME NEW s, NEW q, Placed(s), Placed(q), NEW r, r \in Inside({s}), r \in Inside({q})
  PROVE  s = q
<1>1. PICK b \in BranchesOf[s] : b \in Branches /\ \E m \in DOMAIN Body[b] : r = Body[b][m]
  BY InsideOne
<1>2. PICK c \in BranchesOf[q] : c \in Branches /\ \E m \in DOMAIN Body[c] : r = Body[c][m]
  BY InsideOne
<1>3. b = c
  <2>1. PICK m \in DOMAIN Body[b] : r = Body[b][m]
    BY <1>1
  <2>2. PICK k \in DOMAIN Body[c] : r = Body[c][k]
    BY <1>2
  <2>3. b \in Threads /\ c \in Threads
    BY <1>1, <1>2 DEF Threads
  <2>4. m \in DOMAIN Body[b] /\ k \in DOMAIN Body[c] /\ Body[b][m] = Body[c][k]
    BY <2>1, <2>2
  <2>5. \A v, u \in Threads : \A i \in DOMAIN Body[v], j \in DOMAIN Body[u] :
          Body[v][i] = Body[u][j] => v = u /\ i = j
    BY PlanShape DEF PlanShape
  <2> QED
    BY <2>3, <2>4, <2>5
<1>4. s \in Steps /\ q \in Steps
  BY PlacedStep
<1> QED
  BY <1>1, <1>2, <1>3, <1>4, PlanShape DEF PlanShape

LEMMA CommonParent ==
  ASSUME NEW A, NEW B, \A s \in A \cup B : Placed(s), Inside(A) \cap Inside(B) # {}
  PROVE  A \cap B # {}
<1>1. PICK r : r \in Inside(A) /\ r \in Inside(B)
  OBVIOUS
<1>2. PICK s \in A : r \in Inside({s})
  BY <1>1, InsideEach
<1>3. PICK q \in B : r \in Inside({q})
  BY <1>1, InsideEach
<1>4. s = q
  BY <1>2, <1>3, OneParent
<1> QED
  BY <1>4

\* Of two steps with something in common below them one is below the other.
LEMMA Comparable ==
  ASSUME NEW s, NEW q, Placed(s), Placed(q), Nested({s}) \cap Nested({q}) # {}
  PROVE  s \in Nested({q}) \/ q \in Nested({s})
<1> DEFINE A0 == {s}
           A1 == Inside(A0)
           A2 == Inside(A1)
           A3 == Inside(A2)
           B0 == {q}
           B1 == Inside(B0)
           B2 == Inside(B1)
           B3 == Inside(B2)
           Meet(A, B) == A \cap B # {}
<1>1. Nested({s}) = A0 \cup A1 \cup A2 \cup A3 /\ Nested({q}) = B0 \cup B1 \cup B2 \cup B3
  BY DEF Nested
<1>2. \A p \in A0 \cup A1 \cup A2 : Placed(p)
  BY <1>1, NestedPlaced
<1>3. \A p \in B0 \cup B1 \cup B2 : Placed(p)
  BY <1>1, NestedPlaced
<1>4. /\ Meet(A1, B1) => Meet(A0, B0)
      /\ Meet(A1, B2) => Meet(A0, B1)
      /\ Meet(A1, B3) => Meet(A0, B2)
  BY <1>2, <1>3, CommonParent
<1>5. /\ Meet(A2, B1) => Meet(A1, B0)
      /\ Meet(A2, B2) => Meet(A1, B1)
      /\ Meet(A2, B3) => Meet(A1, B2)
  BY <1>2, <1>3, CommonParent
<1>6. /\ Meet(A3, B1) => Meet(A2, B0)
      /\ Meet(A3, B2) => Meet(A2, B1)
      /\ Meet(A3, B3) => Meet(A2, B2)
  BY <1>2, <1>3, CommonParent
<1> HIDE DEF A1, A2, A3, B1, B2, B3
<1>7. \/ Meet(A0, B0) \/ Meet(A0, B1) \/ Meet(A0, B2) \/ Meet(A0, B3)
      \/ Meet(A1, B0) \/ Meet(A2, B0) \/ Meet(A3, B0)
  <2>1. \E r : r \in A0 \cup A1 \cup A2 \cup A3 /\ r \in B0 \cup B1 \cup B2 \cup B3
    BY <1>1
  <2>2. \/ Meet(A0, B0) \/ Meet(A0, B1) \/ Meet(A0, B2) \/ Meet(A0, B3)
        \/ Meet(A1, B0) \/ Meet(A1, B1) \/ Meet(A1, B2) \/ Meet(A1, B3)
        \/ Meet(A2, B0) \/ Meet(A2, B1) \/ Meet(A2, B2) \/ Meet(A2, B3)
        \/ Meet(A3, B0) \/ Meet(A3, B1) \/ Meet(A3, B2) \/ Meet(A3, B3)
    BY <2>1
  <2> HIDE DEF Meet
  <2> QED
    BY <2>2, <1>4, <1>5, <1>6
<1> QED
  BY <1>1, <1>7

\* What lies below a step lies in a sequence that is not above its own.
LEMMA Deeper ==
  ASSUME NEW level \in [Threads -> 0..3],
         \A t \in Threads : \A i \in DOMAIN Body[t] :
           \A b \in BranchesOf[Body[t][i]] : level[t] < level[b],
         NEW t \in Threads, NEW i \in DOMAIN Body[t], NEW u \in Threads, NEW k \in DOMAIN Body[u],
         Body[u][k] \in Nested({Body[t][i]})
  PROVE  level[t] <= level[u]
<1> DEFINE s == Body[u][k]
           n == level[t]
           S0 == {Body[t][i]}
           S1 == Inside(S0)
           S2 == Inside(S1)
           S3 == Inside(S2)
<1>0. \A v \in Threads : level[v] \in Nat
  OBVIOUS
<1>1. AtLevel(level, S0, n) /\ n \in Nat
  BY <1>0 DEF AtLevel
<1> HIDE DEF n
<1>2. AtLevel(level, S1, n + 1)
  BY <1>1, LevelDown
<1> HIDE DEF S1
<1>3. AtLevel(level, S2, n + 1 + 1)
  BY <1>1, <1>2, LevelDown
<1> HIDE DEF S2
<1>4. AtLevel(level, S3, n + 1 + 1 + 1)
  BY <1>1, <1>3, LevelDown
<1> HIDE DEF S3
<1>5. s \in S0 \/ s \in S1 \/ s \in S2 \/ s \in S3
  BY DEF Nested, S1, S2, S3
<1>6. \E v \in Threads : \E h \in DOMAIN Body[v] : s = Body[v][h] /\ level[v] >= n
  <2>1. CASE s \in S0
    BY <1>1, <2>1 DEF AtLevel
  <2>2. CASE s \in S1
    BY <1>0, <1>1, <1>2, <2>2 DEF AtLevel
  <2>3. CASE s \in S2
    BY <1>0, <1>1, <1>3, <2>3 DEF AtLevel
  <2>4. CASE s \in S3
    BY <1>0, <1>1, <1>4, <2>4 DEF AtLevel
  <2> QED
    BY <1>5, <2>1, <2>2, <2>3, <2>4
<1>7. PICK v \in Threads : \E h \in DOMAIN Body[v] : s = Body[v][h] /\ level[v] >= n
  BY <1>6
<1>8. v = u
  BY <1>7, PlanShape DEF PlanShape
<1> QED
  BY <1>0, <1>1, <1>7, <1>8 DEF n

\* A block does not lie below the steps of its branches.
LEMMA NotBelowItself ==
  ASSUME NEW t \in Threads, NEW i \in DOMAIN Body[t], NEW k \in DOMAIN Body[t],
         NEW b \in BranchesOf[Body[t][i]], NEW m \in DOMAIN Body[b]
  PROVE  Body[t][k] \notin Nested({Body[b][m]})
<1>1. PICK level \in [Threads -> 0..3] : \A u \in Threads : \A h \in DOMAIN Body[u] :
        \A c \in BranchesOf[Body[u][h]] : level[u] < level[c]
  BY PlanTree DEF PlanTree
<1>2. b \in Threads
  BY BodyType, PlanAssumption DEF PlanAssumption, Threads
<1>3. level[t] < level[b] /\ level[t] \in Nat /\ level[b] \in Nat
  BY <1>1, <1>2
<1>4. Body[t][k] \in Nested({Body[b][m]}) => level[b] <= level[t]
  BY <1>1, <1>2, Deeper
<1> QED
  BY <1>3, <1>4

\* Two steps of one sequence have nothing in common below them.
LEMMA Disjoint ==
  ASSUME NEW t \in Threads, NEW i \in DOMAIN Body[t], NEW j \in DOMAIN Body[t],
         Nested({Body[t][i]}) \cap Nested({Body[t][j]}) # {}
  PROVE  i = j
<1>1. ASSUME NEW k \in DOMAIN Body[t], NEW l \in DOMAIN Body[t],
             Body[t][k] \in Nested({Body[t][l]})
      PROVE  Body[t][k] = Body[t][l]
  <2>1. Placed(Body[t][l])
    BY DEF Placed
  <2>2. Body[t][k] # Body[t][l] =>
          \E b \in BranchesOf[Body[t][l]] :
            \E m \in DOMAIN Body[b] : Body[t][k] \in Nested({Body[b][m]})
    BY <1>1, <2>1, NestedBranch
  <2> QED
    BY <2>2, NotBelowItself
<1>2. Placed(Body[t][i]) /\ Placed(Body[t][j])
  BY DEF Placed
<1>3. Body[t][i] = Body[t][j]
  BY <1>1, <1>2, Comparable
<1> QED
  BY <1>3, PlanShape DEF PlanShape

\* A sequence lies below a step as a whole.
LEMMA SequenceBelow ==
  ASSUME NEW s, Placed(s), NEW u \in Threads, NEW j \in DOMAIN Body[u], NEW i \in DOMAIN Body[u],
         Body[u][j] \in Nested({s}), Body[u][j] # s
  PROVE  Body[u][i] \in Nested({s})
<1> DEFINE q == Body[u][j]
           S0 == {s}
           S1 == Inside(S0)
           S2 == Inside(S1)
           S3 == Inside(S2)
<1>1. Nested({s}) = S0 \cup S1 \cup S2 \cup S3
  BY DEF Nested
<1> HIDE DEF q, S1, S2, S3
<1>2. PICK p \in Nested({s}) : q \in Inside({p})
  <2>1. q \in S1 \/ q \in S2 \/ q \in S3
    BY <1>1 DEF q
  <2>2. CASE q \in S1
    BY <1>1, <2>2, InsideEach DEF S1
  <2>3. CASE q \in S2
    BY <1>1, <2>3, InsideEach DEF S2
  <2>4. CASE q \in S3
    BY <1>1, <2>4, InsideEach DEF S3
  <2> QED
    BY <2>1, <2>2, <2>3, <2>4
<1>3. Placed(p)
  BY NestedPlaced
<1>4. PICK b \in BranchesOf[p] : b \in Branches /\ \E m \in DOMAIN Body[b] : q = Body[b][m]
  BY <1>2, <1>3, InsideOne
<1>5. b = u
  <2>1. PICK m \in DOMAIN Body[b] : q = Body[b][m]
    BY <1>4
  <2>2. b \in Threads /\ Body[b][m] = Body[u][j]
    BY <1>4, <2>1 DEF Threads, q
  <2> QED
    BY <2>1, <2>2, PlanShape DEF PlanShape
<1>6. Body[u][i] \in Nested({Body[b][i]})
  BY <1>5 DEF Nested
<1>7. Body[u][i] \in Nested({p})
  BY <1>3, <1>4, <1>5, <1>6, NestedBranch
<1> QED
  BY <1>7, NestedWithin

\* Before is a strict order of the steps of a plan.
LEMMA BeforeIrreflexive == ASSUME NEW s PROVE ~StepBefore(s, s)
<1> SUFFICES ASSUME NEW u \in Threads, NEW i \in DOMAIN Body[u], NEW j \in DOMAIN Body[u], i < j,
                    s \in Nested({Body[u][i]}), s \in Nested({Body[u][j]})
             PROVE  FALSE
  BY DEF StepBefore
<1>1. i = j
  BY Disjoint
<1>2. i \in Nat
  BY BodyType
<1> QED
  BY <1>1, <1>2

LEMMA BeforeTransitive ==
  ASSUME NEW r, NEW s, NEW q, StepBefore(r, s), StepBefore(s, q)
  PROVE  StepBefore(r, q)
<1>1. PICK u \in Threads : \E i, j \in DOMAIN Body[u] :
        i < j /\ r \in Nested({Body[u][i]}) /\ s \in Nested({Body[u][j]})
  BY DEF StepBefore
<1>2. PICK i \in DOMAIN Body[u], j \in DOMAIN Body[u] :
        i < j /\ r \in Nested({Body[u][i]}) /\ s \in Nested({Body[u][j]})
  BY <1>1
<1>3. PICK v \in Threads : \E k, l \in DOMAIN Body[v] :
        k < l /\ s \in Nested({Body[v][k]}) /\ q \in Nested({Body[v][l]})
  BY DEF StepBefore
<1>4. PICK k \in DOMAIN Body[v], l \in DOMAIN Body[v] :
        k < l /\ s \in Nested({Body[v][k]}) /\ q \in Nested({Body[v][l]})
  BY <1>3
<1>5. Placed(Body[u][j]) /\ Placed(Body[u][i]) /\ Placed(Body[v][k]) /\ Placed(Body[v][l])
  BY DEF Placed
<1>6. Body[u][j] \in Nested({Body[v][k]}) \/ Body[v][k] \in Nested({Body[u][j]})
  BY <1>2, <1>4, <1>5, Comparable
<1>7. CASE Body[u][j] = Body[v][k]
  <2>1. u = v /\ j = k
    BY <1>7, PlanShape DEF PlanShape
  <2>2. i \in Nat /\ j \in Nat /\ l \in Nat
    BY <2>1, BodyType
  <2>3. i < l
    BY <1>2, <1>4, <2>1, <2>2
  <2> QED
    BY <1>2, <1>4, <2>1, <2>3 DEF StepBefore
<1>8. CASE Body[u][j] # Body[v][k] /\ Body[u][j] \in Nested({Body[v][k]})
  <2>1. Body[u][i] \in Nested({Body[v][k]})
    BY <1>5, <1>8, SequenceBelow
  <2>2. r \in Nested({Body[v][k]})
    BY <1>2, <1>5, <2>1, NestedWithin
  <2> QED
    BY <1>4, <2>2 DEF StepBefore
<1>9. CASE Body[u][j] # Body[v][k] /\ Body[v][k] \in Nested({Body[u][j]})
  <2>1. Body[v][l] \in Nested({Body[u][j]})
    BY <1>5, <1>9, SequenceBelow
  <2>2. q \in Nested({Body[u][j]})
    BY <1>4, <1>5, <2>1, NestedWithin
  <2> QED
    BY <1>2, <2>2 DEF StepBefore
<1> QED
  BY <1>6, <1>7, <1>8, <1>9

\* The order the unwind must respect is a strict order, for every plan tree:
\* among the operations still to undo there is always one that nothing built
\* on, so the reverse walk of the stack never has to break the promise.
THEOREM PrecedesIsOrder ==
  /\ \A o \in SagaOps : <<o, o>> \notin SagaPrecedes
  /\ \A o, p, q \in SagaOps :
       <<o, p>> \in SagaPrecedes /\ <<p, q>> \in SagaPrecedes => <<o, q>> \in SagaPrecedes
<1>0. \A o \in SagaOps : o[2] \in Nat
  BY PlanAssumption DEF SagaOps, Items, ItemsOf, Mapped, PlanAssumption
<1>1. \A o, p \in SagaOps :
        <<o, p>> \in SagaPrecedes <=> StepBefore(o[1], p[1]) \/ (o[1] = p[1] /\ o[2] < p[2])
  BY DEF SagaPrecedes
<1>2. ASSUME NEW o \in SagaOps PROVE <<o, o>> \notin SagaPrecedes
  BY <1>0, <1>1, BeforeIrreflexive
<1>3. ASSUME NEW o \in SagaOps, NEW p \in SagaOps, NEW q \in SagaOps,
             <<o, p>> \in SagaPrecedes, <<p, q>> \in SagaPrecedes
      PROVE  <<o, q>> \in SagaPrecedes
  <2>1. CASE StepBefore(o[1], p[1]) /\ StepBefore(p[1], q[1])
    BY <1>1, <2>1, BeforeTransitive
  <2>2. CASE o[1] = p[1] \/ p[1] = q[1]
    <3>1. o[2] \in Nat /\ p[2] \in Nat /\ q[2] \in Nat
      BY <1>0
    <3>2. StepBefore(o[1], p[1]) \/ (o[1] = p[1] /\ o[2] < p[2])
      BY <1>1, <1>3
    <3>3. StepBefore(p[1], q[1]) \/ (p[1] = q[1] /\ p[2] < q[2])
      BY <1>1, <1>3
    <3>4. StepBefore(o[1], q[1]) \/ (o[1] = q[1] /\ o[2] < q[2])
      BY <2>2, <3>1, <3>2, <3>3, BeforeIrreflexive
    <3> QED
      BY <1>1, <3>4
  <2> QED
    BY <1>1, <1>3, <2>1, <2>2
<1> QED
  BY <1>2, <1>3

\* A step below s lies in a block that is s or below it.
LEMMA ParentWithin ==
  ASSUME NEW s, Placed(s), NEW q \in Nested({s}), q # s
  PROVE  \E p \in Nested({s}) : Placed(p) /\ q \in Inside({p})
<1> DEFINE S0 == {s}
           S1 == Inside(S0)
           S2 == Inside(S1)
           S3 == Inside(S2)
<1>1. Nested({s}) = S0 \cup S1 \cup S2 \cup S3
  BY DEF Nested
<1> HIDE DEF S1, S2, S3
<1>2. PICK p \in Nested({s}) : q \in Inside({p})
  <2>1. q \in S1 \/ q \in S2 \/ q \in S3
    BY <1>1
  <2>2. CASE q \in S1
    BY <1>1, <2>2, InsideEach DEF S1
  <2>3. CASE q \in S2
    BY <1>1, <2>3, InsideEach DEF S2
  <2>4. CASE q \in S3
    BY <1>1, <2>4, InsideEach DEF S3
  <2> QED
    BY <2>1, <2>2, <2>3, <2>4
<1>3. Placed(p)
  BY NestedPlaced
<1> QED
  BY <1>2, <1>3

\* A sequence that was started lies only below steps that have begun.
LEMMA StartedBelow ==
  ASSUME IInv, PlaceInv, NEW t \in Threads, NEW u \in Threads, t # u,
         NEW k \in DOMAIN Body[t], NEW j \in DOMAIN Body[u],
         ctl[t] # "idle", Body[t][k] \in Nested({Body[u][j]})
  PROVE  Reached(u, j)
<1>1. Placed(Body[u][j]) /\ Body[t][k] # Body[u][j]
  BY PlanShape DEF PlanShape, Placed
<1>2. PICK p \in Nested({Body[u][j]}) : Placed(p) /\ Body[t][k] \in Inside({p})
  BY <1>1, ParentWithin
<1>3. PICK b \in BranchesOf[p] : b \in Branches /\ \E m \in DOMAIN Body[b] : Body[t][k] = Body[b][m]
  BY <1>2, InsideOne
<1>4. b = t
  BY <1>3, PlanShape DEF PlanShape, Threads
<1>5. StepReached(p)
  BY <1>3, <1>4 DEF StepReached, PlaceInv, BranchesInOrder
<1> QED
  BY <1>5, ReachedBelow

\* What the sequences at work have ahead of them is disjoint.
LEMMA Frontier ==
  ASSUME IInv, PlaceInv, NEW t \in Threads, NEW u \in Threads,
         NEW k \in DOMAIN Body[t], NEW j \in DOMAIN Body[u],
         ctl[t] # "idle", ctl[u] # "idle", ~Reached(t, k), ~Reached(u, j),
         Nested({Body[t][k]}) \cap Nested({Body[u][j]}) # {}
  PROVE  t = u /\ k = j
<1>1. Placed(Body[t][k]) /\ Placed(Body[u][j])
  BY DEF Placed
<1>2. t = u
  BY <1>1, Comparable, StartedBelow
<1> QED
  BY <1>2, Disjoint

\* The branches of one block have nothing in common.
LEMMA NotInSibling ==
  ASSUME NEW t \in Threads, NEW i \in DOMAIN Body[t], NEW b \in BranchesOf[Body[t][i]],
         NEW c \in BranchesOf[Body[t][i]], b # c, NEW m \in DOMAIN Body[b], NEW n \in DOMAIN Body[c]
  PROVE  Body[c][n] \notin Nested({Body[b][m]})
<1> SUFFICES ASSUME Body[c][n] \in Nested({Body[b][m]}) PROVE FALSE
  OBVIOUS
<1>0. b \in Branches /\ c \in Branches /\ b \in Threads /\ c \in Threads
  BY BodyType, PlanAssumption DEF PlanAssumption, Threads
<1>1. Placed(Body[b][m]) /\ Placed(Body[t][i]) /\ Body[c][n] # Body[b][m]
  BY <1>0, PlanShape DEF PlanShape, Placed
<1>2. PICK p \in Nested({Body[b][m]}) : Placed(p) /\ Body[c][n] \in Inside({p})
  BY <1>1, ParentWithin
<1>3. Body[c][n] \in Inside({Body[t][i]})
  BY <1>0, <1>1, InsideOne
<1>4. p = Body[t][i]
  BY <1>1, <1>2, <1>3, OneParent
<1> QED
  BY <1>2, <1>4, NotBelowItself

LEMMA Siblings ==
  ASSUME NEW t \in Threads, NEW i \in DOMAIN Body[t], NEW b \in BranchesOf[Body[t][i]],
         NEW c \in BranchesOf[Body[t][i]], NEW m \in DOMAIN Body[b], NEW n \in DOMAIN Body[c],
         Nested({Body[b][m]}) \cap Nested({Body[c][n]}) # {}
  PROVE  b = c
<1>1. b \in Threads /\ c \in Threads
  BY BodyType, PlanAssumption DEF PlanAssumption, Threads
<1>2. Placed(Body[b][m]) /\ Placed(Body[c][n])
  BY <1>1 DEF Placed
<1> QED
  BY <1>2, Comparable, NotInSibling
-----------------------------------------------------------------------------
(* Progress: the units that are still to come *)

\* The units of the plan.
Units == Items \cup (Atomic \X {0})

LEMMA UnitsFinite == IsFiniteSet(Units)
<1>1. IsFiniteSet(Atomic)
  BY PlanAssumption, FS_Subset DEF PlanAssumption, Atomic
<1>2. IsFiniteSet({0})
  BY FS_Singleton
<1>3. IsFiniteSet(Atomic \X {0})
  BY <1>1, <1>2, FS_Product
<1> QED
  BY <1>3, ItemsFinite, FS_Union DEF Units

LEMMA UnitKinds ==
  ASSUME NEW x \in Units
  PROVE  /\ x[1] \in Steps
         /\ x \in Items => x[1] \in Mapped /\ x \in ItemsOf(x[1])
         /\ x \notin Items => x[1] \in Atomic /\ x = <<x[1], 0>>
         /\ x \in Items <=> x[1] \in Mapped
         /\ x[1] \notin Parallel
<1>1. CASE x \in Items
  <2>1. PICK s \in Mapped : x \in ItemsOf(s)
    BY <1>1 DEF Items
  <2>2. x[1] = s
    BY <2>1 DEF ItemsOf
  <2> QED
    BY <1>1, <2>1, <2>2 DEF Mapped, Parallel
<1>2. CASE x \notin Items
  <2>1. x \in Atomic \X {0}
    BY <1>2 DEF Units
  <2>2. x[1] \in Atomic /\ x = <<x[1], 0>>
    BY <2>1
  <2> QED
    BY <1>2, <2>2 DEF Atomic, Mapped, Parallel
<1> QED
  BY <1>1, <1>2

LEMMA MappedUnits ==
  ASSUME NEW s \in Mapped
  PROVE  /\ ItemsOf(s) \subseteq Items /\ ItemsOf(s) \subseteq Units
         /\ \A x \in ItemsOf(s) : x[1] = s
         /\ \A x \in Items : x[1] = s => x \in ItemsOf(s)
<1>1. ItemsOf(s) \subseteq Items /\ \A x \in ItemsOf(s) : x[1] = s
  BY DEF Items, ItemsOf
<1>2. \A x \in Items : x[1] = s => x \in ItemsOf(s)
  BY UnitKinds DEF Units
<1> QED
  BY <1>1, <1>2 DEF Units
-----------------------------------------------------------------------------
(* What a step of the run does to the units *)

\* The units counted are the same.
SameUnits(l, m) == m.totalUnits = l.totalUnits /\ m.completedUnits = l.completedUnits

LEMMA RefreshSame ==
  ASSUME NEW l \in LifecycleState
  PROVE  SameUnits(l, RefreshWaiting(l))
BY DEF RefreshWaiting, LifecycleState, SameUnits

LEMMA WaitingSame ==
  ASSUME NEW l \in LifecycleState, NEW g \in Gates
  PROVE  SameUnits(l, WaitingForGate(l, g))
<1> DEFINE m == [l EXCEPT !.gate[g].waiting = TRUE, !.signalled = FALSE]
<1>1. m \in LifecycleState
  BY DEF LifecycleState, GateState
<1>2. SameUnits(l, m)
  BY DEF LifecycleState, SameUnits
<1>3. WaitingForGate(l, g) = RefreshWaiting(m)
  BY DEF WaitingForGate
<1> HIDE DEF m
<1> QED
  BY <1>1, <1>2, <1>3, RefreshSame DEF SameUnits

LEMMA RoutedSame ==
  ASSUME NEW l \in LifecycleState, NEW g \in Gates
  PROVE  GateRouted(l, g) \in LifecycleState /\ SameUnits(l, GateRouted(l, g))
<1> DEFINE m == [l EXCEPT !.gate[g].waiting = FALSE, !.gate[g].fired = TRUE,
                          !.reviewRouteTarget = l.gate[g].routeTarget]
           n == [l.gate EXCEPT ![g].waiting = FALSE, ![g].fired = TRUE]
<1>1. m \in LifecycleState /\ SameUnits(l, m)
  <2>1. n \in [Gates -> GateState] /\ l.gate[g].routeTarget \in Steps \cup {Null}
    BY DEF LifecycleState, GateState
  <2>2. m = [l EXCEPT !.gate = n, !.reviewRouteTarget = l.gate[g].routeTarget]
    BY DEF LifecycleState
  <2> HIDE DEF m, n
  <2> QED
    BY <2>1, <2>2 DEF LifecycleState, SameUnits
<1>2. GateRouted(l, g) = RefreshWaiting(m)
  BY DEF GateRouted
<1> HIDE DEF m
<1> QED
  BY <1>1, <1>2, RefreshSame, RefreshWaitingType DEF SameUnits

LEMMA ClosedSame ==
  ASSUME NEW l \in LifecycleState, NEW g \in Gates
  PROVE  SameUnits(l, GateClosed(l, g))
<1> DEFINE m == [l EXCEPT !.gate[g].waiting = FALSE, !.gate[g].fired = TRUE]
           c == IF WaitingGates(m) = {} THEN Null
                ELSE AfterStep[CHOOSE h \in WaitingGates(m) : TRUE]
<1>1. SameUnits(l, m)
  BY DEF LifecycleState, SameUnits
<1>2. GateClosed(l, g) = [m EXCEPT !.waitingCheckpoint = c]
  BY DEF GateClosed
<1>3. \A d : SameUnits(m, [m EXCEPT !.waitingCheckpoint = d])
  BY DEF LifecycleState, SameUnits
<1> HIDE DEF m, c
<1> QED
  BY <1>1, <1>2, <1>3 DEF SameUnits

LEMMA TimedOutSame ==
  ASSUME NEW l \in LifecycleState, NEW g \in Gates
  PROVE  GateTimedOut(l, g) \in LifecycleState /\ SameUnits(l, GateTimedOut(l, g))
<1> DEFINE m == GateClosed(l, g)
<1>1. m \in LifecycleState /\ SameUnits(l, m)
  BY GateClosedType, ClosedSame
<1> HIDE DEF m
<1>2. CASE OnTimeout[g] = "route"
  <2> DEFINE r == [m EXCEPT !.gate[g].routeTarget = TimeoutRoute[g],
                            !.reviewRouteTarget = TimeoutRoute[g]]
             n == [m.gate EXCEPT ![g].routeTarget = TimeoutRoute[g]]
  <2>1. TimeoutRoute[g] \in Steps \cup {Null}
    BY LifecycleAssumption DEF LifecycleAssumption
  <2>2. n \in [Gates -> GateState]
    BY <1>1, <2>1 DEF LifecycleState, GateState
  <2>3. r = [m EXCEPT !.gate = n, !.reviewRouteTarget = TimeoutRoute[g]]
    BY <1>1 DEF LifecycleState
  <2>4. GateTimedOut(l, g) = RefreshWaiting(r)
    BY <1>2 DEF GateTimedOut, m
  <2> HIDE DEF r, n
  <2>5. r \in LifecycleState /\ SameUnits(m, r)
    BY <1>1, <2>1, <2>2, <2>3 DEF LifecycleState, SameUnits
  <2> QED
    BY <1>1, <2>4, <2>5, RefreshSame, RefreshWaitingType DEF SameUnits
<1>3. CASE OnTimeout[g] # "route"
  <2>1. SameUnits(m, GateTimedOut(l, g))
    BY <1>1, <1>3 DEF GateTimedOut, m, LifecycleState, SameUnits
  <2>2. GateTimedOut(l, g) \in LifecycleState
    BY GateTimedOutEvolves DEF Evolves
  <2> QED
    BY <1>1, <2>1, <2>2 DEF SameUnits
<1> QED
  BY <1>2, <1>3

LEMMA SubmittedSame ==
  ASSUME NEW l \in LifecycleState
  PROVE  /\ \A named \in Gates \cup {Null}, d \in Decisions :
              SameUnits(l, SubmittedReview(l, named, d))
         /\ SameUnits(l, SubmittedMalformed(l))
<1>1. \A g : SameUnits(l, InvalidDecision(l, g))
  BY DEF InvalidDecision, LifecycleState, SameUnits
<1>2. SameUnits(l, [l EXCEPT !.signalled = TRUE])
  BY DEF LifecycleState, SameUnits
<1>3. \A g, r : SameUnits(l, [l EXCEPT !.signalled = TRUE, !.gate[g].routeTarget = r,
                                      !.reviewRouteTarget = r])
  BY DEF LifecycleState, SameUnits
<1>4. ASSUME NEW named \in Gates \cup {Null}, NEW d \in Decisions
      PROVE  SameUnits(l, SubmittedReview(l, named, d))
  BY <1>1, <1>2, <1>3 DEF SubmittedReview
<1>5. SameUnits(l, SubmittedMalformed(l))
  BY <1>1, <1>2 DEF SubmittedMalformed
<1> QED
  BY <1>4, <1>5

LEMMA EndsSame ==
  ASSUME NEW l \in LifecycleState, NEW s
  PROVE  /\ SameUnits(l, Completed(l)) /\ SameUnits(l, InvalidReviewFailed(l))
         /\ SameUnits(l, CancelledWith(l, s)) /\ SameUnits(l, FailedWith(l, s))
         /\ SameUnits(l, RequestCancelled(l)) /\ SameUnits(l, Started(l))
         /\ \A b : SameUnits(l, [l EXCEPT !.signalled = b])
BY DEF Completed, InvalidReviewFailed, CancelledWith, FailedWith, RequestCancelled, Started,
       LifecycleState, SameUnits
-----------------------------------------------------------------------------
(* The turns of a sequence *)

\* Thread t leaves its step by throwing, or goes on behind it.
Drops(t) ==
  pc' = pc /\ ctl' = [ctl EXCEPT ![t] = IF t = Main THEN "unwind" ELSE "failed"]
Passes(t) ==
  \/ pc' = [pc EXCEPT ![t] = @ + 1] /\ ctl' = [ctl EXCEPT ![t] = "ready"]
  \/ t = Main /\ pc' = pc /\ ctl' = [ctl EXCEPT ![t] = "poll"]

LEMMA ThrowDrops == ASSUME NEW t, NEW why, Throw(t, why) PROVE Drops(t)
BY DEF Throw, Drops

LEMMA StepDonePasses ==
  ASSUME NEW t, NEW l \in LifecycleState, StepDone(t, l)
  PROVE  Passes(t) /\ context' = context \cup {Cur(t)} /\ SameUnits(l, lc')
<1> DEFINE gates == IF t = Main THEN PendingGatesAfter(l, Cur(t)) ELSE {}
<1>1. CASE gates = {}
  BY <1>1 DEF StepDone, Passes, SameUnits
<1>2. CASE gates # {}
  <2> DEFINE g == CHOOSE h \in gates : TRUE
  <2>1. g \in Gates /\ t = Main
    BY <1>2 DEF PendingGatesAfter
  <2>2. lc' = WaitingForGate(l, g)
    BY <1>2 DEF StepDone
  <2>3. SameUnits(l, lc')
    BY <2>1, <2>2, WaitingSame
  <2> QED
    BY <1>2, <2>1, <2>3 DEF StepDone, Passes
<1> QED
  BY <1>1, <1>2

TurnThrows(t) == Drops(t) /\ UNCHANGED <<item, context>> /\ SameUnits(lc, lc')

TurnAtomic(t) ==
  /\ ctl[t] = "activity" /\ ctl' = [ctl EXCEPT ![t] = "resolved"]
  /\ lc'.totalUnits = lc.totalUnits /\ lc'.completedUnits = lc.completedUnits + 1
  /\ UNCHANGED <<pc, item, context>>

TurnRecords(t) ==
  /\ ctl[t] = "resolved"
  /\ UNCHANGED item /\ context' = context \cup {Cur(t)}
  /\ SameUnits(lc, lc')
  /\ Passes(t) \/ Drops(t)

TurnPasses(t) ==
  /\ ctl[t] \in {"fanout", "release"}
  /\ ctl[t] = "fanout" /\ Cur(t) \in Mapped => \A x \in ItemsOf(Cur(t)) : item[x] \notin {"running", "failed"}
  /\ ctl[t] = "fanout" /\ Cur(t) \notin Mapped =>
       Cur(t) \in Parallel /\ \A b \in BranchesOf[Cur(t)] : ctl[b] \in {"done", "skipped"}
  /\ UNCHANGED item /\ context' = context \cup {Cur(t)}
  /\ SameUnits(lc, lc')
  /\ Passes(t)

TurnStarts(t) ==
  /\ AtStep(t) /\ Cur(t) \in Atomic
  /\ ctl' = [ctl EXCEPT ![t] = "activity"]
  /\ UNCHANGED <<pc, item, context, lc>>

TurnMap(t) ==
  /\ AtStep(t) /\ Cur(t) \in Mapped /\ OverKnown(Cur(t))
  /\ lc' = IF Over[Cur(t)] = "input" THEN lc ELSE AddUnits(lc, Size[Cur(t)])
  /\ \/ FanOutItems(t)
     \/ ctl' = [ctl EXCEPT ![t] = "prep"] /\ UNCHANGED <<pc, item>>
     \/ Drops(t) /\ UNCHANGED item
  /\ UNCHANGED context

TurnReleases(t) ==
  /\ ctl[t] = "fanout" /\ Cur(t) \in Mapped
  /\ \A x \in ItemsOf(Cur(t)) : item[x] \notin {"running", "failed"}
  /\ ctl' = [ctl EXCEPT ![t] = "release"]
  /\ UNCHANGED <<pc, item, context, lc>>

Turn(t) ==
  \/ TurnThrows(t) \/ TurnAtomic(t) \/ TurnRecords(t) \/ TurnPasses(t) \/ TurnStarts(t)
  \/ TurnMap(t) \/ TurnReleases(t) \/ PrepCompletes(t) \/ StartParallel(t)
  \/ SkipRemainder(t) \/ FinishSequence(t)

LEMMA MapEndsTurns ==
  ASSUME IInv, NEW t \in Threads, NEW outcome \in {"ok", "cancelled", "failure"},
         MapEnds(t, outcome), UNCHANGED item, ctl[t] \in {"fanout", "release"},
         ctl[t] = "fanout" => Cur(t) \in Mapped,
         outcome = "ok" /\ ctl[t] = "fanout" =>
           \A x \in ItemsOf(Cur(t)) : item[x] \notin {"running", "failed"}
  PROVE  TurnThrows(t) \/ TurnPasses(t)
<1>1. lc \in LifecycleState
  BY DEF IInv, LifeOK
<1>2. CASE outcome = "ok" /\ StepDone(t, lc)
  BY <1>1, <1>2, StepDonePasses DEF TurnPasses
<1>3. CASE \E why : Throw(t, why) /\ UNCHANGED <<context, lc>>
  BY <1>3, ThrowDrops DEF TurnThrows, SameUnits
<1> QED
  BY <1>2, <1>3 DEF MapEnds

LEMMA StepTurns == ASSUME IInv, NEW t \in Threads, Step(t) PROVE Turn(t)
<1>0. lc \in LifecycleState
  BY DEF IInv, LifeOK
<1>1. CASE RaiseIfCancelled(t) \/ AtomicFails(t) \/ PrepFails(t)
  BY <1>1, ThrowDrops DEF RaiseIfCancelled, AtomicFails, PrepFails, Turn, TurnThrows, SameUnits
<1>2. CASE SkipRemainder(t) \/ FinishSequence(t) \/ PrepCompletes(t) \/ StartParallel(t)
  BY <1>2 DEF Turn
<1>3. CASE StartAtomic(t)
  BY <1>3, ThrowDrops DEF StartAtomic, Turn, TurnThrows, TurnStarts, SameUnits
<1>4. CASE AtomicCompletes(t)
  <2> DEFINE l == UnitCompleted(lc)
  <2>1. l.totalUnits = lc.totalUnits /\ l.completedUnits = lc.completedUnits + 1
    BY <1>0 DEF UnitCompleted, LifecycleState
  <2> QED
    BY <1>4, <2>1 DEF AtomicCompletes, Turn, TurnAtomic
<1>10. CASE AtomicRecorded(t)
  <2>1. CASE StepDone(t, lc)
    BY <1>0, <1>10, <2>1, StepDonePasses DEF AtomicRecorded, Turn, TurnRecords
  <2>2. CASE UNCHANGED lc /\ Throw(t, "failure") /\ context' = context \cup {Cur(t)}
    BY <1>10, <2>2, ThrowDrops DEF AtomicRecorded, Turn, TurnRecords, SameUnits
  <2> QED
    BY <1>10, <2>1, <2>2 DEF AtomicRecorded
<1>5. CASE StartMap(t)
  <2>1. CASE \E why : Throw(t, why) /\ UNCHANGED <<item, lc>>
    BY <1>5, <2>1, ThrowDrops DEF StartMap, Turn, TurnThrows, SameUnits
  <2> DEFINE Counted == lc' = IF Over[Cur(t)] = "input" THEN lc ELSE AddUnits(lc, Size[Cur(t)])
  <2>2. CASE Counted /\ OverKnown(Cur(t)) /\ (FanOutItems(t) \/ (ctl' = [ctl EXCEPT ![t] = "prep"] /\ UNCHANGED <<pc, item>>))
    BY <1>5, <2>2 DEF StartMap, Turn, TurnMap
  <2>3. CASE Counted /\ OverKnown(Cur(t)) /\ \E why : Throw(t, why) /\ UNCHANGED item
    BY <1>5, <2>3, ThrowDrops DEF StartMap, Turn, TurnMap
  <2> QED
    BY <1>5, <2>1, <2>2, <2>3 DEF StartMap
<1>6. CASE MapSettles(t)
  <2>1. UNCHANGED item /\ ctl[t] = "fanout" /\ Cur(t) \in Mapped /\ FanOutSettled(t)
    BY <1>6 DEF MapSettles
  <2>2. CASE \E outcome \in {"cancelled", "failure"} : MapEnds(t, outcome)
    BY <2>1, <2>2, MapEndsTurns DEF Turn
  <2>3. CASE ~\E x \in ItemsOf(Cur(t)) : item[x] = "failed"
    <3>1. \A x \in ItemsOf(Cur(t)) : item[x] \notin {"running", "failed"}
      BY <2>1, <2>3 DEF FanOutSettled
    <3>2. CASE MapEnds(t, "ok")
      BY <2>1, <3>1, <3>2, MapEndsTurns DEF Turn
    <3>3. CASE ctl' = [ctl EXCEPT ![t] = "release"] /\ UNCHANGED <<pc, context, lc>>
      BY <2>1, <3>1, <3>3 DEF Turn, TurnReleases
    <3> QED
      BY <1>6, <2>2, <3>2, <3>3 DEF MapSettles, Collected
  <2> QED
    BY <1>6, <2>2, <2>3 DEF MapSettles
<1>7. CASE ReleaseEnds(t)
  <2>1. \E outcome \in {"ok", "failure"} : MapEnds(t, outcome)
    BY <1>7 DEF ReleaseEnds, Collected
  <2> QED
    BY <1>7, <2>1, MapEndsTurns DEF ReleaseEnds, Turn
<1>8. CASE RaceRejects(t)
  <2>1. CASE Cur(t) \in Mapped
    BY <1>8, <2>1, MapEndsTurns DEF RaceRejects, Turn
  <2>2. CASE Cur(t) \notin Mapped
    BY <1>8, <2>2, ThrowDrops DEF RaceRejects, Turn, TurnThrows, SameUnits
  <2> QED
    BY <2>1, <2>2
<1>9. CASE ParallelSettles(t)
  <2>1. CASE \E why : Throw(t, why) /\ UNCHANGED <<context, lc>>
    BY <1>9, <2>1, ThrowDrops DEF ParallelSettles, Turn, TurnThrows, SameUnits
  <2>2. CASE StepDone(t, lc) /\ ~\E b \in BranchesOf[Cur(t)] : ctl[b] = "failed"
    <3>1. Cur(t) \in Parallel /\ Cur(t) \notin Mapped /\ ctl[t] = "fanout"
      BY <1>9 DEF ParallelSettles, Parallel, Mapped
    <3>2. \A b \in BranchesOf[Cur(t)] : ctl[b] \in {"done", "skipped"}
      BY <1>9, <2>2, <3>1 DEF ParallelSettles, FanOutSettled
    <3> QED
      BY <1>0, <1>9, <2>2, <3>1, <3>2, StepDonePasses DEF ParallelSettles, Turn, TurnPasses
  <2> QED
    BY <1>9, <2>1, <2>2 DEF ParallelSettles
<1> QED
  BY <1>1, <1>2, <1>3, <1>4, <1>5, <1>6, <1>7, <1>8, <1>9, <1>10 DEF Step

TurnJumps ==
  \E l \in LifecycleState : \E g \in Gates : \E s \in Routes(g) :
    /\ ctl[Main] \in AtGate /\ AfterStep[g] = Cur(Main)
    /\ SameUnits(lc, l)
    /\ JumpTo(s, l)
    /\ UNCHANGED <<item, context>>

TurnRests ==
  /\ \/ UNCHANGED ctl
     \/ \E c \in {"review"} \cup Ending :
          /\ c \in Ending \/ ctl[Main] \in AtGate
          /\ ctl[Main] \in AtGate \cup Ending /\ ctl' = [ctl EXCEPT ![Main] = c]
  /\ UNCHANGED <<pc, item, context>>
  /\ SameUnits(lc, lc')

LEMMA GateTurns == ASSUME IInv, Gate PROVE TurnJumps \/ TurnRests
<1>0. lc \in LifecycleState /\ Main \in Threads
  BY MainIsThread DEF IInv, LifeOK
<1> DEFINE g == CurrentGate
<1>1. ctl[Main] \in AtGate
  BY DEF Gate, GateRaisesCancelled, GateFailsOnInvalid, GateRoutes, GateKeepsWaiting,
         GateTimesOut, ReviewRejects, Polling, AtGate
<1>2. g \in Gates /\ AfterStep[g] = Cur(Main)
  BY <1>1, CurrentGateType DEF IInv, AtGate
<1> HIDE DEF g
<1>3. CASE GateRaisesCancelled \/ ReviewRejects
  BY <1>1, <1>3 DEF GateRaisesCancelled, ReviewRejects, Throw, TurnRests, Ending, SameUnits
<1>4. CASE GateFailsOnInvalid
  BY <1>0, <1>1, <1>4, EndsSame DEF GateFailsOnInvalid, Throw, TurnRests, Ending
<1>5. CASE GateKeepsWaiting
  BY <1>0, <1>1, <1>5, EndsSame DEF GateKeepsWaiting, TurnRests
<1>6. CASE GateRoutes
  <2> DEFINE s == lc.gate[g].routeTarget
             l == GateRouted(lc, g)
  <2>1. s # Null /\ JumpTo(s, l)
    BY <1>6 DEF GateRoutes, g
  <2>2. s \in Routes(g)
    BY <1>0, <1>2, <2>1 DEF IInv, LifeOK, RoutesKnown, Routes
  <2>3. l \in LifecycleState /\ SameUnits(lc, l)
    BY <1>0, <1>2, RoutedSame
  <2> QED
    BY <1>1, <1>2, <1>6, <2>1, <2>2, <2>3 DEF GateRoutes, TurnJumps
<1>7. CASE GateTimesOut
  <2> DEFINE l == GateTimedOut(lc, g)
  <2>1. l \in LifecycleState /\ SameUnits(lc, l)
    BY <1>0, <1>2, TimedOutSame
  <2>2. CASE OnTimeout[g] = "route"
    <3>1. TimeoutRoute[g] # Null
      BY <1>2, <2>2, LifecycleAssumption DEF LifecycleAssumption
    <3>2. TimeoutRoute[g] \in Routes(g)
      BY <3>1 DEF Routes
    <3>3. JumpTo(TimeoutRoute[g], l)
      BY <1>7, <2>2 DEF GateTimesOut, g
    <3> QED
      BY <1>1, <1>2, <1>7, <2>1, <3>2, <3>3 DEF GateTimesOut, TurnJumps
  <2>3. CASE OnTimeout[g] # "route"
    BY <1>1, <1>7, <2>1, <2>3 DEF GateTimesOut, g, Throw, TurnRests, Ending
  <2> QED
    BY <2>2, <2>3
<1> QED
  BY <1>3, <1>4, <1>5, <1>6, <1>7 DEF Gate

LEMMA OtherTurns ==
  ASSUME IInv, Start \/ Gate \/ Unwind \/ Signal \/ UNCHANGED vars
  PROVE  Start \/ TurnJumps \/ TurnRests
<1>0. lc \in LifecycleState
  BY DEF IInv, LifeOK
<1>1. CASE Unwind
  <2>1. CASE StartCompensation
    BY <2>1 DEF StartCompensation, TurnRests, Ending, SameUnits
  <2>2. CASE CompensationEnds
    BY <2>2 DEF CompensationEnds, TurnRests, Ending, SameUnits
  <2>3. CASE FinishUnwind
    BY <1>0, <2>3, EndsSame DEF FinishUnwind, TurnRests, Ending
  <2> QED
    BY <1>1, <2>1, <2>2, <2>3 DEF Unwind
<1>2. CASE Signal
  <2>1. CASE RequestCancel
    BY <1>0, <2>1, EndsSame DEF RequestCancel, TurnRests
  <2>2. CASE SubmitReview
    BY <1>0, <2>2, SubmittedSame DEF SubmitReview, TurnRests
  <2>3. CASE CancelNatively
    BY <2>3 DEF CancelNatively, TurnRests, SameUnits
  <2> QED
    BY <1>2, <2>1, <2>2, <2>3 DEF Signal
<1>3. CASE UNCHANGED vars
  BY <1>3 DEF vars, TurnRests, SameUnits
<1> QED
  BY <1>1, <1>2, <1>3, GateTurns
-----------------------------------------------------------------------------
(* Where a run stands: what its invariants on progress rest on *)

\* A thread at work or at a gate, and one that has not ended well.
Alive(u) == ctl[u] \in BusyStates \cup AtGate
Live(u) == Alive(u) \/ ctl[u] \in Ending \cup {"failed"}

\* A run that has not started has done nothing.
Unstarted ==
  ctl[Main] = "start" =>
    /\ \A b \in Branches : ctl[b] = "idle"
    /\ context = {} /\ \A x \in Items : item[x] = "waiting"
    /\ lc.totalUnits = 0 /\ lc.completedUnits = 0

BranchControl == \A b \in Branches : ctl[b] \in BranchStates \cup BusyStates

\* Nothing is done ahead of the run.
NothingAhead ==
  /\ \A x \in Items : item[x] # "waiting" => StepReached(x[1])
  /\ \A s \in context : StepReached(s)

\* The workers of a map do not stop before its items are done, but on a failure.
WorkersBusy ==
  \A t \in Threads :
    /\ ctl[t] = "fanout" /\ Cur(t) \in Mapped =>
         \/ \A x \in ItemsOf(Cur(t)) : item[x] = "done"
         \/ \E x \in ItemsOf(Cur(t)) : item[x] \in {"running", "failed"}
    /\ ctl[t] = "release" => Cur(t) \in Mapped /\ \A x \in ItemsOf(Cur(t)) : item[x] = "done"

\* A branch at work or failed is held against its block.
BranchesHeld ==
  \A b \in Branches : ctl[b] \in BusyStates \cup {"failed"} =>
    \E u \in Threads : /\ pc[u] \in DOMAIN Body[u] /\ b \in BranchesOf[Cur(u)]
                       /\ ctl[u] \in {"fanout", "failed"} \cup Ending

\* What each kind of turn leaves of ctl and pc.
LEMMA TurnControl ==
  ASSUME IInv, NEW t \in Threads, Turn(t), ctl[t] \in BusyStates, NEW u \in Threads
  PROVE  /\ u # t => /\ pc'[u] = pc[u] /\ Cur(u)' = Cur(u)
                     /\ \/ ctl'[u] = ctl[u]
                        \/ /\ StartParallel(t) /\ u \in BranchesOf[Cur(t)]
                           /\ ctl'[u] \in {"ready", "skipped"}
                           /\ ctl'[u] = "skipped" => u \in Gated
         /\ \/ Drops(t) /\ pc'[t] = pc[t] /\ ctl'[t] = IF t = Main THEN "unwind" ELSE "failed"
            \/ TurnAtomic(t) /\ pc'[t] = pc[t] /\ ctl'[t] = "resolved"
            \/ /\ TurnRecords(t) \/ TurnPasses(t)
               /\ \/ pc'[t] = pc[t] + 1 /\ ctl'[t] = "ready"
                  \/ t = Main /\ pc'[t] = pc[t] /\ ctl'[t] = "poll"
            \/ TurnStarts(t) /\ pc'[t] = pc[t] /\ ctl'[t] = "activity"
            \/ TurnMap(t) /\ pc'[t] = pc[t] /\ ctl'[t] \in {"prep", "fanout"}
            \/ TurnReleases(t) /\ pc'[t] = pc[t] /\ ctl'[t] = "release"
            \/ (PrepCompletes(t) \/ StartParallel(t)) /\ pc'[t] = pc[t] /\ ctl'[t] = "fanout"
            \/ (SkipRemainder(t) \/ FinishSequence(t)) /\ pc'[t] = pc[t]
               /\ ctl'[t] = IF t = Main THEN "returned" ELSE "done"
<1>0. ctl \in [Threads -> Controls] /\ pc \in [Threads -> Nat]
  BY DEF IInv, ControlOK
<1>1. CASE Drops(t)
  BY <1>0, <1>1 DEF Drops, Cur
<1>2. CASE Passes(t) /\ (TurnRecords(t) \/ TurnPasses(t))
  BY <1>0, <1>2 DEF Passes, Cur
<1>9. CASE TurnAtomic(t)
  BY <1>0, <1>9 DEF TurnAtomic, Cur
<1>3. CASE TurnStarts(t)
  BY <1>0, <1>3 DEF TurnStarts, Cur
<1>4. CASE TurnMap(t) /\ ~Drops(t)
  BY <1>0, <1>4 DEF TurnMap, FanOutItems, Cur
<1>5. CASE TurnReleases(t)
  BY <1>0, <1>5 DEF TurnReleases, Cur
<1>6. CASE PrepCompletes(t)
  BY <1>0, <1>6 DEF PrepCompletes, FanOutItems, Cur
<1>7. CASE SkipRemainder(t) \/ FinishSequence(t)
  BY <1>0, <1>7 DEF SkipRemainder, FinishSequence, EndSequence, Cur
<1>8. CASE StartParallel(t)
  <2>1. PICK out \in SUBSET (BranchesOf[Cur(t)] \cap Gated) :
          ctl' = [v \in Threads |-> IF v = t THEN "fanout"
                                    ELSE IF v \in out THEN "skipped"
                                    ELSE IF v \in BranchesOf[Cur(t)] THEN "ready"
                                    ELSE ctl[v]]
    BY <1>8 DEF StartParallel
  <2>2. pc' = pc
    BY <1>8 DEF StartParallel
  <2> QED
    BY <1>0, <1>8, <2>1, <2>2 DEF Cur
<1> QED
  BY <1>1, <1>2, <1>3, <1>4, <1>5, <1>6, <1>7, <1>8, <1>9
     DEF Turn, TurnThrows, TurnRecords, TurnPasses

LEMMA ItemsSized ==
  ASSUME NEW s \in Mapped, NEW n \in Nat
  PROVE  IsFiniteSet({s} \X (1..n)) /\ Cardinality({s} \X (1..n)) = n
<1>1. IsFiniteSet({s}) /\ Cardinality({s}) = 1
  BY FS_Singleton
<1>2. IsFiniteSet(1..n) /\ Cardinality(1..n) = n
  BY FS_Interval
<1>3. /\ IsFiniteSet({s} \X (1..n))
      /\ Cardinality({s} \X (1..n)) = Cardinality({s}) * Cardinality(1..n)
  BY <1>1, <1>2, FS_Product
<1>4. 1 * n = n
  OBVIOUS
<1> QED
  BY <1>1, <1>2, <1>3, <1>4

\* A claim leaves a map done, at work or failed: its workers never run dry.
LEMMA ClaimBusy ==
  ASSUME NEW s \in Mapped, NEW f \in [Items -> {"waiting", "running", "done", "failed"}]
  PROVE  \/ \A x \in ItemsOf(s) : Claim(s, f)[x] = "done"
         \/ \E x \in ItemsOf(s) : Claim(s, f)[x] \in {"running", "failed"}
<1> DEFINE D == {x \in ItemsOf(s) : f[x] = "done"}
           d == Cardinality(D)
           g == Claim(s, f)
<1>0. Size[s] \in Nat /\ Concurrency[s] \in Nat \ {0} /\ ItemsOf(s) \subseteq Items
  BY PlanAssumption, MappedUnits DEF PlanAssumption, Mapped
<1>1. IsFiniteSet(ItemsOf(s)) /\ Cardinality(ItemsOf(s)) = Size[s]
  BY <1>0, ItemsSized DEF ItemsOf
<1>2. IsFiniteSet(D) /\ d \in Nat /\ (d = Size[s] => D = ItemsOf(s)) /\ d <= Size[s]
  BY <1>1, FS_Subset, FS_CardinalityType
<1>3. \A x \in ItemsOf(s) : f[x] # "waiting" => g[x] = f[x]
  BY <1>0 DEF Claim
<1>4. ASSUME \A x \in ItemsOf(s) : g[x] \notin {"running", "failed"}, D # ItemsOf(s)
      PROVE  FALSE
  <2>1. d + 1 <= Size[s]
    BY <1>0, <1>2, <1>4
  <2> DEFINE T == {s} \X (1..(d + 1))
  <2>2. IsFiniteSet(T) /\ Cardinality(T) = d + 1 /\ T \subseteq ItemsOf(s)
    <3>1. d + 1 \in Nat
      BY <1>2
    <3>2. 1..(d + 1) \subseteq 1..Size[s]
      BY <1>0, <1>2, <2>1
    <3>3. T \subseteq ItemsOf(s)
      BY <3>2 DEF ItemsOf
    <3> HIDE DEF d
    <3> QED
      BY <3>1, <3>3, ItemsSized
  <2> HIDE DEF T
  <2>3. ~(T \subseteq D)
    <3> SUFFICES ASSUME T \subseteq D PROVE FALSE
      OBVIOUS
    <3>1. Cardinality(T) <= Cardinality(D)
      BY <1>2, FS_Subset
    <3> QED
      BY <1>2, <2>2, <3>1
  <2>4. PICK x \in T : x \notin D
    BY <2>3
  <2>5. x \in ItemsOf(s) /\ x \in Items /\ x[2] \in Nat /\ x[2] <= d + 1
    BY <1>0, <1>2, <2>2 DEF T
  <2>6. \A y \in ItemsOf(s) : f[y] # "failed" /\ f[y] # "running"
    BY <1>3, <1>4
  <2>7. f[x] = "waiting"
    BY <2>4, <2>5, <2>6
  <2>8. x[2] <= Concurrency[s] + d
    BY <1>0, <1>2, <2>5
  <2>9. g[x] \in {"failed", "running"}
    <3>1. g[x] = IF x \notin {y \in ItemsOf(s) : /\ f[y] = "waiting"
                                                 /\ y[2] <= Concurrency[s] + d
                                                 /\ \A z \in ItemsOf(s) : f[z] # "failed"}
                 THEN f[x] ELSE IF FanOutCancelled THEN "failed" ELSE "running"
      BY <2>5 DEF Claim
    <3> QED
      BY <2>5, <2>6, <2>7, <2>8, <3>1
  <2> QED
    BY <1>4, <2>5, <2>9
<1>5. CASE D = ItemsOf(s)
  BY <1>3, <1>5
<1> QED
  BY <1>4, <1>5

LEMMA ClaimKeeps ==
  ASSUME NEW s, NEW f, NEW x \in Items
  PROVE  /\ x \notin ItemsOf(s) => Claim(s, f)[x] = f[x]
         /\ f[x] # "waiting" => Claim(s, f)[x] = f[x]
         /\ f[x] = "waiting" => Claim(s, f)[x] \in {"waiting", "running", "failed"}
BY DEF Claim

\* The step of a thread lies nowhere else in the plan.
LEMMA CurReached ==
  ASSUME NEW t \in Threads, pc[t] \in DOMAIN Body[t]
  PROVE  /\ StepReached(Cur(t)) <=> Reached(t, pc[t])
         /\ \A u \in Threads : \A k \in DOMAIN Body[u] : Body[u][k] = Cur(t) => u = t /\ k = pc[t]
BY PlanShape DEF PlanShape, Cur, StepReached

LEMMA CurInside ==
  ASSUME NEW t \in Threads, pc[t] \in DOMAIN Body[t],
         ctl[t] \in {"activity", "resolved", "prep", "fanout", "release", "poll", "review"}
  PROVE  StepReached(Cur(t))
BY CurReached DEF Reached

LEMMA StepReachedStays ==
  ASSUME \A u \in Threads : Forward(u), NEW r, StepReached(r)
  PROVE  StepReached(r)'
<1> SUFFICES ASSUME NEW u \in Threads, NEW k \in DOMAIN Body[u], Body[u][k] = r
             PROVE  Reached(u, k)'
  BY DEF StepReached
<1>1. k \in Nat
  BY BodyType
<1> QED
  BY <1>1 DEF StepReached, Forward

\* The items a turn of t touches are those of the map it fans out.
LEMMA TurnItems ==
  ASSUME KindInv, NEW t \in Threads, Turn(t)
  PROVE  \/ UNCHANGED item
         \/ /\ Cur(t) \in Mapped /\ FanOutItems(t)
            /\ TurnMap(t) \/ PrepCompletes(t)
<1>1. CASE TurnMap(t)
  BY <1>1 DEF TurnMap
<1>2. CASE PrepCompletes(t)
  BY <1>2 DEF PrepCompletes, KindInv
<1>3. CASE StartParallel(t) \/ SkipRemainder(t) \/ FinishSequence(t)
  BY <1>3 DEF StartParallel, SkipRemainder, FinishSequence
<1>4. CASE \/ TurnThrows(t) \/ TurnAtomic(t) \/ TurnRecords(t) \/ TurnPasses(t)
           \/ TurnStarts(t) \/ TurnReleases(t)
  BY <1>4 DEF TurnThrows, TurnAtomic, TurnRecords, TurnPasses, TurnStarts, TurnReleases
<1> QED
  BY <1>1, <1>2, <1>3, <1>4 DEF Turn

StandInv == Unstarted /\ BranchControl /\ NothingAhead /\ WorkersBusy /\ BranchesHeld

LEMMA StepUnstarted ==
  ASSUME IInv, Unstarted, NEW t \in Threads, Step(t)
  PROVE  Unstarted'
<1> SUFFICES ASSUME ctl'[Main] = "start" PROVE FALSE
  BY DEF Unstarted
<1>1. Turn(t) /\ ctl[t] \in BusyStates /\ Main \in Threads
  BY StepTurns, StepMoves, MainIsThread DEF Moves
<1>2. t # Main
  BY <1>1, OwnPlace
<1>3. ctl[Main] = "start"
  BY <1>1, <1>2, TurnControl
<1> QED
  BY <1>1, <1>2, <1>3 DEF Unstarted, Threads, BusyStates

LEMMA StepBranchControl ==
  ASSUME IInv, BranchControl, NEW t \in Threads, Step(t)
  PROVE  BranchControl'
<1> SUFFICES ASSUME NEW b \in Branches PROVE ctl'[b] \in BranchStates \cup BusyStates
  BY DEF BranchControl
<1>1. Turn(t) /\ ctl[t] \in BusyStates /\ b \in Threads /\ b # Main
  BY StepTurns, StepMoves, PlanAssumption DEF Moves, Threads, PlanAssumption
<1>2. CASE b # t
  BY <1>1, <1>2, TurnControl DEF BranchControl, BranchStates, BusyStates
<1>3. CASE b = t
  <2>1. ctl'[t] \in {"failed", "ready", "activity", "resolved", "prep", "fanout", "release", "done"}
    BY <1>1, <1>3, TurnControl
  <2> QED
    BY <1>3, <2>1 DEF BranchStates, BusyStates
<1> QED
  BY <1>2, <1>3

LEMMA StepNothingAhead ==
  ASSUME IInv, PlaceInv, KindInv, NothingAhead, NEW t \in Threads, Step(t)
  PROVE  NothingAhead'
<1>1. Turn(t) /\ ctl[t] \in BusyStates
  BY StepTurns, StepMoves DEF Moves
<1>2. \A r : StepReached(r) => StepReached(r)'
  BY StepForward, StepReachedStays
<1>3. ASSUME NEW x \in Items, item'[x] # "waiting" PROVE StepReached(x[1])'
  <2>1. CASE item[x] # "waiting"
    BY <1>2, <2>1 DEF NothingAhead
  <2>2. CASE item[x] = "waiting"
    <3>1. Cur(t) \in Mapped /\ FanOutItems(t)
      BY <1>1, <1>3, <2>2, TurnItems
    <3>2. x \in ItemsOf(Cur(t))
      BY <1>3, <2>2, <3>1, ClaimKeeps DEF FanOutItems
    <3>3. x[1] = Cur(t)
      BY <3>1, <3>2, MappedUnits
    <3>4. ctl'[t] = "fanout" /\ Cur(t)' = Cur(t) /\ pc'[t] = pc[t]
      BY <3>1, FanOutAt DEF FanOutItems
    <3>5. pc[t] \in DOMAIN Body[t]
      BY <3>4, StepType DEF StepOK, ControlOK, InStep
    <3>6. ASSUME NEW u \in Threads, NEW k \in DOMAIN Body[u], Body[u][k] = x[1]
          PROVE  Reached(u, k)'
      <4>1. u = t /\ k = pc[t]
        BY <3>3, <3>5, <3>6, CurReached
      <4> QED
        BY <3>4, <4>1 DEF Reached
    <3> QED
      BY <3>6 DEF StepReached
  <2> QED
    BY <2>1, <2>2
<1>4. ASSUME NEW s \in context' PROVE StepReached(s)'
  <2>1. CASE s \in context
    BY <1>2, <2>1 DEF NothingAhead
  <2>2. CASE s \notin context
    <3>1. s = Cur(t) /\ (TurnRecords(t) \/ TurnPasses(t))
      BY <1>1, <1>4, <2>2
         DEF Turn, TurnThrows, TurnAtomic, TurnRecords, TurnPasses, TurnStarts, TurnMap, TurnReleases,
             PrepCompletes, StartParallel, SkipRemainder, FinishSequence
    <3>2. ctl[t] \in {"resolved", "fanout", "release"}
      BY <3>1 DEF TurnRecords, TurnPasses
    <3>3. pc[t] \in DOMAIN Body[t]
      BY <3>2 DEF IInv, ControlOK, InStep
    <3> QED
      BY <1>2, <3>1, <3>2, <3>3, CurInside
  <2> QED
    BY <2>1, <2>2
<1> QED
  BY <1>3, <1>4 DEF NothingAhead

\* Two maps share no items.
LEMMA OtherItems ==
  ASSUME NEW s \in Mapped, NEW r \in Mapped, s # r
  PROVE  ItemsOf(s) \cap ItemsOf(r) = {}
BY DEF ItemsOf

LEMMA StepWorkersBusy ==
  ASSUME IInv, KindInv, WorkersBusy, NEW t \in Threads, Step(t)
  PROVE  WorkersBusy'
<1>0. item \in [Items -> {"waiting", "running", "done", "failed"}]
  BY DEF IInv, DataOK
<1>1. Turn(t) /\ ctl[t] \in BusyStates
  BY StepTurns, StepMoves DEF Moves
<1> DEFINE Dry(c, s, it) ==
      /\ c = "fanout" /\ s \in Mapped =>
           \/ \A x \in ItemsOf(s) : it[x] = "done"
           \/ \E x \in ItemsOf(s) : it[x] \in {"running", "failed"}
      /\ c = "release" => s \in Mapped /\ \A x \in ItemsOf(s) : it[x] = "done"
<1>2. \A u \in Threads : Dry(ctl[u], Cur(u), item)
  BY DEF WorkersBusy
<1> SUFFICES ASSUME NEW u \in Threads PROVE Dry(ctl'[u], Cur(u)', item')
  BY DEF WorkersBusy
<1>3. CASE u # t /\ ctl'[u] = ctl[u]
  <2>1. Cur(u)' = Cur(u)
    BY <1>1, <1>3, TurnControl
  <2>2. CASE UNCHANGED item
    BY <1>2, <1>3, <2>1, <2>2
  <2>3. CASE Cur(t) \in Mapped /\ FanOutItems(t) /\ (TurnMap(t) \/ PrepCompletes(t))
    <3>1. pc[t] \in DOMAIN Body[t]
      BY <2>3 DEF TurnMap, AtStep, PrepCompletes, IInv, ControlOK, InStep
    <3>2. ctl[u] \in {"fanout", "release"} => pc[u] \in DOMAIN Body[u]
      BY DEF IInv, ControlOK, InStep
    <3>3. ctl[u] \in {"fanout", "release"} => Cur(u) # Cur(t)
      BY <1>3, <3>1, <3>2, OneOwner
    <3>4. ctl[u] \in {"fanout", "release"} /\ Cur(u) \in Mapped =>
            \A x \in ItemsOf(Cur(u)) : item'[x] = item[x]
      <4> SUFFICES ASSUME ctl[u] \in {"fanout", "release"}, Cur(u) \in Mapped,
                          NEW x \in ItemsOf(Cur(u))
                   PROVE  item'[x] = item[x]
        OBVIOUS
      <4>1. x \notin ItemsOf(Cur(t)) /\ x \in Items
        BY <2>3, <3>3, OtherItems, MappedUnits
      <4> QED
        BY <2>3, <4>1, ClaimKeeps DEF FanOutItems
    <3> QED
      BY <1>2, <1>3, <2>1, <3>4
  <2> QED
    BY <1>1, <2>2, <2>3, TurnItems
<1>4. CASE u # t /\ ctl'[u] # ctl[u]
  BY <1>1, <1>4, TurnControl
<1>5. CASE u = t /\ ctl'[t] = "fanout"
  <2>1. CASE StartParallel(t)
    <3>1. Cur(t)' = Cur(t) /\ Cur(t) \notin Mapped
      BY <2>1, FanOutAt DEF StartParallel, Parallel, Mapped
    <3> QED
      BY <1>5, <3>1
  <2>2. CASE FanOutItems(t)
    <3>1. Cur(t)' = Cur(t) /\ item' = Claim(Cur(t), item)
      BY <2>2, FanOutAt DEF FanOutItems
    <3> QED
      BY <1>0, <1>5, <3>1, ClaimBusy
  <2>3. StartParallel(t) \/ FanOutItems(t)
    <3>0. ctl \in [Threads -> Controls]
      BY DEF IInv, ControlOK
    <3>1. CASE TurnMap(t)
      BY <3>0, <1>5, <3>1 DEF TurnMap, Drops
    <3> QED
      BY <1>1, <1>5, <3>1, TurnControl DEF PrepCompletes
  <2> QED
    BY <2>1, <2>2, <2>3
<1>6. CASE u = t /\ ctl'[t] = "release"
  <2>1. TurnReleases(t) /\ pc'[t] = pc[t]
    BY <1>1, <1>6, TurnControl
  <2>2. Cur(t)' = Cur(t) /\ item' = item /\ ctl[t] = "fanout" /\ Cur(t) \in Mapped
    BY <2>1 DEF TurnReleases, Cur
  <2>3. \A x \in ItemsOf(Cur(t)) : item[x] = "done"
    BY <1>2, <2>1, <2>2 DEF TurnReleases
  <2> QED
    BY <1>6, <2>2, <2>3
<1> QED
  BY <1>3, <1>4, <1>5, <1>6

LEMMA StepBranchesHeld ==
  ASSUME IInv, PlaceInv, BranchesHeld, NEW t \in Threads, Step(t)
  PROVE  BranchesHeld'
<1>1. Turn(t) /\ ctl[t] \in BusyStates
  BY StepTurns, StepMoves DEF Moves
<1> SUFFICES ASSUME NEW b \in Branches, ctl'[b] \in BusyStates \cup {"failed"}
             PROVE  \E u \in Threads : /\ pc'[u] \in DOMAIN Body[u] /\ b \in BranchesOf[Cur(u)']
                                       /\ ctl'[u] \in {"fanout", "failed"} \cup Ending
  BY DEF BranchesHeld
<1>2. CASE ctl[b] \in BusyStates \cup {"failed"}
  <2>1. PICK u \in Threads : /\ pc[u] \in DOMAIN Body[u] /\ b \in BranchesOf[Cur(u)]
                             /\ ctl[u] \in {"fanout", "failed"} \cup Ending
    BY <1>2 DEF BranchesHeld
  <2>2. CASE u # t
    <3>1. ~(StartParallel(t) /\ u \in BranchesOf[Cur(t)])
      <4> SUFFICES ASSUME StartParallel(t), u \in BranchesOf[Cur(t)] PROVE FALSE
        OBVIOUS
      <4>1. ctl[u] = "idle"
        BY StartsFresh DEF StartParallel
      <4> QED
        BY <2>1, <4>1 DEF Ending
    <3>2. ctl'[u] = ctl[u] /\ pc'[u] = pc[u] /\ Cur(u)' = Cur(u)
      BY <1>1, <2>2, <3>1, TurnControl
    <3> QED
      BY <2>1, <3>2
  <2>3. CASE u = t
    <3>1. ctl[t] = "fanout" /\ Cur(t) \in Parallel /\ Cur(t) \notin Mapped /\ Cur(t) \notin Atomic
      <4>1. Cur(t) \in Steps
        BY <2>1, <2>3, BodyType DEF Cur
      <4>2. Cur(t) \in Parallel
        BY <2>1, <2>3, <4>1, PlanAssumption DEF PlanAssumption
      <4> QED
        BY <1>1, <2>1, <2>3, <4>2 DEF BusyStates, Ending, Parallel, Mapped, Atomic
    <3>2. ~TurnPasses(t)
      <4> SUFFICES ASSUME TurnPasses(t) PROVE FALSE
        OBVIOUS
      <4>1. ctl[b] \in {"done", "skipped"}
        BY <2>1, <2>3, <3>1 DEF TurnPasses
      <4> QED
        BY <1>2, <4>1 DEF BusyStates
    <3>3. Drops(t) /\ pc'[t] = pc[t] /\ ctl'[t] = IF t = Main THEN "unwind" ELSE "failed"
      BY <1>1, <3>1, <3>2, TurnControl
         DEF TurnAtomic, TurnRecords, TurnStarts, TurnMap, TurnReleases, PrepCompletes, StartParallel,
             SkipRemainder, FinishSequence, AtStep
    <3> QED
      BY <2>1, <2>3, <3>3 DEF Cur, Ending
  <2> QED
    BY <2>2, <2>3
<1>3. CASE ctl[b] \notin BusyStates \cup {"failed"}
  <2>1. b # t /\ b \in Threads
    BY <1>1, <1>3 DEF Threads
  <2>2. StartParallel(t) /\ b \in BranchesOf[Cur(t)]
    BY <1>1, <1>3, <2>1, TurnControl
  <2>3. ctl'[t] = "fanout" /\ Cur(t)' = Cur(t) /\ pc'[t] = pc[t] /\ pc[t] \in DOMAIN Body[t]
    BY <2>2, FanOutAt DEF StartParallel, AtStep
  <2> QED
    BY <2>2, <2>3
<1> QED
  BY <1>2, <1>3

LEMMA StepStand ==
  ASSUME IInv, PlaceInv, KindInv, StandInv, NEW t \in Threads, Step(t)
  PROVE  StandInv'
BY StepUnstarted, StepBranchControl, StepNothingAhead, StepWorkersBusy, StepBranchesHeld DEF StandInv

\* What the other turns leave of ctl and pc.
LEMMA OtherControl ==
  ASSUME IInv, Start \/ TurnJumps \/ TurnRests
  PROVE  /\ UNCHANGED <<item, context>>
         /\ \A u \in Threads : u # Main => ctl'[u] = ctl[u] /\ pc'[u] = pc[u] /\ Cur(u)' = Cur(u)
         /\ \/ Start /\ ctl[Main] = "start" /\ ctl'[Main] = "ready" /\ pc'[Main] = pc[Main]
            \/ TurnJumps /\ ctl[Main] \in AtGate /\ ctl'[Main] = "ready"
            \/ /\ SameUnits(lc, lc') /\ pc'[Main] = pc[Main] /\ Cur(Main)' = Cur(Main)
               /\ \/ ctl'[Main] = ctl[Main]
                  \/ ctl[Main] \in AtGate /\ ctl'[Main] \in {"review", "unwind"}
                  \/ ctl[Main] \in AtGate \cup Ending /\ ctl'[Main] \in Ending
<1>0. ctl \in [Threads -> Controls] /\ pc \in [Threads -> Nat] /\ Main \in Threads
  BY MainIsThread DEF IInv, ControlOK
<1>1. CASE Start
  BY <1>0, <1>1 DEF Start, Cur
<1>2. CASE TurnJumps
  BY <1>0, <1>2 DEF TurnJumps, JumpTo, Cur
<1>3. CASE TurnRests
  BY <1>0, <1>3 DEF TurnRests, Cur
<1> QED
  BY <1>1, <1>2, <1>3

LEMMA OtherStand ==
  ASSUME IInv, PlaceInv, StandInv, Start \/ Gate \/ Unwind \/ Signal \/ UNCHANGED vars
  PROVE  StandInv'
<1>1. Start \/ TurnJumps \/ TurnRests
  BY OtherTurns
<1>2. /\ \A b \in Branches : b \in Threads /\ b # Main
      /\ \A u \in Threads : u # Main => u \in Branches
      /\ Main \in Threads
  BY PlanAssumption DEF PlanAssumption, Threads
<1>3. UNCHANGED <<item, context>> /\ \A b \in Branches : ctl'[b] = ctl[b]
  BY <1>1, <1>2, OtherControl
<1>4. Unstarted'
  <2> SUFFICES ASSUME ctl'[Main] = "start"
               PROVE  ctl[Main] = "start" /\ SameUnits(lc, lc')
    BY <1>3 DEF StandInv, Unstarted, SameUnits
  <2> QED
    BY <1>1, OtherControl DEF Ending
<1>5. BranchControl'
  BY <1>3 DEF StandInv, BranchControl
<1>6. NothingAhead'
  <2>1. \A u \in Threads : Forward(u)
    BY OtherForward
  <2>2. \A r : StepReached(r) => StepReached(r)'
    BY <2>1, StepReachedStays
  <2> QED
    BY <1>3, <2>2 DEF StandInv, NothingAhead
<1>7. WorkersBusy'
  <2> SUFFICES ASSUME NEW u \in Threads, ctl'[u] \in {"fanout", "release"}
               PROVE  ctl[u] = ctl'[u] /\ Cur(u)' = Cur(u)
    BY <1>3 DEF StandInv, WorkersBusy
  <2> QED
    BY <1>1, <1>3, OtherControl DEF Ending
<1>8. BranchesHeld'
  <2> SUFFICES ASSUME NEW u \in Threads, ctl[u] \in {"fanout", "failed"} \cup Ending
               PROVE  /\ ctl'[u] \in {"fanout", "failed"} \cup Ending
                      /\ pc'[u] = pc[u] /\ Cur(u)' = Cur(u)
    BY <1>3 DEF StandInv, BranchesHeld
  <2> QED
    BY <1>1, OtherControl DEF Ending, AtGate
<1> QED
  BY <1>4, <1>5, <1>6, <1>7, <1>8 DEF StandInv

\* An item that settles touches its own map only.
LEMMA ItemTurns ==
  ASSUME IInv, NEW x \in Items, ItemCompletes(x) \/ ItemFails(x)
  PROVE  /\ UNCHANGED <<pc, ctl, context>> /\ item[x] = "running"
         /\ x[1] \in Mapped /\ x \in ItemsOf(x[1])
         /\ \A y \in Items : y \notin ItemsOf(x[1]) => item'[y] = item[y]
         /\ \A y \in Items : y # x =>
              /\ item[y] # "waiting" => item'[y] = item[y]
              /\ item[y] = "waiting" => item'[y] \in {"waiting", "running", "failed"}
         /\ item'[x] \in {"done", "failed"}
         /\ ItemCompletes(x) => item'[x] = "done"
<1>0. item \in [Items -> {"waiting", "running", "done", "failed"}] /\ x \in Units
  BY DEF IInv, DataOK, Units
<1>1. x[1] \in Mapped /\ x \in ItemsOf(x[1])
  BY <1>0, UnitKinds
<1>2. CASE ItemCompletes(x)
  <2> DEFINE f == [item EXCEPT ![x] = "done"]
  <2>1. item' = Claim(x[1], f)
    BY <1>2 DEF ItemCompletes
  <2>2. f[x] = "done" /\ \A y \in Items : y # x => f[y] = item[y]
    BY <1>0
  <2> HIDE DEF f
  <2>3. item'[x] = "done"
    BY <2>1, <2>2, ClaimKeeps
  <2>4. \A y \in Items : y \notin ItemsOf(x[1]) => item'[y] = item[y]
    BY <1>1, <2>1, <2>2, ClaimKeeps
  <2>5. \A y \in Items : y # x =>
              /\ item[y] # "waiting" => item'[y] = item[y]
              /\ item[y] = "waiting" => item'[y] \in {"waiting", "running", "failed"}
    BY <2>1, <2>2, ClaimKeeps
  <2> QED
    BY <1>1, <1>2, <2>3, <2>4, <2>5 DEF ItemCompletes
<1>3. CASE ItemFails(x)
  <2>1. item' = [item EXCEPT ![x] = "failed"]
    BY <1>3 DEF ItemFails
  <2>2. item'[x] = "failed" /\ \A y \in Items : y # x => item'[y] = item[y]
    BY <1>0, <2>1
  <2>3. ~ItemCompletes(x) \/ item'[x] = "done"
    BY <1>2
  <2> QED
    BY <1>1, <1>3, <2>2, <2>3 DEF ItemFails
<1> QED
  BY <1>2, <1>3

LEMMA ItemStand ==
  ASSUME IInv, PlaceInv, StandInv, NEW x \in Items, ItemCompletes(x) \/ ItemFails(x)
  PROVE  StandInv'
<1>0. item \in [Items -> {"waiting", "running", "done", "failed"}]
  BY DEF IInv, DataOK
<1>1. UNCHANGED <<pc, ctl, context>> /\ item[x] = "running"
  BY ItemTurns
<1>2. Unstarted'
  BY <1>1 DEF StandInv, Unstarted
<1>3. BranchControl' /\ BranchesHeld'
  BY <1>1 DEF StandInv, BranchControl, BranchesHeld, Cur
<1>4. NothingAhead'
  <2>1. \A r : StepReached(r) => StepReached(r)'
    BY <1>1 DEF StepReached, Reached
  <2>2. ASSUME NEW y \in Items, item'[y] # "waiting" PROVE StepReached(y[1])
    <3>1. CASE y \in ItemsOf(x[1])
      <4>1. y[1] = x[1]
        BY <3>1, ItemTurns, MappedUnits
      <4> QED
        BY <1>1, <4>1 DEF StandInv, NothingAhead
    <3>2. CASE y \notin ItemsOf(x[1])
      BY <2>2, <3>2, ItemTurns DEF StandInv, NothingAhead
    <3> QED
      BY <3>1, <3>2
  <2> QED
    BY <1>1, <2>1, <2>2 DEF StandInv, NothingAhead
<1>5. WorkersBusy'
  <2> SUFFICES ASSUME NEW t \in Threads
               PROVE  /\ ctl[t] = "fanout" /\ Cur(t) \in Mapped =>
                           \/ \A y \in ItemsOf(Cur(t)) : item'[y] = "done"
                           \/ \E y \in ItemsOf(Cur(t)) : item'[y] \in {"running", "failed"}
                      /\ ctl[t] = "release" =>
                           Cur(t) \in Mapped /\ \A y \in ItemsOf(Cur(t)) : item'[y] = "done"
    BY <1>1 DEF WorkersBusy, Cur
  <2>1. CASE Cur(t) \in Mapped /\ Cur(t) # x[1]
    <3>1. \A y \in ItemsOf(Cur(t)) : item'[y] = item[y]
      <4> SUFFICES ASSUME NEW y \in ItemsOf(Cur(t)) PROVE item'[y] = item[y]
        OBVIOUS
      <4>1. y \in Items /\ y \notin ItemsOf(x[1])
        BY <2>1, ItemTurns, MappedUnits
      <4> QED
        BY <4>1, ItemTurns
    <3> QED
      BY <2>1, <3>1 DEF StandInv, WorkersBusy
  <2>2. CASE Cur(t) = x[1]
    <3>1. ctl[t] # "release"
      BY <1>1, <2>2, ItemTurns DEF StandInv, WorkersBusy
    <3>2. CASE ItemFails(x)
      <4>1. item'[x] = "failed"
        BY <1>0, <3>2 DEF ItemFails
      <4> QED
        BY <2>2, <3>1, <4>1, ItemTurns
    <3>3. CASE ItemCompletes(x)
      <4> DEFINE f == [item EXCEPT ![x] = "done"]
      <4>1. f \in [Items -> {"waiting", "running", "done", "failed"}]
        BY <1>0
      <4>2. item' = Claim(Cur(t), f)
        BY <2>2, <3>3 DEF ItemCompletes
      <4>3. Cur(t) \in Mapped
        BY <2>2, ItemTurns
      <4> HIDE DEF f
      <4>4. \/ \A y \in ItemsOf(Cur(t)) : Claim(Cur(t), f)[y] = "done"
            \/ \E y \in ItemsOf(Cur(t)) : Claim(Cur(t), f)[y] \in {"running", "failed"}
        BY <4>1, <4>3, ClaimBusy
      <4> QED
        BY <3>1, <4>2, <4>4
    <3> QED
      BY <3>2, <3>3
  <2>3. CASE Cur(t) \notin Mapped
    BY <2>3 DEF StandInv, WorkersBusy
  <2> QED
    BY <2>1, <2>2, <2>3
<1> QED
  BY <1>2, <1>3, <1>4, <1>5 DEF StandInv

LEMMA InitStand == Init => StandInv
<1> SUFFICES ASSUME Init PROVE StandInv
  OBVIOUS
<1>1. /\ Main \in Threads /\ \A u \in Threads : ctl[u] = IF u = Main THEN "start" ELSE "idle"
      /\ \A b \in Branches : b \in Threads /\ b # Main
  BY MainIsThread, PlanAssumption DEF Init, PlanAssumption, Threads
<1>2. Unstarted
  BY <1>1 DEF Init, Unstarted, NewLifecycle
<1>3. BranchControl /\ BranchesHeld
  BY <1>1 DEF BranchControl, BranchesHeld, BranchStates, BusyStates
<1>4. NothingAhead /\ WorkersBusy
  BY <1>1 DEF Init, NothingAhead, WorkersBusy
<1> QED
  BY <1>2, <1>3, <1>4 DEF StandInv

LEMMA NextStand ==
  ASSUME IInv, PlaceInv, KindInv, StandInv, [Next]_vars
  PROVE  StandInv' /\ KindInv'
<1>1. CASE \E t \in Threads : Step(t)
  BY <1>1, StepStand, StepKind
<1>2. CASE ItemSettles
  BY <1>2, ItemStand, OtherKind DEF ItemSettles
<1>3. CASE Start \/ Gate \/ Unwind \/ Signal \/ UNCHANGED vars
  BY <1>3, OtherStand, OtherKind
<1> QED
  BY <1>1, <1>2, <1>3 DEF Next, Closed
-----------------------------------------------------------------------------
(* The units that a run still owes *)

\* Thread u has step r ahead of it, or is at it; a block that was entered is
\* ahead of its branches only.
HasAhead(u, r) ==
  \E k \in DOMAIN Body[u] :
    /\ k >= pc[u] /\ r \in Nested({Body[u][k]})
    /\ k = pc[u] =>
         /\ ctl[u] \notin AtGate \cup {"resolved"}
         /\ ctl[u] \in {"activity", "prep", "fanout", "release"} => r = Body[u][k]
Awaits(r) == \E u \in Threads : Live(u) /\ HasAhead(u, r)

\* A sequence at work has yet to begin a step that r is, or lies below.
Coming(r) ==
  \E u \in Threads : Alive(u) /\ \E k \in DOMAIN Body[u] :
    ~Reached(u, k) /\ r \in Nested({Body[u][k]})

FromInput(r) == r \in Mapped => Over[r] = "input"
Counted(P, s) == \A x \in Items : x[1] = s /\ item[x] # "done" => x \in P

\* P holds the units that are counted in the total and not completed.
Tally(l, P) ==
  P \in SUBSET Units /\ l.totalUnits = l.completedUnits + Cardinality(P)

\* Nothing is owed that is done or that nobody will come to ...
Owed(P) ==
  \A x \in P : /\ x \in Items => item[x] # "done"
               /\ Awaits(x[1])
               /\ FromInput(x[1]) \/ StepReached(x[1])

\* ... and all that is to come or under way is.
Covers(P) == \A x \in Units : Coming(x[1]) /\ FromInput(x[1]) => x \in P
Working(P) ==
  /\ \A u \in Threads : ctl[u] = "activity" => <<Cur(u), 0>> \in P
  /\ \A u \in Threads : ctl[u] = "prep" => Counted(P, Cur(u))
  /\ \A x \in Items : item[x] # "waiting" => Counted(P, x[1])

Outstanding(P) == Tally(lc, P) /\ Owed(P) /\ Covers(P) /\ Working(P)
ProgressInv == \E P : Outstanding(P)
-----------------------------------------------------------------------------
(* Counting *)

LEMMA TallyFinite ==
  ASSUME NEW l, NEW P, Tally(l, P)
  PROVE  IsFiniteSet(P) /\ Cardinality(P) \in Nat
BY UnitsFinite, FS_Subset, FS_CardinalityType DEF Tally

LEMMA TallySame ==
  ASSUME NEW l, NEW m, NEW P, Tally(l, P), SameUnits(l, m)
  PROVE  Tally(m, P)
BY DEF Tally, SameUnits

LEMMA TallyDone ==
  ASSUME NEW l \in LifecycleState, NEW m, NEW P, NEW x \in P, Tally(l, P),
         m.totalUnits = l.totalUnits, m.completedUnits = l.completedUnits + 1
  PROVE  Tally(m, P \ {x})
<1>1. IsFiniteSet(P) /\ Cardinality(P) \in Nat
  BY TallyFinite
<1>2. Cardinality(P \ {x}) = Cardinality(P) - 1
  BY <1>1, FS_RemoveElement
<1>3. l.completedUnits \in Nat
  BY DEF LifecycleState
<1> QED
  BY <1>1, <1>2, <1>3 DEF Tally

\* A skip drops what it leaves out: the total stays above what is completed.
LEMMA TallySkips ==
  ASSUME NEW l \in LifecycleState, NEW P, Tally(l, P), NEW R \in SUBSET P
  PROVE  Tally(SkipUnits(l, Cardinality(R)), P \ R)
<1> DEFINE n == Cardinality(R)
           m == SkipUnits(l, n)
<1>1. IsFiniteSet(P) /\ Cardinality(P) \in Nat
  BY TallyFinite
<1>2. IsFiniteSet(R) /\ n \in Nat /\ n <= Cardinality(P)
  BY <1>1, FS_Subset, FS_CardinalityType
<1>3. Cardinality(P \ R) = Cardinality(P) - n
  <2>1. Cardinality(P \ R) = Cardinality(P) - Cardinality(P \cap R)
    BY <1>1, FS_Difference
  <2>2. P \cap R = R
    OBVIOUS
  <2> QED
    BY <2>1, <2>2
<1> HIDE DEF n
<1>4. l.completedUnits \in Nat /\ l.totalUnits = l.completedUnits + Cardinality(P)
  BY DEF LifecycleState, Tally
<1>5. /\ m.completedUnits = l.completedUnits
      /\ m.totalUnits = IF n = 0 THEN l.totalUnits
                        ELSE IF l.totalUnits - n > l.completedUnits THEN l.totalUnits - n
                        ELSE l.completedUnits
  BY DEF SkipUnits, LifecycleState
<1>6. m.totalUnits = m.completedUnits + Cardinality(P \ R)
  BY <1>1, <1>2, <1>3, <1>4, <1>5
<1> QED
  BY <1>6 DEF Tally, n

LEMMA TallyAdds ==
  ASSUME NEW l \in LifecycleState, NEW P, Tally(l, P), NEW s \in Mapped, ItemsOf(s) \cap P = {}
  PROVE  Tally(AddUnits(l, Size[s]), P \cup ItemsOf(s))
<1>1. IsFiniteSet(P) /\ Cardinality(P) \in Nat
  BY TallyFinite
<1>2. Size[s] \in Nat
  BY PlanAssumption DEF PlanAssumption, Mapped
<1>3. IsFiniteSet(ItemsOf(s)) /\ Cardinality(ItemsOf(s)) = Size[s]
  BY <1>2, ItemsSized DEF ItemsOf
<1>4. Cardinality(P \cup ItemsOf(s)) = Cardinality(P) + Size[s]
  <2>1. Cardinality(P \cup ItemsOf(s)) =
          Cardinality(P) + Cardinality(ItemsOf(s)) - Cardinality(P \cap ItemsOf(s))
    BY <1>1, <1>3, FS_Union
  <2>2. P \cap ItemsOf(s) = {}
    OBVIOUS
  <2>3. Cardinality(P \cap ItemsOf(s)) = 0
    BY <2>2, FS_EmptySet
  <2> QED
    BY <1>1, <1>2, <1>3, <2>1, <2>3
<1>5. /\ AddUnits(l, Size[s]).totalUnits = l.totalUnits + Size[s]
      /\ AddUnits(l, Size[s]).completedUnits = l.completedUnits
      /\ l.completedUnits \in Nat
  BY DEF AddUnits, LifecycleState
<1>6. P \cup ItemsOf(s) \in SUBSET Units
  BY MappedUnits DEF Tally
<1> QED
  BY <1>1, <1>2, <1>4, <1>5, <1>6 DEF Tally
-----------------------------------------------------------------------------
(* What is to come *)

LEMMA ComingUnreached ==
  ASSUME IInv, PlaceInv, NEW r, Coming(r)
  PROVE  ~StepReached(r)
BY ReachedBelow DEF Coming

LEMMA NestedSlice ==
  ASSUME NEW t, NEW i, NEW j, NEW r
  PROVE  r \in Nested(Slice(t, i, j)) <=>
           \E k \in (i..j) \cap DOMAIN Body[t] : r \in Nested({Body[t][k]})
<1>1. r \in Nested(Slice(t, i, j)) <=> \E s \in Slice(t, i, j) : r \in Nested({s})
  BY NestedEach
<1> QED
  BY <1>1 DEF Slice

LEMMA RestOfBody ==
  ASSUME NEW t \in Threads, NEW i \in Nat, NEW k \in DOMAIN Body[t], k >= i
  PROVE  k \in i..Len(Body[t])
<1>1. Body[t] \in Seq(Steps)
  BY BodyType
<1>2. k \in 1..Len(Body[t])
  BY <1>1
<1> QED
  BY <1>1, <1>2

\* The units a skip leaves out are owed, and nothing else below its steps is.
LEMMA SkippedOwed ==
  ASSUME IInv, PlaceInv, NothingAhead, NEW P \in SUBSET Units, Owed(P), Covers(P),
         NEW S, Whole(S), \A r \in Nested(S) : Coming(r)
  PROVE  /\ UnitsOf(S) \subseteq P
         /\ \A x \in P : x \in UnitsOf(S) <=> x[1] \in Nested(S)
         /\ \A x \in UnitsOf(S) : x[1] \in Nested(S) /\ ~StepReached(x[1])
<1>1. \A r \in Nested(S) : ~StepReached(r)
  BY ComingUnreached
<1>2. ASSUME NEW x \in UnitsOf(S) PROVE x \in P
  <2>1. x \in Units /\ x[1] \in Nested(S) /\ (x[1] \in Mapped => OverKnown(x[1]))
    BY DEF UnitsOf, Units
  <2>2. FromInput(x[1])
    <3> SUFFICES ASSUME x[1] \in Mapped, Over[x[1]] # "input" PROVE FALSE
      BY DEF FromInput
    <3>1. Over[x[1]] \in Nested(S) /\ Over[x[1]] \in context
      BY <2>1 DEF Whole, OverKnown
    <3> QED
      BY <1>1, <3>1 DEF NothingAhead
  <2> QED
    BY <2>1, <2>2 DEF Covers
<1>3. ASSUME NEW x \in P, x[1] \in Nested(S) PROVE x \in UnitsOf(S)
  <2>1. FromInput(x[1])
    BY <1>1, <1>3 DEF Owed
  <2> QED
    BY <1>3, <2>1 DEF UnitsOf, Units, FromInput, OverKnown
<1> QED
  BY <1>1, <1>2, <1>3 DEF UnitsOf

\* A skip of a step's thread finds its own units owed.
LEMMA SkipTally ==
  ASSUME NEW l \in LifecycleState, NEW P, Tally(l, P), NEW S, UnitsOf(S) \subseteq P
  PROVE  Tally(SkipUnits(l, TotalUnitsOf(S)), P \ UnitsOf(S))
BY TallySkips DEF TotalUnitsOf
-----------------------------------------------------------------------------
(* What a turn leaves to come, and who is to come to it *)

\* A step that is to come after a turn of t was to come before it.
LEMMA StepComing ==
  ASSUME IInv, PlaceInv, NEW t \in Threads, Step(t), NEW u \in Threads, NEW k \in DOMAIN Body[u],
         Alive(u)', ~Reached(u, k)'
  PROVE  \/ Alive(u) /\ ~Reached(u, k)
         \/ StartParallel(t) /\ u # t /\ u \in BranchesOf[Cur(t)] /\ ctl'[u] = "ready"
<1>1. Turn(t) /\ ctl[t] \in BusyStates
  BY StepTurns, StepMoves DEF Moves
<1>2. ~Reached(u, k)
  <2>1. k \in Nat
    BY BodyType
  <2> QED
    BY <2>1, StepForward DEF Forward
<1>3. CASE u = t
  BY <1>1, <1>2, <1>3 DEF Alive
<1>4. CASE u # t
  <2>1. \/ ctl'[u] = ctl[u]
        \/ StartParallel(t) /\ u \in BranchesOf[Cur(t)] /\ ctl'[u] \in {"ready", "skipped"}
    BY <1>1, <1>4, TurnControl
  <2> QED
    BY <1>2, <1>4, <2>1 DEF Alive, BusyStates, AtGate
<1> QED
  BY <1>3, <1>4

\* What a block has below it is to come when its thread is about to begin it.
LEMMA BlockComing ==
  ASSUME IInv, NEW t \in Threads, AtStep(t), NEW r \in Nested({Cur(t)})
  PROVE  Coming(r)
<1>1. Alive(t) /\ ~Reached(t, pc[t]) /\ pc[t] \in DOMAIN Body[t]
  BY DEF AtStep, Alive, BusyStates, Reached, IInv, ControlOK
<1> QED
  BY <1>1 DEF Coming, Cur

LEMMA BranchBelow ==
  ASSUME IInv, NEW t \in Threads, pc[t] \in DOMAIN Body[t], NEW r
  PROVE  r \in Nested({Cur(t)}) <=>
           \/ r = Cur(t)
           \/ \E b \in BranchesOf[Cur(t)] :
                b \in Branches /\ \E m \in DOMAIN Body[b] : r \in Nested({Body[b][m]})
<1>1. Placed(Cur(t))
  BY DEF Placed, Cur
<1> QED
  BY <1>1, NestedBranch

LEMMA StepComingBack ==
  ASSUME IInv, PlaceInv, NEW t \in Threads, Step(t), NEW r, Coming(r)'
  PROVE  Coming(r)
<1>1. PICK u \in Threads : Alive(u)' /\ \E k \in DOMAIN Body[u] :
        ~Reached(u, k)' /\ r \in Nested({Body[u][k]})
  BY DEF Coming
<1>2. PICK k \in DOMAIN Body[u] : ~Reached(u, k)' /\ r \in Nested({Body[u][k]})
  BY <1>1
<1>3. CASE Alive(u) /\ ~Reached(u, k)
  BY <1>2, <1>3 DEF Coming
<1>4. CASE StartParallel(t) /\ u # t /\ u \in BranchesOf[Cur(t)]
  <2>1. AtStep(t) /\ pc[t] \in DOMAIN Body[t] /\ u \in Branches
    <3>1. AtStep(t) /\ pc[t] \in DOMAIN Body[t]
      BY <1>4 DEF StartParallel, AtStep
    <3>2. Cur(t) \in Steps
      BY <3>1, BodyType DEF Cur
    <3> QED
      BY <1>4, <3>1, <3>2, PlanAssumption DEF PlanAssumption
  <2>2. r \in Nested({Cur(t)})
    BY <1>2, <1>4, <2>1, BranchBelow
  <2> QED
    BY <2>1, <2>2, BlockComing
<1> QED
  BY <1>1, <1>2, <1>3, <1>4, StepComing

LEMMA AheadOthers ==
  ASSUME IInv, PlaceInv, NEW t \in Threads, Step(t), NEW u \in Threads, u # t, NEW r,
         Live(u), HasAhead(u, r)
  PROVE  Live(u)' /\ HasAhead(u, r)'
<1>1. Turn(t) /\ ctl[t] \in BusyStates
  BY StepTurns, StepMoves DEF Moves
<1>2. ~(StartParallel(t) /\ u \in BranchesOf[Cur(t)])
  <2> SUFFICES ASSUME StartParallel(t), u \in BranchesOf[Cur(t)] PROVE FALSE
    OBVIOUS
  <2>1. ctl[u] = "idle"
    BY StartsFresh DEF StartParallel
  <2> QED
    BY <2>1 DEF Live, Alive, BusyStates, AtGate, Ending
<1>3. ctl'[u] = ctl[u] /\ pc'[u] = pc[u]
  BY <1>1, <1>2, TurnControl
<1> QED
  BY <1>3 DEF Live, Alive, HasAhead

LEMMA AheadDrops ==
  ASSUME IInv, NEW t \in Threads, Drops(t), NEW r, HasAhead(t, r)
  PROVE  Live(t)' /\ HasAhead(t, r)'
<1>1. pc'[t] = pc[t] /\ ctl'[t] \in {"unwind", "failed"}
  BY DEF Drops, IInv, ControlOK
<1> QED
  BY <1>1 DEF Live, Ending, HasAhead, AtGate

LEMMA AheadPasses ==
  ASSUME IInv, NEW t \in Threads, Passes(t), ctl[t] \in {"resolved", "fanout", "release"},
         NEW r, HasAhead(t, r), r # Cur(t) \/ ctl[t] = "resolved"
  PROVE  Live(t)' /\ HasAhead(t, r)'
<1>0. pc[t] \in Nat /\ \A k \in DOMAIN Body[t] : k \in Nat
  BY BodyType DEF IInv, ControlOK
<1>1. \/ pc'[t] = pc[t] + 1 /\ ctl'[t] = "ready"
      \/ pc'[t] = pc[t] /\ ctl'[t] = "poll"
  BY DEF Passes, IInv, ControlOK
<1>2. PICK k \in DOMAIN Body[t] :
        /\ k >= pc[t] /\ r \in Nested({Body[t][k]})
        /\ k = pc[t] => ctl[t] # "resolved" /\ r = Body[t][k]
  BY DEF HasAhead
<1>3. k # pc[t]
  BY <1>2 DEF Cur
<1>4. k >= pc[t] + 1
  BY <1>0, <1>2, <1>3
<1>5. HasAhead(t, r)'
  <2>1. k >= pc'[t] /\ (k = pc'[t] => ctl'[t] = "ready")
    BY <1>0, <1>1, <1>4
  <2> QED
    BY <1>2, <2>1 DEF HasAhead, AtGate
<1> QED
  BY <1>1, <1>5 DEF Live, Alive, BusyStates, AtGate

\* A step whose result is there is owed no more.
LEMMA AheadResolves ==
  ASSUME IInv, NEW t \in Threads, TurnAtomic(t), NEW r, HasAhead(t, r), r # Cur(t)
  PROVE  Live(t)' /\ HasAhead(t, r)'
<1>1. pc'[t] = pc[t] /\ ctl'[t] = "resolved"
  BY DEF TurnAtomic, IInv, ControlOK
<1>2. PICK k \in DOMAIN Body[t] :
        k >= pc[t] /\ r \in Nested({Body[t][k]}) /\ (k = pc[t] => r = Body[t][k])
  BY DEF HasAhead, TurnAtomic
<1> QED
  BY <1>1, <1>2 DEF HasAhead, Cur, Live, Alive, BusyStates

\* A step that has no branches has only itself below it.
LEMMA AheadWaits ==
  ASSUME IInv, NEW t \in Threads, ctl[t] \in BusyStates, pc[t] \in DOMAIN Body[t],
         Cur(t) \notin Parallel, pc'[t] = pc[t],
         ctl'[t] \in {"activity", "prep", "fanout", "release"}, NEW r, HasAhead(t, r)
  PROVE  Live(t)' /\ HasAhead(t, r)'
<1>1. Cur(t) \in Steps
  BY BodyType DEF Cur
<1>2. BranchesOf[Cur(t)] = {}
  BY <1>1, PlanAssumption DEF PlanAssumption
<1>3. \A q : q \in Nested({Cur(t)}) => q = Cur(t)
  BY <1>2, BranchBelow
<1> QED
  BY <1>3 DEF HasAhead, Cur, Live, Alive, BusyStates, AtGate

LEMMA AheadSplits ==
  ASSUME IInv, PlaceInv, NEW t \in Threads, StartParallel(t), NEW r, r \notin Parallel,
         HasAhead(t, r)
  PROVE  \/ \E u \in Threads : Live(u)' /\ HasAhead(u, r)'
         \/ \E b \in BranchesOf[Cur(t)] :
              b # t /\ ctl'[b] = "skipped" /\ \E m \in DOMAIN Body[b] : r \in Nested({Body[b][m]})
<1>0. ctl \in [Threads -> Controls] /\ pc \in [Threads -> Nat] /\ pc[t] \in DOMAIN Body[t] /\ AtStep(t)
  BY DEF IInv, ControlOK, StartParallel, AtStep
<1>1. PICK out \in SUBSET (BranchesOf[Cur(t)] \cap Gated) :
        ctl' = [v \in Threads |-> IF v = t THEN "fanout"
                                  ELSE IF v \in out THEN "skipped"
                                  ELSE IF v \in BranchesOf[Cur(t)] THEN "ready"
                                  ELSE ctl[v]]
  BY DEF StartParallel
<1>2. pc' = pc /\ ctl'[t] = "fanout" /\ Cur(t) \in Parallel
  BY <1>1 DEF StartParallel
<1>3. PICK k \in DOMAIN Body[t] : k >= pc[t] /\ r \in Nested({Body[t][k]})
  BY DEF HasAhead
<1>4. CASE k # pc[t]
  <2>1. HasAhead(t, r)'
    BY <1>2, <1>3, <1>4 DEF HasAhead
  <2> QED
    BY <1>2, <2>1 DEF Live, Alive, BusyStates
<1>5. CASE k = pc[t]
  <2>1. r \in Nested({Cur(t)}) /\ r # Cur(t)
    BY <1>2, <1>3, <1>5 DEF Cur
  <2>2. PICK b \in BranchesOf[Cur(t)] :
          b \in Branches /\ \E m \in DOMAIN Body[b] : r \in Nested({Body[b][m]})
    BY <1>0, <2>1, BranchBelow
  <2>3. PICK m \in DOMAIN Body[b] : r \in Nested({Body[b][m]})
    BY <2>2
  <2>4. b \in Threads /\ ctl[b] = "idle" /\ pc[b] = 1
    BY <1>0, <2>2, StartsFresh DEF Threads
  <2>5. b # t
    BY <1>0, <2>4 DEF AtStep
  <2>6. ctl'[b] \in {"skipped", "ready"}
    BY <1>1, <2>4, <2>5
  <2>7. CASE ctl'[b] = "ready"
    <3>1. m >= 1
      BY <2>4, BodyType DEF Threads
    <3>2. HasAhead(b, r)'
      BY <1>2, <2>3, <2>4, <2>7, <3>1 DEF HasAhead, AtGate
    <3> QED
      BY <2>4, <2>7, <3>2 DEF Live, Alive, BusyStates
  <2> QED
    BY <2>3, <2>5, <2>6, <2>7
<1> QED
  BY <1>4, <1>5

PcInv == \A u \in Threads : pc[u] >= 1

\* What was awaited still is, but for what the turn does or leaves out.
LEMMA StepAwaits ==
  ASSUME IInv, PlaceInv, KindInv, PcInv, NEW t \in Threads, Step(t), NEW r, r \notin Parallel,
         Awaits(r)
  PROVE  \/ Awaits(r)'
         \/ r = Cur(t) /\ (TurnAtomic(t) \/ TurnPasses(t))
         \/ SkipRemainder(t) /\ r \in Nested(Slice(t, pc[t], Len(Body[t])))
         \/ /\ StartParallel(t)
            /\ \E b \in BranchesOf[Cur(t)] :
                 b # t /\ ctl'[b] = "skipped" /\ \E m \in DOMAIN Body[b] : r \in Nested({Body[b][m]})
<1>0. Turn(t) /\ ctl[t] \in BusyStates /\ pc[t] \in Nat
  BY StepTurns, StepMoves DEF Moves, IInv, ControlOK
<1>1. PICK u \in Threads : Live(u) /\ HasAhead(u, r)
  BY DEF Awaits
<1>2. CASE u # t
  BY <1>1, <1>2, AheadOthers DEF Awaits
<1>3. CASE u = t
  <2>1. CASE Drops(t)
    BY <1>1, <1>3, <2>1, AheadDrops DEF Awaits
  <2>2. CASE (TurnRecords(t) \/ TurnPasses(t)) /\ Passes(t)
    <3>1. ctl[t] \in {"resolved", "fanout", "release"} /\ (TurnRecords(t) => ctl[t] = "resolved")
      BY <2>2 DEF TurnRecords, TurnPasses
    <3> QED
      BY <1>1, <1>3, <2>2, <3>1, AheadPasses DEF Awaits
  <2>8. CASE TurnAtomic(t)
    BY <1>1, <1>3, <2>8, AheadResolves DEF Awaits
  <2>3. CASE ~Drops(t) /\ (TurnStarts(t) \/ TurnMap(t) \/ TurnReleases(t) \/ PrepCompletes(t))
    <3>1. /\ ctl'[t] \in {"activity", "prep", "fanout", "release"} /\ pc'[t] = pc[t]
      BY <2>3 DEF TurnStarts, TurnMap, TurnReleases, PrepCompletes, FanOutItems, IInv, ControlOK
    <3>2. pc[t] \in DOMAIN Body[t]
      BY <2>3 DEF TurnStarts, TurnMap, TurnReleases, PrepCompletes, AtStep, IInv, ControlOK, InStep
    <3>3. Cur(t) \notin Parallel
      BY <2>3 DEF TurnStarts, TurnMap, TurnReleases, PrepCompletes, KindInv, Atomic, Mapped, Parallel
    <3> QED
      BY <1>0, <1>1, <1>3, <3>1, <3>2, <3>3, AheadWaits DEF Awaits
  <2>4. CASE StartParallel(t)
    BY <1>1, <1>3, <2>4, AheadSplits DEF Awaits
  <2>5. PICK k \in DOMAIN Body[t] : k >= pc[t] /\ r \in Nested({Body[t][k]})
    BY <1>1, <1>3 DEF HasAhead
  <2>6. CASE SkipRemainder(t)
    BY <1>0, <2>5, <2>6, NestedSlice, RestOfBody
  <2>7. ~FinishSequence(t)
    <3> SUFFICES ASSUME pc[t] \notin DOMAIN Body[t] PROVE FALSE
      BY DEF FinishSequence
    <3>1. Body[t] \in Seq(Steps) /\ pc[t] >= 1 /\ k \in 1..Len(Body[t])
      BY BodyType DEF PcInv
    <3>2. pc[t] \in 1..Len(Body[t])
      BY <1>0, <2>5, <3>1
    <3> QED
      BY <3>1, <3>2
  <2> QED
    BY <1>0, <2>1, <2>2, <2>3, <2>4, <2>6, <2>7, <2>8 DEF Turn, TurnThrows, TurnRecords, TurnPasses
<1> QED
  BY <1>2, <1>3
-----------------------------------------------------------------------------
(* What the sequences owe after a turn *)

\* Q is what is owed once thread t has taken a turn that found P owed.
Update(t, P, Q) ==
  /\ Q \in SUBSET Units
  /\ \A x \in P \ Q : /\ ~Coming(x[1])'
                      /\ (x = <<Cur(t), 0>> /\ ctl[t] = "activity") \/ ~StepReached(x[1])
  /\ \A x \in P \cap Q : Awaits(x[1])'
  /\ \A x \in Q \ P : TurnMap(t) /\ x \in ItemsOf(Cur(t))
  /\ TurnStarts(t) \/ TurnMap(t) \/ PrepCompletes(t) => P \subseteq Q
  /\ TurnMap(t) /\ Over[Cur(t)] # "input" => ItemsOf(Cur(t)) \subseteq Q

\* A turn completes no item.
LEMMA NoneDone ==
  ASSUME KindInv, NEW t \in Threads, Turn(t), NEW x \in Items, item'[x] = "done"
  PROVE  item[x] = "done"
BY TurnItems, ClaimKeeps DEF FanOutItems

\* What a thread is about to begin has not been touched.
LEMMA AtStepFresh ==
  ASSUME IInv, NothingAhead, NEW t \in Threads, AtStep(t)
  PROVE  /\ ~StepReached(Cur(t))
         /\ \A x \in Items : x[1] = Cur(t) => item[x] = "waiting"
<1>1. pc[t] \in DOMAIN Body[t] /\ ~Reached(t, pc[t])
  BY DEF AtStep, Reached, IInv, ControlOK
<1>2. ~StepReached(Cur(t))
  BY <1>1, CurReached
<1> QED
  BY <1>2 DEF NothingAhead

LEMMA AtStepComing ==
  ASSUME IInv, NEW t \in Threads, AtStep(t)
  PROVE  Coming(Cur(t))
<1>1. pc[t] \in DOMAIN Body[t]
  BY DEF AtStep
<1> QED
  BY <1>1, BranchBelow, BlockComing

LEMMA OwedNext ==
  ASSUME IInv, PlaceInv, KindInv, StandInv, NEW t \in Threads, Step(t),
         NEW P, NEW Q, Outstanding(P), Update(t, P, Q)
  PROVE  Owed(Q)'
<1>0. Turn(t) /\ ctl \in [Threads -> Controls]
  BY StepTurns DEF IInv, ControlOK
<1> SUFFICES ASSUME NEW x \in Q
             PROVE  /\ x \in Items => item'[x] # "done"
                    /\ Awaits(x[1])'
                    /\ FromInput(x[1]) \/ StepReached(x[1])'
  BY DEF Owed, FromInput
<1>1. CASE x \in P
  <2>1. x \in Items => item'[x] # "done"
    BY <1>0, <1>1, NoneDone DEF Outstanding, Owed
  <2>2. FromInput(x[1]) \/ StepReached(x[1])'
    BY <1>1, StepForward, StepReachedStays DEF Outstanding, Owed
  <2> QED
    BY <1>1, <2>1, <2>2 DEF Update
<1>2. CASE x \notin P
  <2>1. TurnMap(t) /\ x \in ItemsOf(Cur(t)) /\ AtStep(t) /\ Cur(t) \in Mapped
    BY <1>2 DEF Update, TurnMap
  <2>2. x \in Items /\ x[1] = Cur(t)
    BY <2>1, MappedUnits
  <2>3. item'[x] # "done"
    BY <1>0, <2>1, <2>2, AtStepFresh, NoneDone DEF StandInv
  <2>4. pc'[t] = pc[t] /\ ctl'[t] \in {"prep", "fanout", "unwind", "failed"} /\ pc[t] \in DOMAIN Body[t]
    BY <1>0, <2>1 DEF TurnMap, FanOutItems, Drops, AtStep
  <2>5. StepReached(x[1])'
    <3>1. \A u \in Threads : \A k \in DOMAIN Body[u] : Body[u][k] = x[1] => u = t /\ k = pc[t]
      BY <2>2, <2>4, CurReached
    <3>2. Reached(t, pc[t])'
      BY <2>4 DEF Reached
    <3> QED
      BY <2>4, <3>1, <3>2 DEF StepReached, Reached
  <2>6. Awaits(x[1])'
    <3>1. x[1] = Body[t][pc[t]] /\ pc[t] \in Nat
      BY <2>2, BodyType DEF Cur, IInv, ControlOK
    <3>2. x[1] \in Nested({x[1]})
      BY DEF Nested
    <3>3. HasAhead(t, x[1])'
      <4>1. pc'[t] = pc[t] /\ pc[t] >= pc'[t] /\ ctl'[t] \notin AtGate \cup {"resolved"}
        BY <2>4, <3>1 DEF AtGate
      <4> QED
        BY <2>4, <3>1, <3>2, <4>1 DEF HasAhead
    <3>4. Live(t)'
      BY <2>4 DEF Live, Alive, BusyStates, Ending
    <3> QED
      BY <3>3, <3>4 DEF Awaits
  <2> QED
    BY <2>3, <2>5, <2>6
<1> QED
  BY <1>1, <1>2

LEMMA CoversNext ==
  ASSUME IInv, PlaceInv, NEW t \in Threads, Step(t),
         NEW P, NEW Q, Covers(P), Update(t, P, Q)
  PROVE  Covers(Q)'
<1> SUFFICES ASSUME NEW x \in Units, Coming(x[1])', FromInput(x[1]) PROVE x \in Q
  BY DEF Covers, FromInput
<1>1. Coming(x[1])
  BY StepComingBack
<1>2. x \in P
  BY <1>1 DEF Covers
<1> QED
  BY <1>2 DEF Update

LEMMA WorkingNext ==
  ASSUME IInv, PlaceInv, KindInv, StandInv, NEW t \in Threads, Step(t),
         NEW P, NEW Q, Outstanding(P), Update(t, P, Q)
  PROVE  Working(Q)'
<1>0. Turn(t) /\ ctl[t] \in BusyStates /\ ctl \in [Threads -> Controls]
  BY StepTurns, StepMoves DEF Moves, IInv, ControlOK
\* What was under way before the turn still is counted.
<1>1. ASSUME NEW s \in Mapped, Counted(P, s), StepReached(s) PROVE Counted(Q, s)'
  <2> SUFFICES ASSUME NEW y \in Items, y[1] = s, item'[y] # "done", y \notin Q PROVE FALSE
    BY DEF Counted
  <2>1. item[y] # "done"
    <3>1. \/ UNCHANGED item \/ (FanOutItems(t))
      BY <1>0, TurnItems
    <3> QED
      BY <3>1, ClaimKeeps DEF FanOutItems
  <2>2. y \in P
    BY <1>1, <2>1 DEF Counted
  <2>3. y = <<Cur(t), 0>> /\ ctl[t] = "activity"
    BY <1>1, <2>2 DEF Update
  <2>4. Cur(t) = s /\ Cur(t) \in Atomic
    BY <2>3 DEF KindInv
  <2> QED
    BY <2>4 DEF Atomic, Mapped
\* What the turn itself begins is counted.
<1>2. ASSUME TurnMap(t) PROVE \A y \in Items : y[1] = Cur(t) => y \in Q
  <2> SUFFICES ASSUME NEW y \in Items, y[1] = Cur(t) PROVE y \in Q
    OBVIOUS
  <2>1. AtStep(t) /\ Cur(t) \in Mapped
    BY <1>2 DEF TurnMap
  <2>2. CASE Over[Cur(t)] = "input"
    <3>1. Coming(y[1]) /\ FromInput(y[1]) /\ y \in Units
      BY <2>1, <2>2, AtStepComing DEF FromInput, Units
    <3> QED
      BY <1>2, <3>1 DEF Outstanding, Covers, Update
  <2>3. CASE Over[Cur(t)] # "input"
    BY <1>2, <2>1, <2>3, MappedUnits DEF Update
  <2> QED
    BY <2>2, <2>3
<1>3. ASSUME NEW u \in Threads, ctl'[u] = "activity" PROVE <<Cur(u)', 0>> \in Q
  <2>1. CASE u = t
    <3>1. TurnStarts(t) /\ pc'[t] = pc[t]
      BY <1>0, <1>3, <2>1, TurnControl
    <3>2. AtStep(t) /\ Cur(t) \in Atomic /\ Cur(t)' = Cur(t)
      BY <3>1 DEF TurnStarts, Cur
    <3>3. Coming(Cur(t)) /\ FromInput(Cur(t)) /\ <<Cur(t), 0>> \in Units
      BY <3>2, AtStepComing DEF FromInput, Units, Atomic, Mapped
    <3>4. <<Cur(t), 0>> \in P
      BY <3>3 DEF Outstanding, Covers
    <3> QED
      BY <2>1, <3>1, <3>2, <3>4 DEF Update
  <2>2. CASE u # t
    <3>1. ctl[u] = "activity" /\ Cur(u)' = Cur(u) /\ pc[u] \in DOMAIN Body[u]
      <4>1. ctl[u] = "activity" /\ Cur(u)' = Cur(u)
        BY <1>0, <1>3, <2>2, TurnControl
      <4> QED
        BY <4>1 DEF IInv, ControlOK, InStep
    <3>2. <<Cur(u), 0>> \in P /\ StepReached(Cur(u))
      BY <3>1, CurInside DEF Outstanding, Working
    <3>3. ~(<<Cur(u), 0>> = <<Cur(t), 0>> /\ ctl[t] = "activity")
      <4> SUFFICES ASSUME Cur(u) = Cur(t), ctl[t] = "activity" PROVE FALSE
        OBVIOUS
      <4>1. pc[t] \in DOMAIN Body[t]
        BY DEF IInv, ControlOK, InStep
      <4> QED
        BY <2>2, <3>1, <4>1, OneOwner
    <3> QED
      BY <3>1, <3>2, <3>3 DEF Update
  <2> QED
    BY <2>1, <2>2
<1>4. ASSUME NEW u \in Threads, ctl'[u] = "prep" 
      PROVE  \A y \in Items : y[1] = Cur(u)' /\ item'[y] # "done" => y \in Q
  <2>1. CASE u = t
    <3>1. TurnMap(t) /\ pc'[t] = pc[t]
      BY <1>0, <1>4, <2>1, TurnControl
    <3>2. Cur(t)' = Cur(t)
      BY <3>1 DEF Cur
    <3> QED
      BY <1>2, <2>1, <3>1, <3>2 DEF Counted
  <2>2. CASE u # t
    <3>1. ctl[u] = "prep" /\ Cur(u)' = Cur(u)
      BY <1>0, <1>4, <2>2, TurnControl
    <3>2. pc[u] \in DOMAIN Body[u] /\ Cur(u) \in Mapped
      BY <3>1 DEF IInv, ControlOK, InStep, KindInv
    <3>3. Counted(P, Cur(u)) /\ StepReached(Cur(u))
      BY <3>1, <3>2, CurInside DEF Outstanding, Working
    <3> DEFINE s == Cur(u)
    <3>4. s \in Mapped /\ Counted(P, s) /\ StepReached(s) /\ s = Cur(u)'
      BY <3>1, <3>2, <3>3
    <3> HIDE DEF s
    <3>5. \A y \in Items : y[1] = s /\ item'[y] # "done" => y \in Q
      <4>1. \A r : r \in Mapped /\ Counted(P, r) /\ StepReached(r) =>
                 \A y \in Items : y[1] = r /\ item'[y] # "done" => y \in Q
        BY <1>1 DEF Counted
      <4> QED
        BY <3>4, <4>1
    <3> QED
      BY <3>4, <3>5
  <2> QED
    BY <2>1, <2>2
<1>5. ASSUME NEW x \in Items, item'[x] # "waiting" PROVE Counted(Q, x[1])'
  <2>0. x[1] \in Mapped
    BY UnitKinds DEF Units
  <2>1. CASE item[x] # "waiting"
    <3>1. Counted(P, x[1]) /\ StepReached(x[1])
      BY <2>1 DEF Outstanding, Working, StandInv, NothingAhead
    <3> QED
      BY <1>1, <2>0, <3>1
  <2>2. CASE item[x] = "waiting"
    <3>1. Cur(t) \in Mapped /\ FanOutItems(t) /\ (TurnMap(t) \/ PrepCompletes(t))
      BY <1>0, <1>5, <2>2, TurnItems
    <3>2. x \in ItemsOf(Cur(t))
      BY <1>5, <2>2, <3>1, ClaimKeeps DEF FanOutItems
    <3>3. x[1] = Cur(t)
      BY <3>1, <3>2, MappedUnits
    <3>4. CASE TurnMap(t)
      BY <1>2, <3>3, <3>4 DEF Counted
    <3>5. CASE PrepCompletes(t)
      <4>1. Counted(P, Cur(t)) /\ P \subseteq Q
        BY <3>5 DEF PrepCompletes, Outstanding, Working, Update
      <4>2. \A y \in Items : item'[y] # "done" => item[y] # "done"
        BY <3>1, ClaimKeeps DEF FanOutItems
      <4> QED
        BY <3>3, <4>1, <4>2 DEF Counted
    <3> QED
      BY <3>1, <3>4, <3>5
  <2> QED
    BY <2>1, <2>2
<1> QED
  BY <1>3, <1>4, <1>5 DEF Working, Counted

LEMMA OutstandingNext ==
  ASSUME IInv, PlaceInv, KindInv, StandInv, NEW t \in Threads, Step(t),
         NEW P, NEW Q, Outstanding(P), Update(t, P, Q), Tally(lc', Q)
  PROVE  Outstanding(Q)'
<1>1. Owed(Q)' /\ Working(Q)'
  BY OwedNext, WorkingNext
<1>2. Covers(Q)'
  BY CoversNext DEF Outstanding
<1>3. Tally(lc, Q)'
  BY DEF Tally
<1> QED
  BY <1>1, <1>2, <1>3 DEF Outstanding
-----------------------------------------------------------------------------
(* Each turn leaves the units that it should *)

StepAssumed(t, P) ==
  /\ IInv /\ PlaceInv /\ KindInv /\ StandInv /\ PcInv
  /\ Step(t) /\ Turn(t) /\ Outstanding(P)

LEMMA OwedKept ==
  ASSUME NEW t \in Threads, NEW P, StepAssumed(t, P), NEW x \in P, ~Awaits(x[1])'
  PROVE  \/ x[1] = Cur(t) /\ (TurnAtomic(t) \/ TurnPasses(t))
         \/ SkipRemainder(t) /\ x[1] \in Nested(Slice(t, pc[t], Len(Body[t])))
         \/ /\ StartParallel(t)
            /\ \E b \in BranchesOf[Cur(t)] :
                 b # t /\ ctl'[b] = "skipped" /\ \E m \in DOMAIN Body[b] : x[1] \in Nested({Body[b][m]})
<1>1. x[1] \notin Parallel /\ Awaits(x[1])
  BY UnitKinds DEF StepAssumed, Outstanding, Tally, Owed
<1>2. \/ Awaits(x[1])'
      \/ x[1] = Cur(t) /\ (TurnAtomic(t) \/ TurnPasses(t))
      \/ SkipRemainder(t) /\ x[1] \in Nested(Slice(t, pc[t], Len(Body[t])))
      \/ /\ StartParallel(t)
         /\ \E b \in BranchesOf[Cur(t)] :
              b # t /\ ctl'[b] = "skipped" /\ \E m \in DOMAIN Body[b] : x[1] \in Nested({Body[b][m]})
  BY <1>1, StepAwaits DEF StepAssumed
<1> QED
  BY <1>2

\* A turn that only throws, waits or goes on owes what was owed.
LEMMA RestingTurn ==
  ASSUME NEW t \in Threads, NEW P, StepAssumed(t, P),
         ~TurnAtomic(t), ~TurnPasses(t), ~TurnMap(t), ~StartParallel(t), ~SkipRemainder(t)
  PROVE  Outstanding(P)'
<1>1. lc \in LifecycleState
  BY DEF StepAssumed, IInv, LifeOK
<1>2. SameUnits(lc, lc')
  <2>1. CASE FinishSequence(t)
    BY <1>1, <2>1, EndsSame DEF FinishSequence, EndSequence, SameUnits
  <2>2. CASE ~FinishSequence(t)
    BY <2>2 DEF StepAssumed, Turn, TurnThrows, TurnRecords, TurnStarts, TurnReleases, PrepCompletes,
                SameUnits
  <2> QED
    BY <2>1, <2>2
<1>3. Tally(lc', P)
  BY <1>2, TallySame DEF StepAssumed, Outstanding
<1>4. \A x \in P : Awaits(x[1])'
  BY OwedKept
<1>5. Update(t, P, P)
  BY <1>4 DEF Update, StepAssumed, Outstanding, Tally
<1> QED
  BY <1>3, <1>5, OutstandingNext DEF StepAssumed

\* A fan-out that goes on has no item left to do.
LEMMA PassingTurn ==
  ASSUME NEW t \in Threads, NEW P, StepAssumed(t, P), TurnPasses(t)
  PROVE  Outstanding(P)'
<1>1. ASSUME NEW x \in P PROVE x[1] # Cur(t)
  <2> SUFFICES ASSUME x[1] = Cur(t) PROVE FALSE
    OBVIOUS
  <2>1. x \in Units /\ (x \in Items => item[x] # "done")
    BY DEF StepAssumed, Outstanding, Tally, Owed
  <2>2. Cur(t) \notin Parallel /\ (x \in Items <=> Cur(t) \in Mapped)
        /\ (x \in Items => x \in ItemsOf(Cur(t)))
    BY <2>1, UnitKinds
  <2>3. Cur(t) \in Mapped
    BY <2>2 DEF TurnPasses, StepAssumed, StandInv, WorkersBusy
  <2>4. \A y \in ItemsOf(Cur(t)) : item[y] = "done"
    BY <2>3 DEF TurnPasses, StepAssumed, StandInv, WorkersBusy
  <2> QED
    BY <2>1, <2>2, <2>3, <2>4
<1>2. ~TurnMap(t) /\ ~StartParallel(t) /\ ~SkipRemainder(t) /\ ~TurnAtomic(t)
      /\ ~TurnStarts(t) /\ ~PrepCompletes(t)
  BY DEF TurnPasses, TurnMap, StartParallel, SkipRemainder, TurnAtomic, TurnStarts, PrepCompletes, AtStep
<1>3. \A x \in P : Awaits(x[1])'
  BY <1>1, <1>2, OwedKept
<1>4. Update(t, P, P)
  BY <1>2, <1>3 DEF Update, StepAssumed, Outstanding, Tally
<1>5. Tally(lc', P)
  BY TallySame DEF TurnPasses, StepAssumed, Outstanding
<1> QED
  BY <1>4, <1>5, OutstandingNext DEF StepAssumed

\* An atomic step that completes is paid off.
LEMMA AtomicTurn ==
  ASSUME NEW t \in Threads, NEW P, StepAssumed(t, P), TurnAtomic(t)
  PROVE  \E Q : Outstanding(Q)'
<1>a. PICK x \in P : x = <<Cur(t), 0>>
  BY DEF StepAssumed, TurnAtomic, Outstanding, Working
<1> DEFINE Q == P \ {x}
<1>0. lc \in LifecycleState /\ ctl[t] = "activity" /\ x[1] = Cur(t) /\ Cur(t) \in Atomic
  BY <1>a DEF StepAssumed, IInv, LifeOK, TurnAtomic, KindInv
<1>1. Tally(lc', Q)
  BY <1>0, TallyDone DEF TurnAtomic, StepAssumed, Outstanding
<1>2. ~Coming(x[1])'
  <2> SUFFICES ASSUME Coming(x[1])' PROVE FALSE
    OBVIOUS
  <2>1. Coming(x[1])
    BY StepComingBack DEF StepAssumed
  <2>2. ~StepReached(Cur(t))
    BY <1>0, <2>1, ComingUnreached DEF StepAssumed
  <2>3. StepReached(Cur(t))
    BY <1>0, CurInside DEF StepAssumed, IInv, ControlOK, InStep
  <2> QED
    BY <2>2, <2>3
<1>3. ~TurnMap(t) /\ ~StartParallel(t) /\ ~SkipRemainder(t)
      /\ ~TurnStarts(t) /\ ~PrepCompletes(t)
  BY DEF TurnMap, StartParallel, SkipRemainder, TurnAtomic, TurnStarts, PrepCompletes, AtStep
<1>4. ASSUME NEW y \in Q PROVE Awaits(y[1])'
  <2>1. y[1] # Cur(t)
    <3> SUFFICES ASSUME y[1] = Cur(t) PROVE FALSE
      OBVIOUS
    <3>1. y \in Units
      BY DEF StepAssumed, Outstanding, Tally
    <3>2. y = <<y[1], 0>>
      BY <1>0, <3>1, UnitKinds DEF Atomic, Mapped
    <3> QED
      BY <1>a, <3>2
  <2> QED
    BY <1>3, <2>1, OwedKept
<1>5. Q \in SUBSET Units /\ P \ Q = {x} /\ Q \subseteq P
  BY <1>0 DEF StepAssumed, Outstanding, Tally
<1> HIDE DEF Q
<1>6. Update(t, P, Q)
  BY <1>a, <1>0, <1>2, <1>3, <1>4, <1>5 DEF Update
<1> QED
  BY <1>1, <1>6, OutstandingNext DEF StepAssumed

\* A map over a step's output owes its items from the time it knows them.
LEMMA MapTurn ==
  ASSUME NEW t \in Threads, NEW P, StepAssumed(t, P), TurnMap(t)
  PROVE  \E Q : Outstanding(Q)'
<1>0. lc \in LifecycleState /\ AtStep(t) /\ Cur(t) \in Mapped /\ P \in SUBSET Units
  BY DEF StepAssumed, IInv, LifeOK, TurnMap, Outstanding, Tally
<1>1. ~StartParallel(t) /\ ~SkipRemainder(t) /\ ~TurnAtomic(t) /\ ~TurnPasses(t)
  <2>1. ~StartParallel(t) /\ ~TurnAtomic(t) /\ ~TurnPasses(t)
    BY <1>0 DEF StartParallel, TurnAtomic, TurnPasses, AtStep, Parallel, Mapped
  <2>2. ~SkipRemainder(t)
    BY DEF TurnMap, FanOutItems, Drops, SkipRemainder, EndSequence, StepAssumed, IInv, ControlOK
  <2> QED
    BY <2>1, <2>2
<1>2. \A x \in P : Awaits(x[1])'
  BY <1>1, OwedKept
<1>3. CASE Over[Cur(t)] = "input"
  <2>1. Update(t, P, P)
    BY <1>0, <1>2, <1>3 DEF Update
  <2>2. Tally(lc', P)
    BY <1>3 DEF TurnMap, StepAssumed, Outstanding
  <2> QED
    BY <2>1, <2>2, OutstandingNext DEF StepAssumed
<1>4. CASE Over[Cur(t)] # "input"
  <2> DEFINE Q == P \cup ItemsOf(Cur(t))
  <2>1. ItemsOf(Cur(t)) \cap P = {}
    <3> SUFFICES ASSUME NEW x \in P, x \in ItemsOf(Cur(t)) PROVE FALSE
      OBVIOUS
    <3>1. x[1] = Cur(t)
      BY <1>0, MappedUnits
    <3>2. FromInput(x[1]) \/ StepReached(x[1])
      BY DEF StepAssumed, Outstanding, Owed
    <3> QED
      BY <1>0, <1>4, <3>1, <3>2, AtStepFresh DEF StepAssumed, StandInv, FromInput
  <2>2. Tally(lc', Q)
    BY <1>0, <1>4, <2>1, TallyAdds DEF TurnMap, StepAssumed, Outstanding
  <2>3. Q \in SUBSET Units /\ P \ Q = {} /\ P \cap Q = P /\ Q \ P \subseteq ItemsOf(Cur(t))
        /\ P \subseteq Q /\ ItemsOf(Cur(t)) \subseteq Q
    BY <1>0, MappedUnits
  <2> HIDE DEF Q
  <2>4. Update(t, P, Q)
    BY <1>2, <2>3 DEF Update
  <2> QED
    BY <2>2, <2>4, OutstandingNext DEF StepAssumed
<1> QED
  BY <1>3, <1>4

\* What is left out by a when: predicate that is false is owed no more.
LEMMA SkippingTurn ==
  ASSUME SkipsWhole, NEW t \in Threads, NEW P, StepAssumed(t, P), SkipRemainder(t)
  PROVE  \E Q : Outstanding(Q)'
<1> DEFINE S == Slice(t, pc[t], Len(Body[t]))
           R == UnitsOf(S)
           Q == P \ R
           l == SkipUnits(lc, TotalUnitsOf(S))
<1>0. /\ lc \in LifecycleState /\ AtStep(t) /\ Cur(t) \in Gated /\ P \in SUBSET Units
      /\ pc[t] \in DOMAIN Body[t] /\ pc[t] \in Nat /\ ctl[t] = "ready"
      /\ IInv /\ PlaceInv /\ KindInv /\ StandInv /\ Step(t)
  BY DEF StepAssumed, IInv, LifeOK, ControlOK, SkipRemainder, AtStep, Outstanding, Tally
<1>1. Whole(S)
  BY <1>0 DEF SkipsWhole, Cur
<1>2. ASSUME NEW r \in Nested(S)
      PROVE  \E j \in DOMAIN Body[t] : ~Reached(t, j) /\ r \in Nested({Body[t][j]})
  <2>1. PICK j \in (pc[t]..Len(Body[t])) \cap DOMAIN Body[t] : r \in Nested({Body[t][j]})
    BY <1>2, NestedSlice
  <2>2. ~Reached(t, j)
    BY <1>0, <2>1 DEF Reached
  <2> QED
    BY <2>1, <2>2
<1>3. \A r \in Nested(S) : Coming(r)
  BY <1>0, <1>2 DEF Coming, Alive, BusyStates
<1>4. /\ R \subseteq P
      /\ \A x \in P : x \in R <=> x[1] \in Nested(S)
      /\ \A x \in R : x[1] \in Nested(S) /\ ~StepReached(x[1])
  <2> HIDE DEF S
  <2> QED
    BY <1>0, <1>1, <1>3, SkippedOwed DEF StepAssumed, StandInv, Outstanding
<1>5. ctl'[t] \in {"returned", "done"} /\ SameUnits(l, lc')
  <2>1. l \in LifecycleState
    BY <1>0, TotalUnitsType, SkipUnitsEvolves DEF Evolves
  <2>2. EndSequence(t, l)
    BY DEF SkipRemainder
  <2> HIDE DEF l
  <2> QED
    BY <1>0, <2>1, <2>2, EndsSame DEF EndSequence, IInv, ControlOK, SameUnits
<1>6. Tally(lc', Q)
  <2> HIDE DEF S
  <2>1. Tally(l, Q)
    BY <1>0, <1>4, SkipTally DEF StepAssumed, Outstanding
  <2> QED
    BY <1>5, <2>1, TallySame
<1>7. ~TurnMap(t) /\ ~StartParallel(t) /\ ~TurnAtomic(t) /\ ~TurnPasses(t)
      /\ ~TurnStarts(t) /\ ~PrepCompletes(t)
  BY <1>0, <1>5 DEF TurnMap, FanOutItems, Drops, StartParallel, TurnAtomic, TurnPasses, TurnStarts,
                    PrepCompletes, IInv, ControlOK
<1>8. ASSUME NEW x \in R PROVE ~Coming(x[1])'
  <2> SUFFICES ASSUME Coming(x[1])' PROVE FALSE
    OBVIOUS
  <2>1. PICK u \in Threads : Alive(u)' /\ \E k \in DOMAIN Body[u] :
          ~Reached(u, k)' /\ x[1] \in Nested({Body[u][k]})
    BY DEF Coming
  <2>2. PICK k \in DOMAIN Body[u] : ~Reached(u, k)' /\ x[1] \in Nested({Body[u][k]})
    BY <2>1
  <2>3. Alive(u) /\ ~Reached(u, k)
    BY <1>0, <1>7, <2>1, <2>2, StepComing
  <2>4. PICK j \in DOMAIN Body[t] : ~Reached(t, j) /\ x[1] \in Nested({Body[t][j]})
    BY <1>2, <1>4
  <2>5. u = t
    <3>1. ctl[u] # "idle" /\ ctl[t] # "idle"
      BY <1>0, <2>3 DEF Alive, BusyStates, AtGate
    <3> QED
      BY <1>0, <2>2, <2>3, <2>4, <3>1, Frontier
  <2> QED
    BY <1>5, <2>1, <2>5 DEF Alive, BusyStates, AtGate
<1>9. ASSUME NEW x \in Q PROVE Awaits(x[1])'
  BY <1>4, <1>7, OwedKept
<1>10. Q \in SUBSET Units /\ P \ Q = R /\ Q \subseteq P
  BY <1>0, <1>4
<1> HIDE DEF R, Q
<1>11. Update(t, P, Q)
  BY <1>4, <1>7, <1>8, <1>9, <1>10 DEF Update
<1> QED
  BY <1>0, <1>6, <1>11, OutstandingNext DEF StepAssumed

\* So is what a gated branch leaves out.
LEMMA SplittingTurn ==
  ASSUME SkipsWhole, NEW t \in Threads, NEW P, StepAssumed(t, P), StartParallel(t)
  PROVE  \E Q : Outstanding(Q)'
<1>0. /\ lc \in LifecycleState /\ AtStep(t) /\ Cur(t) \in Parallel /\ P \in SUBSET Units
      /\ pc[t] \in DOMAIN Body[t] /\ pc[t] \in Nat /\ ctl[t] = "ready"
      /\ IInv /\ PlaceInv /\ KindInv /\ StandInv /\ Step(t)
      /\ ctl \in [Threads -> Controls] /\ pc' = pc
  BY DEF StepAssumed, IInv, LifeOK, ControlOK, StartParallel, AtStep, Outstanding, Tally
<1>1. PICK out \in SUBSET (BranchesOf[Cur(t)] \cap Gated) :
        /\ ctl' = [v \in Threads |-> IF v = t THEN "fanout"
                                     ELSE IF v \in out THEN "skipped"
                                     ELSE IF v \in BranchesOf[Cur(t)] THEN "ready"
                                     ELSE ctl[v]]
        /\ lc' = SkipUnits(lc, TotalUnitsOf(UNION {Slice(b, 1, Len(Body[b])) : b \in out}))
  BY DEF StartParallel
<1> DEFINE S == UNION {Slice(b, 1, Len(Body[b])) : b \in out}
           R == UnitsOf(S)
           Q == P \ R
<1>2. /\ \A b \in BranchesOf[Cur(t)] : b \in Branches /\ b \in Threads /\ ctl[b] = "idle" /\ b # t
      /\ out \subseteq BranchesOf[Cur(t)] /\ out \subseteq Gated
  <2>1. Cur(t) \in Steps
    BY <1>0, BodyType DEF Cur
  <2>2. \A b \in BranchesOf[Cur(t)] : b \in Branches /\ b \in Threads
    BY <2>1, PlanAssumption DEF PlanAssumption, Threads
  <2>3. \A b \in BranchesOf[Cur(t)] : ctl[b] = "idle"
    BY <1>0, StartsFresh
  <2> QED
    BY <1>0, <2>2, <2>3
<1>3. \A r : r \in Nested(S) <=> \E b \in out : r \in Nested(Slice(b, 1, Len(Body[b])))
  <2> TAKE r
  <2>1. r \in Nested(S) <=> \E s \in S : r \in Nested({s})
    BY NestedEach
  <2>2. \A b \in out : r \in Nested(Slice(b, 1, Len(Body[b]))) <=>
                         \E s \in Slice(b, 1, Len(Body[b])) : r \in Nested({s})
    BY NestedEach
  <2> QED
    BY <2>1, <2>2
<1>4. \A r : r \in Nested(S) <=> \E b \in out : \E m \in DOMAIN Body[b] : r \in Nested({Body[b][m]})
  <2>1. \A b \in out : (1..Len(Body[b])) \cap DOMAIN Body[b] = DOMAIN Body[b]
    <3> SUFFICES ASSUME NEW b \in out PROVE (1..Len(Body[b])) \cap DOMAIN Body[b] = DOMAIN Body[b]
      OBVIOUS
    <3>1. Body[b] \in Seq(Steps)
      BY <1>2, BodyType
    <3> QED
      BY <3>1
  <2>2. \A r : \A b \in out : r \in Nested(Slice(b, 1, Len(Body[b]))) <=>
                  \E m \in (1..Len(Body[b])) \cap DOMAIN Body[b] : r \in Nested({Body[b][m]})
    BY NestedSlice
  <2> HIDE DEF S
  <2> QED
    BY <1>3, <2>1, <2>2
<1>5. Whole(S)
  <2> SUFFICES ASSUME NEW m \in Mapped, m \in Nested(S), Over[m] # "input"
               PROVE  Over[m] \in Nested(S)
    BY DEF Whole
  <2>1. PICK b \in out : m \in Nested(Slice(b, 1, Len(Body[b])))
    BY <1>3
  <2>2. Over[m] \in Nested(Slice(b, 1, Len(Body[b])))
    BY <1>2, <2>1 DEF SkipsWhole, Whole
  <2> QED
    BY <1>3, <2>2
<1> HIDE DEF S
<1>6. \A r \in Nested(S) : r \in Nested({Cur(t)}) /\ Coming(r)
  <2> SUFFICES ASSUME NEW r \in Nested(S) PROVE r \in Nested({Cur(t)}) /\ Coming(r)
    OBVIOUS
  <2>1. r \in Nested({Cur(t)})
    BY <1>0, <1>2, <1>4, BranchBelow
  <2> QED
    BY <1>0, <2>1, BlockComing
<1>7. /\ R \subseteq P
      /\ \A x \in P : x \in R <=> x[1] \in Nested(S)
      /\ \A x \in R : x[1] \in Nested(S) /\ ~StepReached(x[1])
  BY <1>0, <1>5, <1>6, SkippedOwed DEF StepAssumed, StandInv, Outstanding
<1>8. Tally(lc', Q)
  BY <1>0, <1>1, <1>7, SkipTally DEF StepAssumed, Outstanding, S
<1>9. /\ ~TurnMap(t) /\ ~SkipRemainder(t) /\ ~TurnAtomic(t) /\ ~TurnPasses(t)
      /\ ~TurnStarts(t) /\ ~PrepCompletes(t) /\ ctl'[t] = "fanout"
  <2>1. ctl'[t] = "fanout"
    BY <1>1
  <2> QED
    BY <1>0, <2>1 DEF TurnMap, SkipRemainder, EndSequence, TurnAtomic, TurnPasses, TurnStarts,
                      PrepCompletes, Parallel, Mapped, Atomic
<1>10. ASSUME NEW x \in R PROVE ~Coming(x[1])'
  <2> SUFFICES ASSUME Coming(x[1])' PROVE FALSE
    OBVIOUS
  <2>1. PICK u \in Threads : Alive(u)' /\ \E k \in DOMAIN Body[u] :
          ~Reached(u, k)' /\ x[1] \in Nested({Body[u][k]})
    BY DEF Coming
  <2>2. PICK k \in DOMAIN Body[u] : ~Reached(u, k)' /\ x[1] \in Nested({Body[u][k]})
    BY <2>1
  <2>3. x[1] \in Nested(S)
    BY <1>7
  <2>4. CASE Alive(u) /\ ~Reached(u, k)
    <3>1. ctl[u] # "idle" /\ ctl[t] # "idle" /\ ~Reached(t, pc[t])
      BY <1>0, <2>4 DEF Alive, BusyStates, AtGate, Reached
    <3>2. x[1] \in Nested({Body[t][pc[t]]})
      BY <1>6, <2>3 DEF Cur
    <3>3. u = t /\ k = pc[t]
      BY <1>0, <2>2, <2>4, <3>1, <3>2, Frontier
    <3> QED
      BY <1>0, <1>9, <2>2, <3>3 DEF Reached
  <2>5. CASE u # t /\ u \in BranchesOf[Cur(t)] /\ ctl'[u] = "ready"
    <3>1. PICK b \in out : \E m \in DOMAIN Body[b] : x[1] \in Nested({Body[b][m]})
      BY <1>4, <2>3
    <3>2. b = u
      <4>1. PICK m \in DOMAIN Body[b] : x[1] \in Nested({Body[b][m]})
        BY <3>1
      <4>2. b \in BranchesOf[Body[t][pc[t]]] /\ u \in BranchesOf[Body[t][pc[t]]]
        BY <1>2, <2>5 DEF Cur
      <4>3. Nested({Body[b][m]}) \cap Nested({Body[u][k]}) # {}
        BY <2>2, <4>1
      <4> QED
        BY <1>0, <4>2, <4>3, Siblings
    <3>3. ctl'[b] = "skipped"
      BY <1>1, <1>2
    <3> QED
      BY <2>5, <3>2, <3>3
  <2> QED
    BY <1>0, <2>1, <2>2, <2>4, <2>5, StepComing
<1>11. ASSUME NEW x \in Q PROVE Awaits(x[1])'
  <2> SUFFICES ASSUME ~Awaits(x[1])' PROVE FALSE
    OBVIOUS
  <2>1. PICK b \in BranchesOf[Cur(t)] :
          b # t /\ ctl'[b] = "skipped" /\ \E m \in DOMAIN Body[b] : x[1] \in Nested({Body[b][m]})
    BY <1>9, OwedKept
  <2>2. b \in out
    BY <1>1, <1>2, <2>1
  <2> QED
    BY <1>4, <1>7, <2>1, <2>2
<1>12. Q \in SUBSET Units /\ P \ Q = R /\ Q \subseteq P
  BY <1>0, <1>7
<1> HIDE DEF R, Q
<1>13. Update(t, P, Q)
  BY <1>7, <1>9, <1>10, <1>11, <1>12 DEF Update
<1> QED
  BY <1>0, <1>8, <1>13, OutstandingNext DEF StepAssumed

LEMMA StepProgress ==
  ASSUME SkipsWhole, IInv, PlaceInv, KindInv, StandInv, PcInv, ProgressInv,
         NEW t \in Threads, Step(t)
  PROVE  ProgressInv'
<1>1. PICK P : Outstanding(P)
  BY DEF ProgressInv
<1>2. StepAssumed(t, P)
  BY <1>1, StepTurns DEF StepAssumed
<1>3. \E Q : Outstanding(Q)'
  BY <1>2, RestingTurn, PassingTurn, AtomicTurn, MapTurn, SkippingTurn, SplittingTurn
<1> QED
  BY <1>3 DEF ProgressInv
-----------------------------------------------------------------------------
(* What the other steps of a run leave owed *)

LEMMA ComingKept ==
  ASSUME NEW r, Coming(r)', \A u \in Threads : Forward(u) /\ (Alive(u)' => Alive(u))
  PROVE  Coming(r)
<1>1. PICK u \in Threads : Alive(u)' /\ \E k \in DOMAIN Body[u] :
        ~Reached(u, k)' /\ r \in Nested({Body[u][k]})
  BY DEF Coming
<1>2. PICK k \in DOMAIN Body[u] : ~Reached(u, k)' /\ r \in Nested({Body[u][k]})
  BY <1>1
<1>3. k \in Nat
  BY BodyType
<1>4. ~Reached(u, k)
  BY <1>2, <1>3 DEF Forward
<1> QED
  BY <1>1, <1>2, <1>4 DEF Coming

\* No work begins outside the turns of the sequences: what was owed still is,
\* but for what nobody is to come to any more.
LEMMA OutstandingKept ==
  ASSUME IInv, PlaceInv, StandInv, UNCHANGED item,
         \A u \in Threads :
           /\ Forward(u)
           /\ Alive(u)' => Alive(u)
           /\ ctl'[u] \in {"activity", "prep"} => ctl'[u] = ctl[u] /\ Cur(u)' = Cur(u),
         NEW P, NEW Q \in SUBSET P, Outstanding(P), Tally(lc', Q),
         \A x \in P \ Q : ~Coming(x[1])' /\ ~StepReached(x[1]),
         \A x \in Q : Awaits(x[1])'
  PROVE  Outstanding(Q)'
<1>1. Owed(Q)'
  <2> SUFFICES ASSUME NEW x \in Q
               PROVE  /\ x \in Items => item'[x] # "done"
                      /\ Awaits(x[1])'
                      /\ FromInput(x[1]) \/ StepReached(x[1])'
    BY DEF Owed, FromInput
  <2>1. x \in P /\ (x \in Items => item[x] # "done") /\ (FromInput(x[1]) \/ StepReached(x[1]))
    BY DEF Outstanding, Owed
  <2> QED
    BY <2>1, StepReachedStays
<1>2. Covers(Q)'
  <2> SUFFICES ASSUME NEW x \in Units, Coming(x[1])', FromInput(x[1]) PROVE x \in Q
    BY DEF Covers, FromInput
  <2>1. x \in P
    BY ComingKept DEF Outstanding, Covers
  <2> QED
    BY <2>1
<1>3. Working(Q)'
  <2>1. ASSUME NEW s, StepReached(s), Counted(P, s) PROVE Counted(Q, s)'
    BY <2>1 DEF Counted
  <2>2. ASSUME NEW u \in Threads, ctl'[u] = "activity" PROVE <<Cur(u)', 0>> \in Q
    <3>1. ctl[u] = "activity" /\ Cur(u)' = Cur(u) /\ pc[u] \in DOMAIN Body[u]
      BY <2>2 DEF IInv, ControlOK, InStep
    <3>2. <<Cur(u), 0>> \in P /\ StepReached(Cur(u))
      BY <3>1, CurInside DEF Outstanding, Working
    <3> QED
      BY <3>1, <3>2
  <2>3. ASSUME NEW u \in Threads, ctl'[u] = "prep"
        PROVE  \A y \in Items : y[1] = Cur(u)' /\ item'[y] # "done" => y \in Q
    <3>1. ctl[u] = "prep" /\ Cur(u)' = Cur(u) /\ pc[u] \in DOMAIN Body[u]
      BY <2>3 DEF IInv, ControlOK, InStep
    <3>2. Counted(P, Cur(u)) /\ StepReached(Cur(u))
      BY <3>1, CurInside DEF Outstanding, Working
    <3> QED
      BY <3>1, <3>2 DEF Counted
  <2>4. ASSUME NEW x \in Items, item'[x] # "waiting" PROVE Counted(Q, x[1])'
    BY <2>1, <2>4 DEF Outstanding, Working, StandInv, NothingAhead
  <2> QED
    BY <2>2, <2>3, <2>4 DEF Working, Counted
<1>4. Tally(lc, Q)'
  BY DEF Tally
<1> QED
  BY <1>1, <1>2, <1>3, <1>4 DEF Outstanding

LEMMA StartOwes ==
  ASSUME IInv, PlaceInv, StandInv, Start
  PROVE  \E Q : Outstanding(Q)'
<1> DEFINE S == Slice(Main, 1, Len(Body[Main]))
           l == AddUnits(lc, TotalUnitsOf(S))
<1>a. PICK Q : Q = UnitsOf(S)
  OBVIOUS
<1>0. /\ lc \in LifecycleState /\ Main \in Threads /\ ctl[Main] = "start"
      /\ ctl' = [ctl EXCEPT ![Main] = "ready"] /\ lc' = Started(l)
      /\ UNCHANGED <<pc, item, context>>
      /\ ctl \in [Threads -> Controls] /\ pc \in [Threads -> Nat]
  BY MainIsThread DEF IInv, LifeOK, ControlOK, Start
<1>1. /\ \A b \in Branches : ctl[b] = "idle"
      /\ context = {} /\ \A x \in Items : item[x] = "waiting"
      /\ lc.totalUnits = 0 /\ lc.completedUnits = 0
  BY <1>0 DEF StandInv, Unstarted
<1>2. \A u \in Threads : ctl'[u] = IF u = Main THEN "ready" ELSE "idle"
  BY <1>0, <1>1 DEF Threads
<1>3. \A r : r \in Nested(S) <=> \E k \in DOMAIN Body[Main] : r \in Nested({Body[Main][k]})
  <2>1. Body[Main] \in Seq(Steps)
    BY <1>0, BodyType
  <2>2. (1..Len(Body[Main])) \cap DOMAIN Body[Main] = DOMAIN Body[Main]
    BY <2>1
  <2> QED
    BY <2>2, NestedSlice
<1> HIDE DEF S
<1>4. \A x : x \in Q <=> x \in Units /\ x[1] \in Nested(S) /\ FromInput(x[1])
  BY <1>a, <1>1 DEF UnitsOf, Units, OverKnown, FromInput
<1>5. Tally(lc', Q)
  <2>1. TotalUnitsOf(S) = Cardinality(Q) /\ Cardinality(Q) \in Nat
    BY <1>a, TotalUnitsType DEF TotalUnitsOf
  <2>2. l.totalUnits = Cardinality(Q) /\ l.completedUnits = 0 /\ l \in LifecycleState
    BY <1>0, <1>1, <2>1 DEF AddUnits, LifecycleState
  <2> HIDE DEF l
  <2>3. lc'.totalUnits = l.totalUnits /\ lc'.completedUnits = l.completedUnits
    BY <1>0, <2>2, EndsSame DEF SameUnits
  <2>4. Q \in SUBSET Units
    BY <1>4
  <2> QED
    BY <2>1, <2>2, <2>3, <2>4 DEF Tally
<1> HIDE DEF l
<1>6. Owed(Q)'
  <2> SUFFICES ASSUME NEW x \in Q
               PROVE  (x \in Items => item'[x] # "done") /\ Awaits(x[1])' /\ FromInput(x[1])
    BY DEF Owed, FromInput
  <2>1. PICK k \in DOMAIN Body[Main] : x[1] \in Nested({Body[Main][k]})
    BY <1>3, <1>4
  <2>2. pc'[Main] = 1 /\ ctl'[Main] = "ready" /\ k >= 1
    BY <1>0, <1>2, RestOfBody, BodyType DEF PlaceInv, IdleFresh
  <2>3. HasAhead(Main, x[1])' /\ Live(Main)'
    BY <2>1, <2>2 DEF HasAhead, AtGate, Live, Alive, BusyStates
  <2>4. Awaits(x[1])'
    BY <1>0, <2>3 DEF Awaits
  <2> QED
    BY <1>0, <1>1, <1>4, <2>4
<1>7. Covers(Q)'
  <2> SUFFICES ASSUME NEW x \in Units, Coming(x[1])', FromInput(x[1]) PROVE x \in Q
    BY DEF Covers, FromInput
  <2>1. PICK u \in Threads : Alive(u)' /\ \E k \in DOMAIN Body[u] : x[1] \in Nested({Body[u][k]})
    BY DEF Coming
  <2>2. u = Main
    BY <1>2, <2>1 DEF Alive, BusyStates, AtGate
  <2> QED
    BY <1>3, <1>4, <2>1, <2>2
<1>8. Working(Q)'
  BY <1>0, <1>1, <1>2 DEF Working
<1>9. Tally(lc, Q)'
  BY <1>5 DEF Tally
<1> QED
  BY <1>6, <1>7, <1>8, <1>9 DEF Outstanding

LEMMA RestOwes ==
  ASSUME IInv, PlaceInv, StandInv, NEW P, Outstanding(P), TurnRests,
         \A u \in Threads : Forward(u)
  PROVE  Outstanding(P)'
<1>0. Main \in Threads /\ UNCHANGED item
  BY MainIsThread DEF TurnRests
<1>1. \A u \in Threads : pc'[u] = pc[u] /\ Cur(u)' = Cur(u)
  BY DEF TurnRests, Cur
<1>2. \A u \in Threads :
        \/ ctl'[u] = ctl[u]
        \/ ctl[u] \in AtGate /\ ctl'[u] \in {"review"} \cup Ending
        \/ ctl[u] \in Ending /\ ctl'[u] \in Ending
  BY DEF TurnRests, IInv, ControlOK
<1>3. ASSUME NEW u \in Threads
      PROVE  /\ Alive(u)' => Alive(u)
             /\ Live(u) => Live(u)'
             /\ ctl'[u] \in {"activity", "prep"} => ctl'[u] = ctl[u]
  BY <1>2 DEF Alive, Live, AtGate, Ending, BusyStates
<1>4. ASSUME NEW x \in P PROVE Awaits(x[1])'
  <2>1. PICK u \in Threads : Live(u) /\ HasAhead(u, x[1])
    BY DEF Outstanding, Owed, Awaits
  <2>2. HasAhead(u, x[1])'
    BY <1>1, <1>2, <2>1 DEF HasAhead, AtGate, Ending
  <2> QED
    BY <1>3, <2>1, <2>2 DEF Awaits
<1>5. Tally(lc', P)
  BY TallySame DEF TurnRests, Outstanding
<1> QED
  BY <1>0, <1>1, <1>3, <1>4, <1>5, OutstandingKept

\* What a route jumps over is owed no more.
LEMMA JumpOwes ==
  ASSUME SkipsWhole, IInv, PlaceInv, StandInv, NEW P, Outstanding(P), TurnJumps,
         \A u \in Threads : Forward(u)
  PROVE  \E Q : Outstanding(Q)'
<1>a. PICK l \in LifecycleState, g \in Gates : \E s \in Routes(g) :
        /\ ctl[Main] \in AtGate /\ AfterStep[g] = Cur(Main)
        /\ SameUnits(lc, l)
        /\ JumpTo(s, l)
        /\ UNCHANGED <<item, context>>
  BY DEF TurnJumps
<1>1. PICK s \in Routes(g) :
        /\ ctl[Main] \in AtGate /\ AfterStep[g] = Cur(Main)
        /\ SameUnits(lc, l)
        /\ JumpTo(s, l)
        /\ UNCHANGED <<item, context>>
  BY <1>a
<1>2. /\ Main \in Threads /\ pc[Main] \in DOMAIN Body[Main] /\ pc[Main] \in Nat
      /\ ctl \in [Threads -> Controls] /\ pc \in [Threads -> Nat] /\ P \in SUBSET Units
      /\ Alive(Main)
  BY <1>1, MainIsThread DEF IInv, ControlOK, InStep, AtGate, Alive, Outstanding, Tally
<1>3. IndexOf(s) \in Nat /\ IndexOf(s) > pc[Main]
  BY <1>1, RouteForward DEF Routes, AtGate
<1>4. IndexOf(AfterStep[g]) = pc[Main]
  <2>1. AfterStep[g] = Body[Main][pc[Main]]
    BY <1>1 DEF Cur
  <2>2. \A k \in DOMAIN Body[Main] : Body[Main][k] = AfterStep[g] => k = pc[Main]
    BY <1>2, <2>1, PlanShape DEF PlanShape
  <2> QED
    BY <1>2, <2>1, <2>2 DEF IndexOf
<1> DEFINE S == Slice(Main, pc[Main] + 1, IndexOf(s) - 1)
           R == UnitsOf(S)
           Q == P \ R
<1>5. Whole(S)
  BY <1>1, <1>4 DEF SkipsWhole
<1>6. /\ lc' = SkipUnits(l, TotalUnitsOf(S))
      /\ pc'[Main] = IndexOf(s) /\ ctl'[Main] = "ready"
      /\ \A u \in Threads : u # Main => pc'[u] = pc[u] /\ ctl'[u] = ctl[u] /\ Cur(u)' = Cur(u)
  BY <1>1, <1>2 DEF JumpTo, Cur
<1>7. ASSUME NEW r
      PROVE  r \in Nested(S) <=>
               \E j \in DOMAIN Body[Main] : /\ j > pc[Main] /\ j < IndexOf(s)
                                            /\ r \in Nested({Body[Main][j]})
  <2>1. \A j \in DOMAIN Body[Main] :
          j \in (pc[Main] + 1)..(IndexOf(s) - 1) <=> j > pc[Main] /\ j < IndexOf(s)
    BY <1>2, <1>3, BodyType
  <2> QED
    BY <2>1, NestedSlice
<1> HIDE DEF S
<1>8. ASSUME NEW j \in DOMAIN Body[Main], j > pc[Main] PROVE ~Reached(Main, j)
  BY <1>2, <1>8, BodyType DEF Reached
<1>9. \A r \in Nested(S) : Coming(r)
  BY <1>2, <1>7, <1>8 DEF Coming
<1>10. /\ R \subseteq P
       /\ \A x \in P : x \in R <=> x[1] \in Nested(S)
       /\ \A x \in R : x[1] \in Nested(S) /\ ~StepReached(x[1])
  BY <1>2, <1>5, <1>9, SkippedOwed DEF StandInv, Outstanding
<1>11. Tally(lc', Q)
  <2>1. Tally(l, P)
    BY <1>1, TallySame DEF Outstanding
  <2> QED
    BY <1>1, <1>6, <1>10, <2>1, SkipTally
<1>12. ASSUME NEW x \in R PROVE ~Coming(x[1])'
  <2> SUFFICES ASSUME Coming(x[1])' PROVE FALSE
    OBVIOUS
  <2>1. PICK u \in Threads : Alive(u)' /\ \E k \in DOMAIN Body[u] :
          ~Reached(u, k)' /\ x[1] \in Nested({Body[u][k]})
    BY DEF Coming
  <2>2. PICK k \in DOMAIN Body[u] : ~Reached(u, k)' /\ x[1] \in Nested({Body[u][k]})
    BY <2>1
  <2>3. k \in Nat /\ ~Reached(u, k) /\ Alive(u)
    BY <1>2, <1>6, <2>1, <2>2, BodyType DEF Forward, Alive
  <2>4. PICK j \in DOMAIN Body[Main] :
          j > pc[Main] /\ j < IndexOf(s) /\ x[1] \in Nested({Body[Main][j]})
    BY <1>7, <1>10
  <2>5. u = Main /\ k = j
    <3>1. ctl[u] # "idle" /\ ctl[Main] # "idle"
      BY <1>2, <2>3 DEF Alive, BusyStates, AtGate
    <3> QED
      BY <1>2, <1>8, <2>2, <2>3, <2>4, <3>1, Frontier
  <2> QED
    BY <1>6, <2>2, <2>4, <2>5 DEF Reached
<1>13. ASSUME NEW x \in Q PROVE Awaits(x[1])'
  <2>1. PICK u \in Threads : Live(u) /\ HasAhead(u, x[1])
    BY DEF Outstanding, Owed, Awaits
  <2>2. CASE u # Main
    <3>1. Live(u)' /\ HasAhead(u, x[1])'
      BY <1>6, <2>1, <2>2 DEF Live, Alive, HasAhead
    <3> QED
      BY <3>1 DEF Awaits
  <2>3. CASE u = Main
    <3>1. PICK k \in DOMAIN Body[Main] : k >= pc[Main] /\ k # pc[Main] /\ x[1] \in Nested({Body[Main][k]})
      BY <1>1, <2>1, <2>3 DEF HasAhead
    <3>2. k \in Nat /\ k > pc[Main]
      BY <1>2, <3>1, BodyType
    <3>3. ~(k < IndexOf(s))
      BY <1>7, <1>10, <3>1, <3>2
    <3>4. k >= IndexOf(s)
      BY <1>3, <3>2, <3>3
    <3>5. Live(Main)' /\ HasAhead(Main, x[1])'
      BY <1>6, <3>1, <3>4 DEF Live, Alive, BusyStates, AtGate, HasAhead
    <3> QED
      BY <1>2, <3>5 DEF Awaits
  <2> QED
    BY <2>2, <2>3
<1>14. \A u \in Threads : /\ Alive(u)' => Alive(u)
                          /\ ctl'[u] \in {"activity", "prep"} => ctl'[u] = ctl[u] /\ Cur(u)' = Cur(u)
  BY <1>2, <1>6 DEF Alive
<1>15. Q \in SUBSET P /\ P \ Q = R /\ UNCHANGED item
  BY <1>1, <1>10
<1> HIDE DEF R, Q
<1> QED
  BY <1>10, <1>11, <1>12, <1>13, <1>14, <1>15, OutstandingKept

\* An item that completes is paid off; one that fails stays owed.
LEMMA ItemOwes ==
  ASSUME IInv, PlaceInv, KindInv, StandInv, NEW P, Outstanding(P),
         NEW x \in Items, ItemCompletes(x) \/ ItemFails(x)
  PROVE  \E Q : Outstanding(Q)'
<1>0. /\ lc \in LifecycleState /\ item \in [Items -> {"waiting", "running", "done", "failed"}]
      /\ UNCHANGED <<pc, ctl, context>> /\ item[x] = "running"
      /\ x[1] \in Mapped /\ x \in ItemsOf(x[1])
  BY ItemTurns DEF IInv, LifeOK, DataOK
<1>1. /\ Counted(P, x[1]) /\ x \in P /\ StepReached(x[1])
  BY <1>0 DEF Outstanding, Working, Counted, StandInv, NothingAhead
<1>2. /\ \A r : Awaits(r)' <=> Awaits(r)
      /\ \A r : StepReached(r)' <=> StepReached(r)
      /\ \A r : Coming(r)' <=> Coming(r)
      /\ \A u \in Threads : Cur(u)' = Cur(u) /\ ctl'[u] = ctl[u]
  BY <1>0 DEF Awaits, Live, Alive, HasAhead, StepReached, Reached, Coming, Cur
<1> DEFINE Settles(Q) ==
      /\ Q = IF item'[x] = "done" THEN P \ {x} ELSE P
      /\ Tally(lc', Q)
<1>3. \E Q : Settles(Q)
  <2>1. CASE ItemCompletes(x)
    <3>1. lc' = UnitCompleted(lc) /\ item'[x] = "done"
      BY <2>1, ItemTurns DEF ItemCompletes
    <3>2. Tally(lc', P \ {x})
      BY <1>0, <1>1, <3>1, TallyDone DEF UnitCompleted, LifecycleState, Outstanding
    <3> QED
      BY <3>1, <3>2
  <2>2. CASE ItemFails(x)
    <3>1. lc' = lc /\ item'[x] = "failed"
      BY <1>0, <2>2 DEF ItemFails
    <3> QED
      BY <3>1 DEF Outstanding
  <2> QED
    BY <2>1, <2>2
<1>4. PICK Q : Settles(Q)
  BY <1>3
<1>5. Q \subseteq P /\ (x \in Q => item'[x] # "done") /\ \A y \in P : y # x \/ item'[x] # "done" => y \in Q
  BY <1>1, <1>4
<1> HIDE DEF Settles
<1>6. Owed(Q)'
  <2> SUFFICES ASSUME NEW y \in Q
               PROVE  /\ y \in Items => item'[y] # "done"
                      /\ Awaits(y[1]) /\ (FromInput(y[1]) \/ StepReached(y[1]))
    BY <1>2 DEF Owed, FromInput
  <2>1. y \in P /\ (y \in Items => item[y] # "done") /\ Awaits(y[1])
        /\ (FromInput(y[1]) \/ StepReached(y[1]))
    BY <1>5 DEF Outstanding, Owed
  <2>2. y \in Items /\ y # x => item'[y] # "done"
    BY <2>1, ItemTurns
  <2> QED
    BY <1>5, <2>1, <2>2
<1>7. Covers(Q)'
  <2> SUFFICES ASSUME NEW y \in Units, Coming(y[1]), FromInput(y[1]) PROVE y \in Q
    BY <1>2 DEF Covers, FromInput
  <2>1. y \in P /\ ~StepReached(y[1])
    BY ComingUnreached DEF Outstanding, Covers
  <2> QED
    BY <1>1, <1>5, <2>1
<1>8. ASSUME NEW s, Counted(P, s) PROVE \A y \in Items : y[1] = s /\ item'[y] # "done" => y \in Q
  <2> SUFFICES ASSUME NEW y \in Items, y[1] = s, item'[y] # "done" PROVE y \in Q
    OBVIOUS
  <2>1. CASE y = x
    BY <1>1, <1>5, <2>1
  <2>2. CASE y # x
    <3>1. item[y] # "done"
      BY <2>2, ItemTurns
    <3> QED
      BY <1>5, <1>8, <2>2, <3>1 DEF Counted
  <2> QED
    BY <2>1, <2>2
<1>9. Working(Q)'
  <2>1. ASSUME NEW u \in Threads, ctl[u] = "activity" PROVE <<Cur(u), 0>> \in Q
    <3>1. <<Cur(u), 0>> \in P /\ Cur(u) \in Atomic
      BY <2>1 DEF Outstanding, Working, KindInv
    <3>2. <<Cur(u), 0>> # x
      BY <1>0, <3>1 DEF Atomic, Mapped
    <3> QED
      BY <1>5, <3>1, <3>2
  <2>2. ASSUME NEW u \in Threads, ctl[u] = "prep"
        PROVE  \A y \in Items : y[1] = Cur(u) /\ item'[y] # "done" => y \in Q
    BY <1>8, <2>2 DEF Outstanding, Working
  <2>3. ASSUME NEW z \in Items, item'[z] # "waiting"
        PROVE  \A y \in Items : y[1] = z[1] /\ item'[y] # "done" => y \in Q
    <3>1. CASE item[z] # "waiting"
      BY <1>8, <3>1 DEF Outstanding, Working
    <3>2. CASE item[z] = "waiting"
      <4>1. z[1] = x[1]
        BY <1>0, <2>3, <3>2, ItemTurns, MappedUnits
      <4> QED
        BY <1>1, <1>8, <4>1
    <3> QED
      BY <3>1, <3>2
  <2> QED
    BY <1>2, <2>1, <2>2, <2>3 DEF Working, Counted
<1>10. Tally(lc, Q)'
  BY <1>4 DEF Tally, Settles
<1> QED
  BY <1>6, <1>7, <1>9, <1>10 DEF Outstanding

OwesInv == IInv /\ PlaceInv /\ KindInv /\ StandInv /\ PcInv /\ ProgressInv

LEMMA InitOwes == Init => OwesInv
<1> SUFFICES ASSUME Init PROVE OwesInv
  OBVIOUS
<1>1. IInv /\ PlaceInv /\ StandInv
  BY InitInv, InitPlace, InitStand
<1>2. KindInv /\ PcInv
  BY DEF Init, KindInv, PcInv
<1>3. \A u \in Threads : ctl[u] \in {"start", "idle"}
  BY DEF Init
<1>4. Tally(lc, {})
  <2>1. Cardinality({}) = 0
    BY FS_EmptySet
  <2> QED
    BY <2>1 DEF Init, NewLifecycle, Tally
<1>5. Owed({})
  BY DEF Owed
<1>6. Covers({})
  BY <1>3 DEF Covers, Coming, Alive, BusyStates, AtGate
<1>7. Working({})
  BY <1>3 DEF Init, Working
<1>8. Outstanding({})
  BY <1>4, <1>5, <1>6, <1>7 DEF Outstanding
<1> QED
  BY <1>1, <1>2, <1>8 DEF OwesInv, ProgressInv

LEMMA NextPc ==
  ASSUME IInv, PcInv, [Next]_vars
  PROVE  PcInv'
<1>0. pc \in [Threads -> Nat] /\ Main \in Threads
  BY MainIsThread DEF IInv, ControlOK
<1>1. CASE \E t \in Threads : Step(t)
  <2> SUFFICES ASSUME NEW t \in Threads, Step(t), NEW u \in Threads PROVE pc'[u] >= 1
    BY <1>1 DEF PcInv
  <2>1. Turn(t) /\ ctl[t] \in BusyStates
    BY StepTurns, StepMoves DEF Moves
  <2>2. pc'[u] = pc[u] \/ pc'[u] = pc[u] + 1
    BY <2>1, TurnControl
  <2> QED
    BY <1>0, <2>2 DEF PcInv
<1>2. CASE ItemSettles
  BY <1>2 DEF ItemSettles, ItemCompletes, ItemFails, PcInv
<1>3. CASE Start \/ TurnJumps \/ TurnRests
  <2>1. CASE Start \/ TurnRests
    BY <2>1 DEF Start, TurnRests, PcInv
  <2>2. CASE TurnJumps
    <3>0. PICK l \in LifecycleState, g \in Gates : \E s \in Routes(g) : JumpTo(s, l)
      BY <2>2 DEF TurnJumps
    <3>1. PICK s \in Routes(g) : JumpTo(s, l)
      BY <3>0
    <3>2. IndexOf(s) >= 1
      <4>1. Body[Main] \in Seq(Steps) /\ IndexOf(s) \in DOMAIN Body[Main]
        BY <1>0, <3>1, RouteIndex, BodyType DEF Routes
      <4> QED
        BY <4>1
    <3> QED
      BY <1>0, <3>1, <3>2 DEF JumpTo, PcInv
  <2> QED
    BY <1>3, <2>1, <2>2
<1> QED
  BY <1>1, <1>2, <1>3, OtherTurns DEF Next, Closed

LEMMA NextOwes ==
  ASSUME SkipsWhole, OwesInv, [Next]_vars
  PROVE  OwesInv'
<1>1. IInv' /\ PlaceInv' /\ KindInv' /\ StandInv' /\ PcInv' /\ \A u \in Threads : Forward(u)
  BY StepInv, NextForward, NextStand, NextPc DEF OwesInv
<1>2. CASE \E t \in Threads : Step(t)
  BY <1>1, <1>2, StepProgress DEF OwesInv
<1>3. CASE ~\E t \in Threads : Step(t)
  <2> SUFFICES \E Q : Outstanding(Q)'
    BY <1>1 DEF OwesInv, ProgressInv
  <2>1. PICK P : Outstanding(P)
    BY DEF OwesInv, ProgressInv
  <2>2. CASE ItemSettles
    BY <2>1, <2>2, ItemOwes DEF ItemSettles, OwesInv
  <2>3. CASE Start
    BY <2>3, StartOwes DEF OwesInv
  <2>4. CASE TurnJumps
    BY <1>1, <2>1, <2>4, JumpOwes DEF OwesInv
  <2>5. CASE TurnRests
    BY <1>1, <2>1, <2>5, RestOwes DEF OwesInv
  <2> QED
    BY <1>3, <2>2, <2>3, <2>4, <2>5, OtherTurns DEF Next, Closed, OwesInv
<1> QED
  BY <1>2, <1>3

\* A run that has returned has nobody left who could owe anything.
LEMMA ReturnedOwesNothing ==
  ASSUME OwesInv, ctl[Main] = "returned", NEW u \in Threads
  PROVE  ~Live(u)
<1>1. PICK level \in [Threads -> 0..3] : \A t \in Threads : \A i \in DOMAIN Body[t] :
        \A b \in BranchesOf[Body[t][i]] : level[t] < level[b]
  BY PlanTree DEF PlanTree
<1> DEFINE L(b) == ctl[b] \in BusyStates \cup {"failed"}
<1>2. ASSUME NEW b \in Branches, L(b)
      PROVE  \E c \in Branches : L(c) /\ level[c] < level[b]
  <2>1. PICK t \in Threads : /\ pc[t] \in DOMAIN Body[t] /\ b \in BranchesOf[Cur(t)]
                             /\ ctl[t] \in {"fanout", "failed"} \cup Ending
    BY <1>2 DEF OwesInv, StandInv, BranchesHeld
  <2>2. t \in Branches
    BY <2>1 DEF Threads, Ending
  <2>3. ctl[t] \in {"fanout", "failed"}
    BY <2>1, <2>2 DEF OwesInv, StandInv, BranchControl, BranchStates, BusyStates, Ending
  <2>4. level[t] < level[b]
    BY <1>1, <2>1 DEF Cur
  <2> QED
    BY <2>2, <2>3, <2>4 DEF BusyStates
<1>3. \A b \in Branches : level[b] \in 0..3
  BY <1>1 DEF Threads
<1> HIDE DEF L
<1>4. \A b \in Branches : L(b) => level[b] # 0
  BY <1>2, <1>3
<1>5. \A b \in Branches : L(b) => level[b] \notin {0, 1}
  BY <1>2, <1>3, <1>4
<1>6. \A b \in Branches : L(b) => level[b] \notin {0, 1, 2}
  BY <1>2, <1>3, <1>5
<1>7. \A b \in Branches : ~L(b)
  BY <1>2, <1>3, <1>6
<1>8. CASE u = Main
  BY <1>8 DEF Live, Alive, BusyStates, AtGate, Ending
<1>9. CASE u \in Branches
  BY <1>7, <1>9 DEF L, OwesInv, StandInv, BranchControl, BranchStates, BusyStates, Live, Alive, AtGate, Ending
<1> QED
  BY <1>8, <1>9 DEF Threads

\* In every run of a plan whose skips are whole - native cancellation, failures,
\* routes and gated branches included - the progress total never falls below
\* what is completed, and a run that returns has completed exactly its total:
\* the additions, skips and completions that the handlers make one at a time add
\* up (lifecycle.ts, workflows.ts; docs/yaml.md:1685-1693).
THEOREM ProgressCompletesHolds ==
  ASSUME SkipsWhole
  PROVE  Spec => []ProgressCompletes
<1>1. OwesInv => ProgressCompletes
  <2> SUFFICES ASSUME OwesInv PROVE ProgressCompletes
    OBVIOUS
  <2>1. PICK P : Outstanding(P)
    BY DEF OwesInv, ProgressInv
  <2>2. /\ IsFiniteSet(P) /\ Cardinality(P) \in Nat
        /\ lc.totalUnits = lc.completedUnits + Cardinality(P)
        /\ lc.completedUnits \in Nat
    BY <2>1, TallyFinite DEF Outstanding, Tally, OwesInv, IInv, LifeOK, LifecycleState
  <2>3. ASSUME ctl[Main] = "returned" PROVE Cardinality(P) = 0
    <3>1. P = {}
      BY <2>1, <2>3, ReturnedOwesNothing DEF Outstanding, Owed, Awaits
    <3> QED
      BY <3>1, FS_EmptySet
  <2> QED
    BY <2>2, <2>3 DEF ProgressCompletes
<1>2. OwesInv /\ [Next]_vars => OwesInv'
  BY NextOwes
<1> QED
  BY <1>1, <1>2, InitOwes, PTL DEF Spec
=============================================================================
