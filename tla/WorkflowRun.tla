---------------------------- MODULE WorkflowRun ----------------------------
(***************************************************************************)
(* One execution of typefluxYamlWorkflow (temporal-yaml/src/workflows.ts): *)
(* the interpreter walks the plan, fans out maps and parallel blocks,      *)
(* waits at review gates, honours the cooperative cancel signal, and on a  *)
(* failure or a cancellation unwinds the compensation stack.               *)
(*                                                                         *)
(* A thread is one running step sequence: Main, and one per branch of a    *)
(* parallel block.  The code between two awaits runs without interruption, *)
(* so an action is the code from the result of one await to the next; a    *)
(* thread that is at the top of its loop ("ready", "poll", "unwind"), or   *)
(* has a result in hand ("resolved"), has the processor, and signals       *)
(* arrive only when none has (Temporal applies the signals of an           *)
(* activation before its other jobs).                                      *)
(***************************************************************************)
EXTENDS Lifecycle, Sequences

CONSTANTS
  Branches,        \* branch ids of the parallel blocks
  Body,            \* thread -> its sequence of steps
  Kind,            \* step -> activity, subworkflow, map, subworkflowMap or parallel
  BranchesOf,      \* step -> its branches, {} unless it is parallel
  Over,            \* map step -> "input" or the step whose output it maps over
  Size,            \* map step -> its number of items
  Concurrency,     \* map step -> its worker count
  Gated,           \* steps and branches with a when: predicate
  Compensated,     \* steps with compensate:
  Fragile,         \* steps whose over or input_from may not resolve at run time
  SessionCache,    \* map steps with a cached provider session
  CollectLimited,  \* fan-out steps with collect.max_bytes
  NativeCancel,    \* whether Temporal's own cancellation may arrive
  MaxReviews       \* bound on the review commands a run receives

Main == "main"
Threads == {Main} \cup Branches

Atomic   == {s \in Steps : Kind[s] \in {"activity", "subworkflow"}}
Mapped   == {s \in Steps : Kind[s] \in {"map", "subworkflowMap"}}
Parallel == {s \in Steps : Kind[s] = "parallel"}

\* Items of the map steps; item 0 stands for the whole of an atomic step.
ItemsOf(s) == {s} \X (1..Size[s])
Items == UNION {ItemsOf(s) : s \in Mapped}

\* The operations a compensation can undo: a step, or one item of a map.
Ops == Steps \X Nat

ASSUME PlanAssumption ==
  /\ Main \notin Branches
  /\ Body \in [Threads -> Seq(Steps)]
  /\ Kind \in [Steps -> {"activity", "subworkflow", "map", "subworkflowMap", "parallel"}]
  /\ BranchesOf \in [Steps -> SUBSET Branches]
  /\ \A s \in Steps : BranchesOf[s] # {} => s \in Parallel
  /\ Over \in [Steps -> Steps \cup {"input"}]
  /\ Size \in [Steps -> Nat]
  /\ Concurrency \in [Steps -> Nat \ {0}]
  /\ Gated \subseteq Steps \cup Branches
  /\ Compensated \subseteq {s \in Steps : Kind[s] \in {"activity", "subworkflow", "map"}}
  /\ Fragile \subseteq Compensated \cup Mapped
  /\ SessionCache \subseteq {s \in Steps : Kind[s] = "map"}
  /\ CollectLimited \subseteq Mapped \cup Parallel
  /\ NativeCancel \in BOOLEAN
  /\ MaxReviews \in Nat
  /\ IsFiniteSet(Steps)

\* Step ids are unique, a block owns its branches, gates follow top-level
\* steps and route forward (build-workflow.ts rejects any other plan).
ASSUME PlanShape ==
  /\ \A t, u \in Threads : \A i \in DOMAIN Body[t], j \in DOMAIN Body[u] :
       Body[t][i] = Body[u][j] => t = u /\ i = j
  /\ \A r, s \in Steps : r # s => BranchesOf[r] \cap BranchesOf[s] = {}
  /\ \A g \in Gates : \E i \in DOMAIN Body[Main] :
       /\ Body[Main][i] = AfterStep[g]
       /\ \A s \in ({UserDecisions[g][d] : d \in Decisions} \cup {TimeoutRoute[g]}) \ {Null} :
            \E j \in DOMAIN Body[Main] : i < j /\ Body[Main][j] = s

\* planStepsFromSpec walks a tree and admits three parallel levels.
ASSUME PlanTree ==
  \E level \in [Threads -> 0..3] : \A t \in Threads : \A i \in DOMAIN Body[t] :
    \A b \in BranchesOf[Body[t][i]] : level[t] < level[b]

VARIABLES
  pc,              \* thread -> index of its current step
  ctl,             \* thread -> what it is doing or waiting for
  item,            \* map item -> its progress through the fan-out
  context,         \* ids of the steps recorded in the context
  compensationStack,  \* batches <<step, item indices>>, one per push
  effects,         \* history: compensated operations that did complete
  undone,          \* history: operations in the order their compensation ran
  anyFailed,       \* a compensation failed
  cause,           \* what the main sequence threw
  rootCancelled,   \* Temporal cancelled the root scope
  lc,              \* the LifecycleRuntime
  reviews          \* review commands received (bounded by MaxReviews)

vars == <<pc, ctl, item, context, compensationStack, effects, undone,
          anyFailed, cause, rootCancelled, lc, reviews>>
-----------------------------------------------------------------------------
(* Geometry of the plan *)

Cur(t) == Body[t][pc[t]]
AtStep(t) == ctl[t] = "ready" /\ pc[t] \in DOMAIN Body[t]
Slice(t, i, j) == {Body[t][k] : k \in (i..j) \cap DOMAIN Body[t]}
IndexOf(s) == CHOOSE k \in DOMAIN Body[Main] : Body[Main][k] = s

\* Steps below a set of steps; planStepsFromSpec admits three parallel levels.
Inside(S) == UNION {Slice(b, 1, Len(Body[b])) : b \in UNION {BranchesOf[s] : s \in S}}
Nested(S) == S \cup Inside(S) \cup Inside(Inside(S)) \cup Inside(Inside(Inside(S)))

\* The value a map ranges over is in the context.
OverKnown(s) == Over[s] = "input" \/ Over[s] \in context

\* Bug: the steps inside parallel blocks are not counted.
UnitsOfTopLevel(S) ==
  {x \in Items \cup (Atomic \X {0}) : x[1] \in S /\ (x[1] \in Mapped => OverKnown(x[1]))}

\* The progress units of a set of steps: one per atomic step, one per item of
\* a map whose items are known.
UnitsOf(S) ==
  {x \in Items \cup (Atomic \X {0}) :
     /\ x[1] \in Nested(S)
     /\ x[1] \in Mapped => OverKnown(x[1])}
TotalUnitsOf(S) == Cardinality(UnitsOf(S))

Open == ctl[Main] \notin {"returned", "threw"}
Unwinding == ctl[Main] \in {"unwind", "compensating", "threw"}

\* Bug: a fan-out does not look at the cancel flag.
FanOutCancelledNatively == rootCancelled

\* Bug: work is scheduled in a scope that is never cancelled.
ScopeNeverCancelled(t) == FALSE

\* Work scheduled by thread t, or by a fan-out, is rejected at once.
FanOutCancelled == rootCancelled \/ (Cancellation /\ lc.cancellationRequested)
ScopeCancelled(t) == rootCancelled \/ (t # Main /\ FanOutCancelled)

\* Bug: a cancelled fan-out is not awaited.
FanOutNotAwaited(t) ==
  \/ FanOutCancelled
  \/ IF Cur(t) \in Mapped
     THEN \A x \in ItemsOf(Cur(t)) : item[x] # "running"
     ELSE \A b \in BranchesOf[Cur(t)] : ctl[b] \in {"done", "failed", "skipped"}

\* Bug: a failed branch never counts as settled.
FanOutWaitsForDone(t) ==
  IF Cur(t) \in Mapped
  THEN \A x \in ItemsOf(Cur(t)) : item[x] # "running"
  ELSE \A b \in BranchesOf[Cur(t)] : ctl[b] \in {"done", "skipped"}

FanOutSettled(t) ==
  IF Cur(t) \in Mapped
  THEN \A x \in ItemsOf(Cur(t)) : item[x] # "running"
  ELSE \A b \in BranchesOf[Cur(t)] : ctl[b] \in {"done", "failed", "skipped"}

\* fanOutCancellable races condition(), which a native cancel rejects.
RaceRejected(t) == Cancellation /\ rootCancelled /\ ~lc.cancellationRequested

Quiescent ==
  \A t \in Threads :
    /\ ctl[t] \notin {"ready", "resolved", "poll", "unwind"}
    /\ ctl[t] = "fanout" => ~FanOutSettled(t) /\ ~RaceRejected(t)
    /\ ~(ctl[t] = "review" /\ rootCancelled)
-----------------------------------------------------------------------------
(* Moves shared by the handlers *)

\* Thread t throws: the main sequence starts to unwind, a branch rejects.
Throw(t, why) ==
  /\ ctl' = [ctl EXCEPT ![t] = IF t = Main THEN "unwind" ELSE "failed"]
  /\ cause' = IF t = Main THEN why ELSE cause
  /\ UNCHANGED pc

\* Bug: a cancelled run takes no more compensations.
PushUnlessCancelled(s, I) ==
  compensationStack' =
    IF s \in Compensated /\ I # {} /\ ~rootCancelled THEN Append(compensationStack, <<s, I>>)
    ELSE compensationStack

Push(s, I) ==
  compensationStack' =
    IF s \in Compensated /\ I # {} THEN Append(compensationStack, <<s, I>>)
    ELSE compensationStack

\* Bug: what a map has claimed is taken for completed.
ClaimedIndices(s) == {i \in 1..Size[s] : item[<<s, i>>] \in {"running", "done"}}

\* The items a map has completed: what its finally block pushes.
CompletedIndices(s) == {i \in 1..Size[s] : item[<<s, i>>] = "done"}

\* Thread t goes on after its step: to the next one, or into the step's gate.
StepDone(t, l) ==
  LET gates == IF t = Main THEN PendingGatesAfter(l, Cur(t)) ELSE {}
  IN  /\ context' = context \cup {Cur(t)}
      /\ IF gates = {}
         THEN /\ pc' = [pc EXCEPT ![t] = @ + 1]
              /\ ctl' = [ctl EXCEPT ![t] = "ready"]
              /\ lc' = l
         ELSE /\ ctl' = [ctl EXCEPT ![t] = "poll"]
              /\ lc' = WaitingForGate(l, CHOOSE g \in gates : TRUE)
              /\ UNCHANGED pc
      /\ UNCHANGED cause

\* Bug: the workers go on after a failure.
ClaimAfterFailure(s, f) ==
  LET settled == {x \in ItemsOf(s) : f[x] \in {"done", "failed"}}
  IN  [x \in Items |->
         IF /\ x \in ItemsOf(s) /\ f[x] = "waiting"
            /\ x[2] <= Concurrency[s] + Cardinality(settled)
         THEN IF FanOutCancelled THEN "failed" ELSE "running"
         ELSE f[x]]

\* Workers claim waiting items in order, one each time one settles, until an
\* item fails; in a cancelled scope the claimed activity rejects at once.
Claim(s, f) ==
  LET settled == {x \in ItemsOf(s) : f[x] = "done"}
      claimed == {x \in ItemsOf(s) : /\ f[x] = "waiting"
                                     /\ x[2] <= Concurrency[s] + Cardinality(settled)
                                     /\ \A y \in ItemsOf(s) : f[y] # "failed"}
  IN  [x \in Items |-> IF x \notin claimed THEN f[x]
                       ELSE IF FanOutCancelled THEN "failed" ELSE "running"]
-----------------------------------------------------------------------------
(* Start, signals and cancellation *)

Init ==
  /\ pc = [t \in Threads |-> 1]
  /\ ctl = [t \in Threads |-> IF t = Main THEN "start" ELSE "idle"]
  /\ item = [x \in Items |-> "waiting"]
  /\ context = {}
  /\ compensationStack = <<>>
  /\ effects = {}
  /\ undone = <<>>
  /\ anyFailed = FALSE
  /\ cause = "none"
  /\ rootCancelled = FALSE
  /\ lc = NewLifecycle
  /\ reviews = 0

Start ==
  /\ ctl[Main] = "start"
  /\ ctl' = [ctl EXCEPT ![Main] = "ready"]
  /\ lc' = Started(AddUnits(lc, TotalUnitsOf(Slice(Main, 1, Len(Body[Main])))))
  /\ UNCHANGED <<pc, item, context, compensationStack, effects, undone,
                 anyFailed, cause, rootCancelled, reviews>>

RequestCancel ==
  /\ Open /\ Quiescent
  /\ lc' = RequestCancelled(lc)
  /\ UNCHANGED <<pc, ctl, item, context, compensationStack, effects, undone,
                 anyFailed, cause, rootCancelled, reviews>>

SubmitReview ==
  /\ Open /\ Quiescent
  /\ reviews < MaxReviews
  /\ reviews' = reviews + 1
  /\ \/ \E named \in Gates \cup {Null}, d \in Decisions : lc' = SubmittedReview(lc, named, d)
     \/ lc' = SubmittedMalformed(lc)
  /\ UNCHANGED <<pc, ctl, item, context, compensationStack, effects, undone,
                 anyFailed, cause, rootCancelled>>

CancelNatively ==
  /\ NativeCancel
  /\ Open /\ Quiescent
  /\ rootCancelled' = TRUE
  /\ UNCHANGED <<pc, ctl, item, context, compensationStack, effects, undone,
                 anyFailed, cause, lc, reviews>>
-----------------------------------------------------------------------------
(* The top of the loop of a sequence *)

RaiseIfCancelled(t) ==
  /\ Open
  /\ AtStep(t)
  /\ lc.cancellationRequested
  /\ Throw(t, "cancelled")
  /\ UNCHANGED <<item, context, compensationStack, effects, undone, anyFailed,
                 rootCancelled, lc, reviews>>

EndSequence(t, l) ==
  /\ ctl' = [ctl EXCEPT ![t] = IF t = Main THEN "returned" ELSE "done"]
  /\ lc' = IF t = Main THEN Completed(l) ELSE l

\* A false when: skips the step and the rest of its sequence.
SkipRemainder(t) ==
  /\ Open
  /\ AtStep(t)
  /\ ~lc.cancellationRequested
  /\ Cur(t) \in Gated
  /\ EndSequence(t, SkipUnits(lc, TotalUnitsOf(Slice(t, pc[t], Len(Body[t])))))
  /\ UNCHANGED <<pc, item, context, compensationStack, effects, undone,
                 anyFailed, cause, rootCancelled, reviews>>

FinishSequence(t) ==
  /\ Open
  /\ ctl[t] = "ready" /\ pc[t] \notin DOMAIN Body[t]
  /\ EndSequence(t, lc)
  /\ UNCHANGED <<pc, item, context, compensationStack, effects, undone,
                 anyFailed, cause, rootCancelled, reviews>>
-----------------------------------------------------------------------------
(* Activity and sub-workflow steps *)

StartAtomic(t) ==
  /\ Open
  /\ AtStep(t)
  /\ ~lc.cancellationRequested
  /\ Cur(t) \in Atomic
  /\ IF ScopeCancelled(t) THEN Throw(t, "failure")
     ELSE ctl' = [ctl EXCEPT ![t] = "activity"] /\ UNCHANGED <<pc, cause>>
  /\ UNCHANGED <<item, context, compensationStack, effects, undone, anyFailed,
                 rootCancelled, lc, reviews>>

\* The result arrives: the effect is there and the unit counts, but the step is
\* not recorded before the promises above it have resolved.
AtomicCompletes(t) ==
  /\ Open
  /\ ctl[t] = "activity"
  /\ effects' = IF Cur(t) \in Compensated THEN effects \cup {<<Cur(t), 0>>} ELSE effects
  /\ lc' = UnitCompleted(lc)
  /\ ctl' = [ctl EXCEPT ![t] = "resolved"]
  /\ UNCHANGED <<pc, item, context, compensationStack, undone, anyFailed, cause,
                 rootCancelled, reviews>>

\* The sequence takes the result, in the same activation.
AtomicRecorded(t) ==
  /\ Open
  /\ ctl[t] = "resolved"
  /\ \/ /\ Push(Cur(t), {0})
        /\ StepDone(t, lc)
     \/ /\ Cur(t) \in Fragile          \* input_from does not resolve: nothing is pushed
        /\ context' = context \cup {Cur(t)}
        /\ Throw(t, "failure")
        /\ UNCHANGED <<lc, compensationStack>>
  /\ UNCHANGED <<item, effects, undone, anyFailed, rootCancelled, reviews>>

AtomicFails(t) ==
  /\ Open
  /\ ctl[t] = "activity"
  /\ Throw(t, "failure")
  /\ UNCHANGED <<item, context, compensationStack, effects, undone, anyFailed,
                 rootCancelled, lc, reviews>>
-----------------------------------------------------------------------------
(* Map steps *)

FanOutItems(t) ==
  /\ ctl' = [ctl EXCEPT ![t] = "fanout"]
  /\ item' = Claim(Cur(t), item)
  /\ UNCHANGED <<pc, cause>>

StartMap(t) ==
  /\ Open
  /\ AtStep(t)
  /\ ~lc.cancellationRequested
  /\ Cur(t) \in Mapped
  /\ \/ /\ ~OverKnown(Cur(t)) \/ Cur(t) \in Fragile
        /\ Throw(t, "failure")
        /\ UNCHANGED <<item, lc>>
     \/ /\ OverKnown(Cur(t))
        /\ lc' = IF Over[Cur(t)] = "input" THEN lc ELSE AddUnits(lc, Size[Cur(t)])
        /\ \/ /\ Cur(t) \notin SessionCache \/ Size[Cur(t)] = 0
              /\ FanOutItems(t)
           \/ /\ Cur(t) \in SessionCache /\ Size[Cur(t)] > 0
              /\ IF ScopeCancelled(t) THEN Throw(t, "failure")
                 ELSE ctl' = [ctl EXCEPT ![t] = "prep"] /\ UNCHANGED <<pc, cause>>
              /\ UNCHANGED item
  /\ UNCHANGED <<context, compensationStack, effects, undone, anyFailed,
                 rootCancelled, reviews>>

PrepCompletes(t) ==
  /\ Open
  /\ ctl[t] = "prep"
  /\ FanOutItems(t)
  /\ UNCHANGED <<context, compensationStack, effects, undone, anyFailed,
                 rootCancelled, lc, reviews>>

PrepFails(t) ==
  /\ Open
  /\ ctl[t] = "prep"
  /\ Throw(t, "failure")
  /\ UNCHANGED <<item, context, compensationStack, effects, undone, anyFailed,
                 rootCancelled, lc, reviews>>

ItemCompletes(x) ==
  /\ Open
  /\ item[x] = "running"
  /\ item' = Claim(x[1], [item EXCEPT ![x] = "done"])
  /\ effects' = IF x[1] \in Compensated THEN effects \cup {x} ELSE effects
  /\ lc' = UnitCompleted(lc)
  /\ UNCHANGED <<pc, ctl, context, compensationStack, undone, anyFailed,
                 cause, rootCancelled, reviews>>

ItemFails(x) ==
  /\ Open
  /\ item[x] = "running"
  /\ item' = [item EXCEPT ![x] = "failed"]
  /\ UNCHANGED <<pc, ctl, context, compensationStack, effects, undone,
                 anyFailed, cause, rootCancelled, lc, reviews>>

\* Bug: the completed items are pushed after the fan-out, not in a finally.
MapEndsOnSuccess(t, outcome) ==
  IF outcome = "ok" THEN Push(Cur(t), CompletedIndices(Cur(t))) /\ StepDone(t, lc)
  ELSE Throw(t, outcome) /\ UNCHANGED <<context, lc, compensationStack>>

\* The finally block of a map that ends with outcome "ok" or throws; an
\* input_from that does not resolve replaces the outcome and pushes nothing.
MapEnds(t, outcome) ==
  LET s == Cur(t)
  IN  \/ /\ Push(s, CompletedIndices(s))
         /\ IF outcome = "ok" THEN StepDone(t, lc)
            ELSE Throw(t, outcome) /\ UNCHANGED <<context, lc>>
      \/ /\ s \in Fragile \cap Compensated /\ CompletedIndices(s) # {}
         /\ Throw(t, "failure")
         /\ UNCHANGED <<context, lc, compensationStack>>

\* What the code after the fan-out does with the results: the collect limit.
Collected(s) == {"ok"} \cup IF s \in CollectLimited THEN {"failure"} ELSE {}

MapSettles(t) ==
  LET s == Cur(t)
      anyItemFailed == \E x \in ItemsOf(s) : item[x] = "failed"
      cancelled == Cancellation /\ lc.cancellationRequested
  IN  /\ Open
      /\ ctl[t] = "fanout" /\ s \in Mapped
      /\ FanOutSettled(t) /\ ~RaceRejected(t)
      /\ \/ cancelled /\ MapEnds(t, "cancelled")
         \/ ~cancelled /\ anyItemFailed /\ MapEnds(t, "failure")
         \/ /\ ~cancelled /\ ~anyItemFailed
            /\ \E outcome \in Collected(s) : MapEnds(t, outcome)
         \/ /\ ~cancelled /\ ~anyItemFailed /\ s \in SessionCache /\ Size[s] > 0
            /\ IF ScopeCancelled(t) THEN MapEnds(t, "failure")
               ELSE /\ ctl' = [ctl EXCEPT ![t] = "release"]
                    /\ UNCHANGED <<pc, cause, context, lc, compensationStack>>
      /\ UNCHANGED <<item, effects, undone, anyFailed, rootCancelled, reviews>>

\* A failed release is suppressed, unless it was cancelled.
ReleaseEnds(t) ==
  /\ Open
  /\ ctl[t] = "release"
  /\ \/ \E outcome \in Collected(Cur(t)) : MapEnds(t, outcome)
     \/ ScopeCancelled(t) /\ MapEnds(t, "failure")
  /\ UNCHANGED <<item, effects, undone, anyFailed, rootCancelled, reviews>>

\* A native cancel rejects the race at once, whatever is still in flight.
RaceRejects(t) ==
  /\ Open
  /\ ctl[t] = "fanout"
  /\ RaceRejected(t)
  /\ IF Cur(t) \in Mapped THEN MapEnds(t, "failure")
     ELSE Throw(t, "failure") /\ UNCHANGED <<context, lc, compensationStack>>
  /\ UNCHANGED <<item, effects, undone, anyFailed, rootCancelled, reviews>>
-----------------------------------------------------------------------------
(* Parallel steps *)

StartParallel(t) ==
  /\ Open
  /\ AtStep(t)
  /\ ~lc.cancellationRequested
  /\ Cur(t) \in Parallel
  /\ \E out \in SUBSET (BranchesOf[Cur(t)] \cap Gated) :
       /\ ctl' = [u \in Threads |-> IF u = t THEN "fanout"
                                    ELSE IF u \in out THEN "skipped"
                                    ELSE IF u \in BranchesOf[Cur(t)] THEN "ready"
                                    ELSE ctl[u]]
       /\ lc' = SkipUnits(lc, TotalUnitsOf(UNION {Slice(b, 1, Len(Body[b])) : b \in out}))
  /\ UNCHANGED <<pc, item, context, compensationStack, effects, undone,
                 anyFailed, cause, rootCancelled, reviews>>

ParallelSettles(t) ==
  LET s == Cur(t)
      anyBranchFailed == \E b \in BranchesOf[s] : ctl[b] = "failed"
      cancelled == Cancellation /\ lc.cancellationRequested
  IN  /\ Open
      /\ ctl[t] = "fanout" /\ s \in Parallel
      /\ FanOutSettled(t) /\ ~RaceRejected(t)
      /\ \/ cancelled /\ Throw(t, "cancelled") /\ UNCHANGED <<context, lc>>
         \/ ~cancelled /\ anyBranchFailed /\ Throw(t, "failure") /\ UNCHANGED <<context, lc>>
         \/ ~cancelled /\ ~anyBranchFailed /\ StepDone(t, lc)
         \/ /\ ~cancelled /\ ~anyBranchFailed /\ s \in CollectLimited
            /\ Throw(t, "failure") /\ UNCHANGED <<context, lc>>
      /\ UNCHANGED <<item, compensationStack, effects, undone, anyFailed,
                     rootCancelled, reviews>>
-----------------------------------------------------------------------------
(* The review gate: the wait loop after a gated top-level step *)

CurrentGate == CHOOSE g \in Gates : AfterStep[g] = Cur(Main)

\* Bug: a cancel request does not wake the gate.
PollingOnReview ==
  \/ ctl[Main] = "poll"
  \/ ctl[Main] = "review" /\ lc.signalled

\* The loop polls when it is entered and whenever a signal wakes it.
Polling ==
  \/ ctl[Main] = "poll"
  \/ ctl[Main] = "review" /\ (lc.signalled \/ lc.cancellationRequested)

GateRaisesCancelled ==
  /\ Polling
  /\ lc.cancellationRequested
  /\ Throw(Main, "cancelled")
  /\ UNCHANGED <<item, context, compensationStack, effects, undone, anyFailed,
                 rootCancelled, lc, reviews>>

GateFailsOnInvalid ==
  /\ Polling
  /\ ~lc.cancellationRequested
  /\ lc.gate[CurrentGate].invalidFailed
  /\ lc' = InvalidReviewFailed(lc)
  /\ Throw(Main, "failure")
  /\ UNCHANGED <<item, context, compensationStack, effects, undone, anyFailed,
                 rootCancelled, reviews>>

\* The jump to a route step drops the units of the steps it leaves out.
JumpTo(s, l) ==
  /\ lc' = SkipUnits(l, TotalUnitsOf(Slice(Main, pc[Main] + 1, IndexOf(s) - 1)))
  /\ pc' = [pc EXCEPT ![Main] = IndexOf(s)]
  /\ ctl' = [ctl EXCEPT ![Main] = "ready"]
  /\ UNCHANGED cause

\* Bug: the route taken is the run's last one, whichever gate it was meant for.
GateRoutesReported ==
  /\ Polling
  /\ ~lc.cancellationRequested
  /\ ~lc.gate[CurrentGate].invalidFailed
  /\ lc.reviewRouteTarget # Null
  /\ IndexOf(lc.reviewRouteTarget) > pc[Main]
  /\ JumpTo(lc.reviewRouteTarget, GateRouted(lc, CurrentGate))
  /\ UNCHANGED <<item, context, compensationStack, effects, undone, anyFailed,
                 rootCancelled, reviews>>

GateRoutes ==
  /\ Polling
  /\ ~lc.cancellationRequested
  /\ ~lc.gate[CurrentGate].invalidFailed
  /\ lc.gate[CurrentGate].routeTarget # Null
  /\ JumpTo(lc.gate[CurrentGate].routeTarget, GateRouted(lc, CurrentGate))
  /\ UNCHANGED <<item, context, compensationStack, effects, undone, anyFailed,
                 rootCancelled, reviews>>

GateKeepsWaiting ==
  /\ Polling
  /\ ~lc.cancellationRequested
  /\ ~lc.gate[CurrentGate].invalidFailed
  /\ lc.gate[CurrentGate].routeTarget = Null
  /\ ctl' = [ctl EXCEPT ![Main] = "review"]
  /\ lc' = [lc EXCEPT !.signalled = FALSE]
  /\ UNCHANGED <<pc, item, context, compensationStack, effects, undone,
                 anyFailed, cause, rootCancelled, reviews>>

\* Bug: a review that decides nothing disarms the timer.
GateTimesOutOnce ==
  /\ ctl[Main] = "review" /\ reviews = 0
  /\ ~Polling /\ ~rootCancelled
  /\ OnTimeout[CurrentGate] # "never"
  /\ IF OnTimeout[CurrentGate] = "route"
     THEN JumpTo(TimeoutRoute[CurrentGate], GateTimedOut(lc, CurrentGate))
     ELSE /\ lc' = GateTimedOut(lc, CurrentGate)
          /\ Throw(Main, IF OnTimeout[CurrentGate] = "cancel" THEN "cancelled" ELSE "failure")
  /\ UNCHANGED <<item, context, compensationStack, effects, undone, anyFailed,
                 rootCancelled, reviews>>

GateTimesOut ==
  /\ ctl[Main] = "review"
  /\ ~Polling /\ ~rootCancelled
  /\ OnTimeout[CurrentGate] # "never"
  /\ IF OnTimeout[CurrentGate] = "route"
     THEN JumpTo(TimeoutRoute[CurrentGate], GateTimedOut(lc, CurrentGate))
     ELSE /\ lc' = GateTimedOut(lc, CurrentGate)
          /\ Throw(Main, IF OnTimeout[CurrentGate] = "cancel" THEN "cancelled" ELSE "failure")
  /\ UNCHANGED <<item, context, compensationStack, effects, undone, anyFailed,
                 rootCancelled, reviews>>

\* A native cancel rejects the wait.
ReviewRejects ==
  /\ ctl[Main] = "review"
  /\ rootCancelled
  /\ Throw(Main, "failure")
  /\ UNCHANGED <<item, context, compensationStack, effects, undone, anyFailed,
                 rootCancelled, lc, reviews>>
-----------------------------------------------------------------------------
(* The unwind: compensations run one at a time, last pushed first *)

\* Bug: the stack is walked from the bottom.
StartCompensationFifo ==
  /\ ctl[Main] = "unwind"
  /\ compensationStack # <<>>
  /\ \E i \in Head(compensationStack)[2] :
       /\ compensationStack' =
            IF Head(compensationStack)[2] = {i} THEN Tail(compensationStack)
            ELSE <<<<Head(compensationStack)[1], Head(compensationStack)[2] \ {i}>>>>
                 \o Tail(compensationStack)
       /\ undone' = Append(undone, <<Head(compensationStack)[1], i>>)
  /\ ctl' = [ctl EXCEPT ![Main] = "compensating"]
  /\ UNCHANGED <<pc, item, context, effects, anyFailed, cause, rootCancelled, lc, reviews>>

StartCompensation ==
  LET top == compensationStack[Len(compensationStack)]
      rest == SubSeq(compensationStack, 1, Len(compensationStack) - 1)
  IN  /\ ctl[Main] = "unwind"
      /\ compensationStack # <<>>
      /\ \E i \in top[2] :
           /\ \A k \in top[2] : k <= i
           /\ compensationStack' =
                IF top[2] = {i} THEN rest ELSE Append(rest, <<top[1], top[2] \ {i}>>)
           /\ undone' = Append(undone, <<top[1], i>>)
      /\ ctl' = [ctl EXCEPT ![Main] = "compensating"]
      /\ UNCHANGED <<pc, item, context, effects, anyFailed, cause,
                     rootCancelled, lc, reviews>>

\* Its result opens an activation: what came before has been recorded.  Of the
\* results that arrive together, this one is taken first.
CompensationEnds ==
  /\ ctl[Main] = "compensating"
  /\ \A t \in Threads : ctl[t] # "resolved"
  /\ anyFailed' \in {anyFailed, TRUE}
  /\ ctl' = [ctl EXCEPT ![Main] = "unwind"]
  /\ UNCHANGED <<pc, item, context, compensationStack, effects, undone, cause,
                 rootCancelled, lc, reviews>>

CompensationStatus ==
  IF undone = <<>> THEN "none" ELSE IF anyFailed THEN "partial" ELSE "complete"

FinishUnwind ==
  /\ ctl[Main] = "unwind"
  /\ compensationStack = <<>>
  /\ lc' = IF cause = "cancelled" THEN CancelledWith(lc, CompensationStatus)
           ELSE FailedWith(lc, CompensationStatus)
  /\ ctl' = [ctl EXCEPT ![Main] = "threw"]
  /\ UNCHANGED <<pc, item, context, compensationStack, effects, undone,
                 anyFailed, cause, rootCancelled, reviews>>
-----------------------------------------------------------------------------
Step(t) ==
  \/ RaiseIfCancelled(t) \/ SkipRemainder(t) \/ FinishSequence(t)
  \/ StartAtomic(t) \/ AtomicCompletes(t) \/ AtomicRecorded(t) \/ AtomicFails(t)
  \/ StartMap(t) \/ PrepCompletes(t) \/ PrepFails(t)
  \/ MapSettles(t) \/ ReleaseEnds(t) \/ RaceRejects(t)
  \/ StartParallel(t) \/ ParallelSettles(t)

ItemSettles == \E x \in Items : ItemCompletes(x) \/ ItemFails(x)

Gate == GateRaisesCancelled \/ GateFailsOnInvalid \/ GateRoutes
        \/ GateKeepsWaiting \/ GateTimesOut \/ ReviewRejects

Unwind == StartCompensation \/ CompensationEnds \/ FinishUnwind

Signal == RequestCancel \/ SubmitReview \/ CancelNatively

\* A closed execution stays closed.
Closed == ~Open /\ UNCHANGED vars

Next ==
  \/ Start
  \/ \E t \in Threads : Step(t)
  \/ ItemSettles
  \/ Gate
  \/ Unwind
  \/ Signal
  \/ Closed

Spec == Init /\ [][Next]_vars

\* Temporal keeps dispatching: every started activity settles (its proxy has a
\* start-to-close timeout and a bounded retry policy), every timer fires, and
\* the workflow code runs on; nothing obliges a client to send a signal.
Fairness ==
  /\ WF_vars(Start)
  /\ \A t \in Threads : WF_vars(Step(t))
  /\ WF_vars(ItemSettles)
  /\ WF_vars(Gate)
  /\ WF_vars(Unwind)

FairSpec == Spec /\ Fairness
-----------------------------------------------------------------------------
(* Type correctness *)

MainStates   == {"start", "poll", "review", "unwind", "compensating", "returned", "threw"}
BranchStates == {"idle", "skipped", "done", "failed"}
BusyStates   == {"ready", "activity", "resolved", "prep", "fanout", "release"}

\* Every variable has its type.
TypeOK ==
  /\ pc \in [Threads -> Nat]
  /\ ctl \in [Threads -> MainStates \cup BranchStates \cup BusyStates]
  /\ item \in [Items -> {"waiting", "running", "done", "failed"}]
  /\ context \subseteq Steps
  /\ compensationStack \in Seq(Steps \X SUBSET Nat)
  /\ effects \subseteq Ops
  /\ undone \in Seq(Ops)
  /\ anyFailed \in BOOLEAN
  /\ cause \in {"none", "cancelled", "failure"}
  /\ rootCancelled \in BOOLEAN
  /\ lc \in LifecycleState
  /\ reviews \in 0..MaxReviews
-----------------------------------------------------------------------------
(* Compensation *)

\* Step r completes before step s begins in every run that executes both.
StepBefore(r, s) ==
  \E u \in Threads : \E i, j \in DOMAIN Body[u] :
    i < j /\ r \in Nested({Body[u][i]}) /\ s \in Nested({Body[u][j]})

UndoneOps == {undone[i] : i \in DOMAIN undone}

\* When a run reports the outcome of its unwind, every compensated operation
\* that took effect had its compensation run, and had it once, and "none" means
\* there was no such operation: nothing in flight escapes the stack
\* (workflows.ts:609-612).
CompensationAccounted ==
  lc.compensationStatus # Null =>
    /\ UndoneOps = effects
    /\ \A i, j \in DOMAIN undone : undone[i] = undone[j] => i = j
    /\ lc.compensationStatus = "none" <=> effects = {}

\* Whatever is still in flight when the unwind begins, and whatever fails, only
\* what took effect is compensated, and nothing twice: a step is pushed after its
\* effect, a map's completed items once, and a compensation leaves the stack
\* before it runs (workflows.ts:477-490, 507-514, 659-670).
CompensatesSoundly ==
  /\ UndoneOps \subseteq effects
  /\ \A i, j \in DOMAIN undone : undone[i] = undone[j] => i = j

\* A native cancel may lose the items of a map, but other steps only at the very
\* end: what a branch completes behind the unwind is compensated too, unless its
\* input_from fails or its result came in the activation that closes the run,
\* where the loop of the unwind may end between the result and the push
\* (workflows.ts:477-490, 507, 574-576, 692-697).
AtomicsCompensated ==
  lc.compensationStatus # Null =>
    \A o \in effects : o[1] \in Atomic \ Fragile =>
      \/ o \in UndoneOps
      \/ \E t \in Branches : ctl[t] = "resolved" /\ o = <<Cur(t), 0>>

\* The unwind begins only once everything the run had in flight has settled
\* (composition.ts:22-27, workflows.ts:610-611).
NothingInFlightOnUnwind ==
  Unwinding => /\ \A x \in Items : item[x] # "running"
               /\ \A b \in Branches : ctl[b] \notin BusyStates

\* The compensated operations of the plan, and the order they build in.
SagaOps == {o \in Items \cup (Atomic \X {0}) : o[1] \in Compensated}
SagaPrecedes ==
  {r \in SagaOps \X SagaOps :
     StepBefore(r[1][1], r[2][1]) \/ (r[1][1] = r[2][1] /\ r[1][2] < r[2][2])}

SagaPhase ==
  CASE ctl[Main] = "returned" -> "committed"
    [] ctl[Main] = "threw" -> "compensated"
    [] ctl[Main] \in {"unwind", "compensating"} -> "backward"
    [] OTHER -> "forward"

Abstract == INSTANCE Saga WITH
  Ops <- SagaOps, Precedes <- SagaPrecedes,
  phase <- SagaPhase, done <- effects, undone <- UndoneOps

\* The interpreter keeps the promise of Saga.
ImplementsSaga == Abstract!Spec
-----------------------------------------------------------------------------
(* Fan-out and cancellation *)

\* No item starts once a sibling has failed (composition.ts:27-28).
NoItemAfterFailure ==
  [][\A x, y \in Items :
       x[1] = y[1] /\ item[x] = "failed" /\ item[y] # "running" => item'[y] # "running"]_vars

\* Once cancellation was requested nothing but compensations is scheduled, not
\* even by a map whose session was being prepared (workflows.ts:343-376).
NoWorkAfterCancel ==
  [][Cancellation /\ lc.cancellationRequested =>
       /\ \A x \in Items : item'[x] = "running" => item[x] = "running"
       /\ \A t \in Threads :
            ctl'[t] \in {"activity", "prep", "release"} => ctl[t] = ctl'[t]]_vars

\* Once the unwind has begun only compensations are scheduled, even by a branch
\* that a native cancel left running behind it (workflows.ts:906-915).
NoWorkDuringUnwind ==
  [][Unwinding =>
       /\ \A x \in Items : item'[x] = "running" => item[x] = "running"
       /\ \A t \in Threads :
            ctl'[t] \in {"activity", "prep", "release"} => ctl[t] = ctl'[t]]_vars
-----------------------------------------------------------------------------
(* Review gates *)

\* At most one gate waits, and while the run waits it is the one after the
\* current step, shown as the checkpoint (lifecycle.ts:147-152, DS4-1).
OneGateWaits ==
  /\ Cardinality(WaitingGates(lc)) <= 1
  /\ ctl[Main] \in {"poll", "review"} =>
       \E g \in WaitingGates(lc) : AfterStep[g] = Cur(Main) /\ lc.waitingCheckpoint = Cur(Main)

\* A gate with an accepted decision closes only by taking the latest one,
\* whenever it was submitted: it neither times out nor goes elsewhere.
AcceptedDecisionRoutes ==
  [][\A g \in Gates :
       lc.gate[g].routeTarget # Null /\ ~lc.gate[g].fired /\ lc'.gate[g].fired =>
         pc'[Main] = IndexOf(lc.gate[g].routeTarget)]_vars

\* A fired gate never reopens (docs/yaml.md:1903).
GateFiresOnce ==
  [][\A g \in Gates : lc.gate[g].fired => lc'.gate[g].fired /\ ~lc'.gate[g].waiting]_vars

-----------------------------------------------------------------------------
(* Status *)

\* The terminal status says how the run ended, and never changes again.
TerminalStatusHonest ==
  [][/\ lc'.terminalStatus = "completed" <=> ctl'[Main] = "returned"
     /\ ctl'[Main] = "threw" => lc'.terminalStatus = cause \/ (cause = "failure" /\ lc'.terminalStatus = "failed")
     /\ lc'.terminalStatus = "cancelled" => lc'.cancellationRequested
     /\ lc.terminalStatus # Null => lc'.terminalStatus = lc.terminalStatus]_vars

\* Progress is complete exactly when the run succeeds (docs/yaml.md:1685-1693).
ProgressCompletes ==
  /\ ctl[Main] = "returned" => lc.completedUnits = lc.totalUnits
  /\ lc.completedUnits <= lc.totalUnits

\* The steps a gate may route to.
Routes(g) == ({UserDecisions[g][d] : d \in Decisions} \cup {TimeoutRoute[g]}) \ {Null}

\* The steps a skip leaves out contain the source of every map among them.
Whole(S) == \A m \in Mapped \cap Nested(S) : Over[m] = "input" \/ Over[m] \in Nested(S)

\* Whatever a when: predicate, a gated branch or a route leaves out is whole.
\* Without it a skip takes items off the total that never joined it.
SkipsWhole ==
  /\ \A t \in Threads : \A i \in DOMAIN Body[t] :
       Body[t][i] \in Gated => Whole(Slice(t, i, Len(Body[t])))
  /\ \A b \in Branches \cap Gated : Whole(Slice(b, 1, Len(Body[b])))
  /\ \A g \in Gates : \A s \in Routes(g) :
       Whole(Slice(Main, IndexOf(AfterStep[g]) + 1, IndexOf(s) - 1))

-----------------------------------------------------------------------------
(* Liveness *)

\* Every run closes, unless a gate without a timeout keeps it waiting.
Termination == <>(~Open \/ (ctl[Main] = "review" /\ OnTimeout[CurrentGate] = "never"))

\* A cancel request ends the run, wherever it waits (workflows.ts:239-241).
CancelEndsRun == Cancellation /\ lc.cancellationRequested ~> ~Open
=============================================================================
