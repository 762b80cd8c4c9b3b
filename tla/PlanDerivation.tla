--------------------------- MODULE PlanDerivation ---------------------------
(***************************************************************************)
(* What load validation accepts of a workflow (build-workflow.ts), and     *)
(* what a run of an accepted plan reads and passes on (workflows.ts): the  *)
(* context paths of gates, maps and compensations, and the schema refs of  *)
(* the values that flow from step to step.                                 *)
(*                                                                         *)
(* A sequence is the top level (Main) or a branch; a place is a sequence   *)
(* and an index into it.  p.within[b] are the places of the blocks around  *)
(* branch b: it unrolls the recursion of the walks over a plan.  Only the  *)
(* root of a path is kept: the checks look at nothing else.                *)
(* Operators marked "Bug:" validate the properties and are used nowhere.   *)
(***************************************************************************)
EXTENDS Naturals, Sequences, FiniteSets

CONSTANTS
  Main, Branches,
  Ids, Input,     \* step ids and the reserved root of the workflow's input
  Refs, None,     \* schema refs, and a ref that is not known
  Array,          \* what a map without collect yields
  MaxNesting,
  Plans           \* the specs a run is checked for

Roots == Ids \cup {Input}
Seqs(p) == {Main} \cup p.branches
Places(p) == UNION {{t} \X DOMAIN p.body[t] : t \in Seqs(p)}
IdAt(p, pl) == p.body[pl[1]][pl[2]]

\* The places of a step and of the blocks around it.
Line(p, pl) == {pl} \cup (IF pl[1] = Main THEN {} ELSE p.within[pl[1]])

BranchesAt(p, pl) == {b \in p.branches : p.holder[b] = pl}
IndexOf(p, id) == CHOOSE i \in DOMAIN p.body[Main] : p.body[Main][i] = id
Last(p, t) == p.body[t][Len(p.body[t])]

\* What the schema of a spec (spec.ts) admits, and what a tree is.
Written(p) ==
  /\ p.branches \subseteq Branches
  /\ p.body \in [Seqs(p) -> Seq(Ids)] /\ \A t \in Seqs(p) : p.body[t] # <<>>
  /\ p.kind \in [Ids -> {"atomic", "map", "parallel"}]
  /\ p.when \in [Ids -> SUBSET Roots]               \* {}: no gate
  /\ p.gate \in [Seqs(p) -> SUBSET Roots] /\ p.gate[Main] = {}
  /\ p.over \in [Ids -> Roots]
  /\ p.from \in [Ids -> Roots \cup {None}]          \* compensate.input_from
  /\ p.takes \in [Ids -> Refs \cup {None}]
  /\ p.gives \in [Ids -> Refs \cup {None, Array}]
  /\ p.input \in Refs /\ p.output \in Refs \cup {None}
  /\ p.enabled \in BOOLEAN                          \* lifecycle.enabled
  /\ p.gates \subseteq [after : Ids, routes : (SUBSET Ids) \ {{}}]
  /\ \A g, h \in p.gates : g.after = h.after => g = h
  /\ p.holder \in [p.branches -> Places(p)]
  /\ p.within \in [p.branches -> SUBSET Places(p)]
  /\ \A b \in p.branches :
       /\ p.kind[IdAt(p, p.holder[b])] = "parallel"
       /\ p.within[b] = Line(p, p.holder[b])
       /\ \A pl \in p.within[b] : pl[1] # b /\ Line(p, pl) \subseteq p.within[b]
       /\ \A pl \in p.within[b] \ {p.holder[b]} :
            \E q \in p.within[b] : q[1] # Main /\ p.holder[q[1]] = pl
       /\ \A q, r \in p.within[b] : q[1] = r[1] => q = r
       /\ \E i \in DOMAIN p.body[Main] : <<Main, i>> \in p.within[b]

ASSUME PlansAssumption ==
  /\ \A p \in Plans : Written(p)
  /\ Main \notin Branches
  /\ Input \notin Ids /\ None \notin Roots \cup Refs /\ Array \notin Refs \cup {None}
-----------------------------------------------------------------------------
(* The ids a path may start with.                                          *)

\* Once the block around pl has run, so has pl.
Sure(p, pl) ==
  /\ p.gate[pl[1]] = {}
  /\ \A i \in 1 .. pl[2] : p.when[p.body[pl[1]][i]] = {}

\* Bug: what a gated branch would record counts as well.
GuaranteedIfRun(p, pl) == {IdAt(p, q) : q \in {r \in Places(p) : pl \in Line(p, r)}}

\* guaranteedContextIdsOf: recorded on every path once pl has run.
Guaranteed(p, pl) ==
  {IdAt(p, q) : q \in {r \in Places(p) :
     pl \in Line(p, r) /\ \A s \in Line(p, r) \ Line(p, pl) : Sure(p, s)}}

\* What comes before pl in its own sequence and in those around it, with only
\* the top-level steps of ran.
Before(p, pl, ran) ==
  {q \in Places(p) : \E r \in Line(p, pl) :
     q[1] = r[1] /\ q[2] < r[2] /\ (q[1] = Main => q[2] \in ran)}

RootsAt(p, pl, ran) == {Input} \cup UNION {Guaranteed(p, q) : q \in Before(p, pl, ran)}

All(p) == DOMAIN p.body[Main]

\* A compensation is pushed when an atomic step has recorded its result, and
\* before a map has.
Own(p, pl) == IF p.kind[IdAt(p, pl)] = "atomic" THEN {IdAt(p, pl)} ELSE {}

\* validateWhenPaths, checkCompensate; checkGateRoots, checkCompensateRoots
GatesRead(p, pl, roots) ==
  p.when[IdAt(p, pl)] \subseteq roots /\ \A b \in BranchesAt(p, pl) : p.gate[b] \subseteq roots
CompensationReads(p, pl, roots) ==
  p.from[IdAt(p, pl)] \in roots \cup Own(p, pl) \cup {None}
MapReads(p, pl, roots) ==
  p.kind[IdAt(p, pl)] = "map" => p.over[IdAt(p, pl)] \in roots
-----------------------------------------------------------------------------
(* The refs of the values.                                                 *)

Agree(a, b) == {a, b} \subseteq Refs => a = b

\* A sequence is entered with what its block consumes, and a later step
\* consumes what the one before it gives: the place around pl, or pl itself,
\* that consumes the same value as pl and is not the first of a branch.
Sources(p, pl) ==
  {q \in Line(p, pl) :
     /\ q[1] = Main \/ q[2] > 1
     /\ \A r \in Line(p, pl) \ Line(p, q) : r[1] # Main /\ r[2] = 1}
Source(p, pl) == CHOOSE q \in Sources(p, pl) : TRUE

\* What pl consumes when the top-level step i consumes top[i].
Consumed(p, top, pl) ==
  LET q == Source(p, pl)
  IN  IF q[1] = Main THEN top[q[2]] ELSE p.gives[p.body[q[1]][q[2] - 1]]

InOrder(p) ==
  [i \in All(p) |-> IF i = 1 THEN p.input ELSE p.gives[p.body[Main][i - 1]]]

\* workflowSchemaChainError finds nothing.
ChainTyped(p) ==
  /\ \A pl \in Places(p) : p.kind[IdAt(p, pl)] = "atomic" =>
       /\ Consumed(p, InOrder(p), pl) # Array
       /\ Agree(Consumed(p, InOrder(p), pl), p.takes[IdAt(p, pl)])
  /\ \A pl \in Places(p) : p.when[IdAt(p, pl)] # {} =>
       Agree(Consumed(p, InOrder(p), pl),
             IF pl[1] = Main THEN p.output ELSE p.gives[Last(p, pl[1])])
  /\ Agree(p.gives[Last(p, Main)], p.output)
-----------------------------------------------------------------------------
(* The routes of the review gates: reviewPlanFromSpec.                     *)

RouteTail(p, to) == {pl \in Places(p) : \E i \in All(p) : i >= to /\ <<Main, i>> \in Line(p, pl)}

RouteResolves(p, from, to) ==
  \A pl \in RouteTail(p, to) :
    LET roots == RootsAt(p, pl, (1 .. from) \cup (to .. Len(p.body[Main])))
    IN  /\ GatesRead(p, pl, roots)
        /\ CompensationReads(p, pl, roots)
        /\ MapReads(p, pl, roots)

\* Bug: the tail is typed as if the step before it had run.
RouteTypedInOrder(p, from, to) ==
  \A pl \in RouteTail(p, to) : p.kind[IdAt(p, pl)] = "atomic" =>
    Agree(Consumed(p, InOrder(p), pl), p.takes[IdAt(p, pl)])

\* Bug: a gate in the tail may end the workflow with any value.
RouteTypedSteps(p, from, to) ==
  LET top == [InOrder(p) EXCEPT ![to] = p.gives[p.body[Main][from]]]
  IN  \A pl \in RouteTail(p, to) : p.kind[IdAt(p, pl)] = "atomic" =>
        Agree(Consumed(p, top, pl), p.takes[IdAt(p, pl)])

\* Of a block only the entry is taken to depend on the route: a gate inside
\* it is not compared again.
RouteTyped(p, from, to) ==
  LET top == [InOrder(p) EXCEPT ![to] = p.gives[p.body[Main][from]]]
  IN  /\ \A pl \in RouteTail(p, to) : p.kind[IdAt(p, pl)] = "atomic" =>
           Agree(Consumed(p, top, pl), p.takes[IdAt(p, pl)])
      /\ \A i \in All(p) : i >= to /\ p.when[p.body[Main][i]] # {} => Agree(top[i], p.output)

RoutesAccepted(p) ==
  \A g \in p.gates, r \in Ids : r \in g.routes =>
    \E from, to \in All(p) :
      /\ p.body[Main][from] = g.after /\ p.body[Main][to] = r
      /\ from < to
      /\ RouteResolves(p, from, to)
      /\ RouteTyped(p, from, to)

\* registerStepId
UniqueIds(p) == \A pl, q \in Places(p) : IdAt(p, pl) = IdAt(p, q) => pl = q

Accepted(p) ==
  /\ UniqueIds(p)
  /\ \A b \in p.branches : Cardinality(p.within[b]) <= MaxNesting
  /\ \A pl \in Places(p) :
       LET roots == RootsAt(p, pl, All(p))
       IN  GatesRead(p, pl, roots) /\ CompensationReads(p, pl, roots)
  /\ \A g \in p.gates : \E i \in All(p) : p.body[Main][i] = g.after
  /\ RoutesAccepted(p)
  /\ ChainTyped(p)
-----------------------------------------------------------------------------
(* A run.  A step that fails, and a cancellation, end it where it is.      *)

VARIABLES
  plan,
  context,    \* the ids with a recorded result
  at,         \* sequence -> its loop index
  ctl,        \* idle, ready, block (in its branches), done, skipped
  value       \* sequence -> the ref of its running value

vars == <<plan, context, at, ctl, value>>

Here(t) == <<t, at[t]>>
Step(t) == IdAt(plan, Here(t))

Init ==
  /\ plan \in {p \in Plans : Accepted(p)}
  /\ context = {Input}
  /\ at = [t \in Seqs(plan) |-> 1]
  /\ ctl = [t \in Seqs(plan) |-> IF t = Main THEN "ready" ELSE "idle"]
  /\ value = [t \in Seqs(plan) |-> IF t = Main THEN plan.input ELSE None]

\* A false gate: the rest of the sequence is skipped.
Skip(t) ==
  /\ ctl[t] = "ready"
  /\ plan.when[Step(t)] # {}
  /\ ctl' = [ctl EXCEPT ![t] = "done"]
  /\ UNCHANGED <<plan, context, at, value>>

\* Where the loop goes on: a gate never lets it go on but by a route.
Reviews(t) == {g \in plan.gates : t = Main /\ plan.enabled /\ g.after = Step(t)}
Onward(t) ==
  IF Reviews(t) = {} THEN {at[t] + 1}
  ELSE UNION {{IndexOf(plan, r) : r \in g.routes} : g \in Reviews(t)}

\* The step of t has its result.
Record(t) ==
  /\ context' = context \cup {Step(t)}
  /\ value' = [value EXCEPT ![t] = plan.gives[Step(t)]]
  /\ \E k \in Onward(t) :
       /\ at' = [at EXCEPT ![t] = k]
       /\ ctl' = [ctl EXCEPT ![t] = IF k <= Len(plan.body[t]) THEN "ready" ELSE "done"]
  /\ UNCHANGED plan

\* An activity, a child workflow or a map.
Run(t) ==
  /\ ctl[t] = "ready"
  /\ plan.kind[Step(t)] # "parallel"
  /\ Record(t)

\* executeParallelStep: the gates of the branches, then the branches.
Open(t) ==
  /\ ctl[t] = "ready"
  /\ plan.kind[Step(t)] = "parallel"
  /\ LET within == BranchesAt(plan, Here(t))
     IN  /\ \E out \in SUBSET {b \in within : plan.gate[b] # {}} :
              ctl' = [u \in Seqs(plan) |-> IF u = t THEN "block"
                                           ELSE IF u \in out THEN "skipped"
                                           ELSE IF u \in within THEN "ready" ELSE ctl[u]]
         /\ value' = [u \in Seqs(plan) |-> IF u \in within THEN value[t] ELSE value[u]]
  /\ UNCHANGED <<plan, context, at>>

Close(t) ==
  /\ ctl[t] = "block"
  /\ \A b \in BranchesAt(plan, Here(t)) : ctl[b] \in {"done", "skipped"}
  /\ Record(t)

Ended == ctl[Main] = "done" /\ UNCHANGED vars

Next ==
  \/ \E t \in Seqs(plan) : Skip(t) \/ Run(t) \/ Open(t) \/ Close(t)
  \/ Ended

Spec == Init /\ [][Next]_vars
-----------------------------------------------------------------------------
(* Properties. *)

\* Whatever gates turn out false and whatever routes reviewers take, one after
\* the other, a step finds the result that its gate, the gates of its branches
\* and the input of its compensation start from; and a map that finds its
\* items when no route is taken finds them on every route.
PathsResolve ==
  \A t \in Seqs(plan) : ctl[t] = "ready" =>
    /\ GatesRead(plan, Here(t), context)
    /\ CompensationReads(plan, Here(t), context)
    /\ MapReads(plan, Here(t), RootsAt(plan, Here(t), All(plan))) =>
         MapReads(plan, Here(t), context)

\* An activity or a child is given what its predecessor on the path that was
\* really taken produced: where both refs are known they are the same.
RefsMatch ==
  \A t \in Seqs(plan) :
    ctl[t] = "ready" /\ plan.kind[Step(t)] = "atomic" => Agree(value[t], plan.takes[Step(t)])

\* The branch was left at its first step, in a block some route leads to.
LeftAtRoutedEntry(b) ==
  /\ at[b] = 1
  /\ \E g \in plan.gates, r \in Ids :
       r \in g.routes /\ <<Main, IndexOf(plan, r)>> \in plan.within[b]

\* Wherever a gate ends it, a workflow ends with its declared output and a
\* branch with what its last step would have given: all but a branch that a
\* gate ends before its first step in a block that a route leads to.
ResultsTyped ==
  \A t \in Seqs(plan) : ctl[t] = "done" =>
    IF t = Main THEN Agree(value[t], plan.output)
    ELSE LeftAtRoutedEntry(t) \/ Agree(value[t], plan.gives[Last(plan, t)])
=============================================================================
