# Verification of the typeflux workflow runtime

Typeflux runs declarative YAML workflows of LLM activities on Temporal. A
workflow is derived from its spec into a plan (data); one interpreter, a Temporal
workflow function, walks every plan. The modules here model the parts of the
TypeScript edition (`src/packages/typescript`) that keep state between steps,
check them with TLC on small instances, and prove with TLAPS, for every value of
the constants, what can be proved.

Paths below are relative to `src/packages/typescript` unless they begin with
`docs/`. Line numbers of every definition are in `PROJECT.json` under `map`.

## 1. Inventory

### Workflow interpreter: `temporal-yaml/src/workflows.ts`

- State: the loop index of each running sequence, the context (step outputs),
  the compensation stack, the lifecycle object.
- Operations: `typefluxYamlWorkflow` (the top-level loop, `when:` guards, the
  catch that unwinds), `runBranchSequence`, `executeActivityStep`,
  `executeMapStep`, `executeParallelStep`, `executeSubworkflowStep`,
  `executeSubworkflowMapStep`, `fanOutCancellable`, `maybeWaitForReview`,
  `pushCompensation`, `runCompensations`, and the signal handlers.
- Hard: branches and map items interleave at every `await`; a cancel signal, a
  review decision or Temporal's own cancellation may arrive at any of them; a
  failing item races its siblings; the unwind must see everything that finished.
- Correct when: whatever took effect is undone, in an order in which nothing is
  undone before what may have built on it; nothing new starts after a cancel
  request or once the unwind has begun; an accepted decision is the route taken;
  the run ends.

### Lifecycle runtime: `temporal-yaml/src/lifecycle.ts`

- State: `state`, `terminalStatus`, `cancellationRequested`, progress units, one
  `GateState` per review gate, the waiting checkpoint, the reported route.
- Operations: called by the interpreter (`started`, `addUnits`, `unitCompleted`,
  `skipUnits`, `waitingForGate`, `gateRouted`, `gateTimedOut`,
  `invalidReviewFailedTerminal`, `completed`, `cancelled`, `failed`) and by the
  signal handlers (`requestCancel`, `submitReview`).
- Hard: signals arrive before a gate opens, twice, too late, for another gate, or
  during the unwind; progress totals are known only piece by piece.
- Correct when: a gate fires at most once, one gate waits at a time, the terminal
  status says how the run ended, progress is complete exactly on success.

### Bounded fan-out: `temporal/src/composition.ts` (`fanOut`)

- State: the next index, the failed flag, the workers' promises.
- Correct when: items are claimed in order, at most `concurrency` at a time, none
  after a failure, and the call settles only when everything in flight has.

### Provider limits: `temporal/src/provider-limits.ts`

- State: free permits, the queue of waiters, the next rate slot; shared by every
  activity execution of a worker process that has the same policy key.
- Operations: `Semaphore.acquire`/`release`, `reserveRateSlot`,
  `ProviderCallLimiter.limit`, and the abort listeners.
- Hard: an abort races the hand-over of a permit or the end of a sleep; timers
  fire late; a lost permit starves a worker for the life of the process.
- Correct when: permits are conserved, none is idle while a call waits, calls are
  admitted in order, starts keep their distance, every call settles.

### Activity execution: `temporal/src/execute.ts`, `temporal-worker/src/build-temporal-activity.ts`

- State: the locals of one `executeActivity` call (session, repairs, retries, the
  output accepted so far), the cross-run cache, the limiter's slots, the abort
  signal of the activity; on the server, the attempts Temporal has made.
- Operations: prepare, cache lookup, the hit path (check, hook, moderation), the
  generation loop (call, back off, repair), finalisation, the cache write, and the
  wrapper that turns an error into a retryable or final failure or does without a
  session cache that has vanished.
- Hard: four nested kinds of retry; a cancellation at any await; two versions of
  an activity that share a cache record, because neither schema nor hook is part
  of its key.
- Correct when: what is returned or remembered has passed every check of the
  activity that returns or remembers it; a cancelled activity starts nothing
  more; every activity ends.

### Trace writers: `temporal/src/trace-writer.ts`, `yaml/src/streaming-trace-writer.ts`

- State: the buffer of ended traces, the chain of flushes, the transport.
- Operations: a trace ends, a flush begins, submits, throws and re-buffers,
  `drain()` and `shutdown()`.
- Hard: `drain()` flushes itself while flushes chained since take from the same
  buffer; any submission may throw.
- Correct when: no trace is lost before the transport is closed, and it is closed
  only when everything that had ended by the time of the call has been submitted.

### Subject keystore, payload codec, subject cache: `temporal-yaml/src/subject-keystore.ts`, `payload-codec.ts`; `InMemoryCacheStore`

- State: one key per subject (absent, live, destroyed); per process, the subjects
  of each workflow id it has registered or asked for; the cached records with an
  index by subject.
- Hard: keys are asked for one by one while an erasure destroys them; a binding,
  once made, is kept; records are overwritten by runs of other subjects.
- Correct when: destroying a key makes exactly the subject's payloads unreadable;
  the index finds exactly the subject's records.

### Subject erasure: `temporal-yaml/src/erase.ts`, `subject-execution-deletion.ts`

- State: the receipt; on the server, executions, their subjects and histories.
- Operations: shred keys, list executions, delete one by one, erase the cache;
  each may fail alone, and the whole is asked for again.
- Hard: executions start, run, close, and reuse workflow ids meanwhile; listings
  are limited and lag behind.
- Correct when: a clean receipt tells the truth, nothing of anybody else is
  destroyed, asking again converges.

### Frozen versions, drain view, migration: `yaml/src/frozen-version.ts`, `temporal-controlplane/src/drain.ts`, `operations.ts`

- State: the executions of the server, what the visibility store knows of them, a
  runtime's remembered check, the calls under way, a view's scan.
- Operations: check a version label and start (runtime, control plane, a parent's
  child without a check); describe, preflight, terminate, check and start again
  (migrate); scan the running executions (drain view).
- Hard: every one of them reads, awaits and then acts.
- Correct when: a label denotes one graph, "drained" hides no run of an old
  version, a migration replaces what it was asked to replace, once.

### Policy composition and enforcement: `yaml/src/policy-composition.ts`, `policy-enforcement.ts`, `project-enforcement.ts`

- State: none of its own; a policy document per id, and what it extends.
- Operations: resolve the closure of `extends`, merge it pairwise, hash it, check
  a spec, check the tree of its sub-workflows, guard each model call.
- Hard: every field has its own rule of merging, and unset, empty and disjoint
  lists mean different things; some checks look at a single tier or level of the
  merged policy only.
- Correct when: what the merged policy admits, each of its layers admits.

### Deployment plans, promotion, worker boot: `temporal-yaml/src/deployment-plans.ts`, `deployment.ts`, `cli.ts`, `worker-entry.ts`, `yaml/src/runtime-target.ts`

- State: the operator's checkout, image tags, plan files in the working tree and
  on the default branch, the manifest last generated, the running worker.
- Operations: write a plan, merge and pull it, promote it, deploy by flags, boot
  a worker under an expected policy hash.
- Hard: commits, re-tagged images and edits of a plan file by hand fall between
  review, promotion and boot.
- Correct when: a worker runs nothing that a layer of its policy refuses, its
  guard lets no forbidden call through, and what a plan runs is what was merged.

### Plan derivation and load validation: `yaml/src/build-workflow.ts`, `yaml/src/workflow-plan.ts`

- State: none; one walk over the spec at load.
- Operations: `registerStepId`, `validateWhenPaths`, `workflowCompensationError`,
  `workflowSchemaChainError`, `reviewPlanFromSpec` with `checkRoute`.
- Hard: the paths of a run are many (a gate may skip the rest of any sequence,
  gates route one after the other) and each check walks one of them.
- Correct when: on every path, what a step reads has been recorded, and what it
  is given has the schema it declares.

The rules that the interpreter's own modules rely on (unique ids, gates after
top-level steps, blocks that own their branches) are also the assumptions
`LifecycleAssumption`, `PlanAssumption` and `PlanShape`.

### How the parts interact

The interpreter owns the lifecycle record and is its only caller besides the
signal handlers of the same execution; JavaScript runs both on one thread, so
they interleave only at `await`s. `fanOut` is called by the interpreter with
branch or item functions that call back into it. Activities and child workflows
are Temporal commands that settle later. `executeActivity` holds a permit of the
provider limiter for its whole generation loop (`temporal/src/execute.ts`), reads
and writes the cross-run cache outside and inside it, and ends its trace in its
`finally`, which chains a flush of the streaming writer. Every payload of an
execution passes the codec of the process that encodes it, which asks the
keystore; the start path registers the subjects before it starts the run, and
sets the search attribute by which the erasure later finds it. The erasure talks
to the keystore, to the server and to the cache; it never talks to a worker.
Starts, migrations and the drain view meet only in the server's visibility store.
Load validation and policies meet the run earlier: a plan is derived and checked
when a project is validated, planned or booted, and a worker asks the guard of
its composed policy before and after each model call.
Clients reach a run only through its two signals, its status query and Temporal's
cancellation.

## 2. Modules

| Module | Models | Notes |
| --- | --- | --- |
| `Lifecycle` | `LifecycleRuntime` | a record and one operator per method |
| `WorkflowRun` | `typefluxYamlWorkflow` and `fanOut` | extends `Lifecycle`; one action per piece of code between two awaits |
| `Saga` | what the compensation stack promises | abstract; `WorkflowRun` implements it (`ImplementsSaga`) |
| `ProviderLimits` | one `ProviderCallLimiter` | with a clock, aborts and late timers |
| `SubjectKeys` | the keystore and the bindings of each process | no Spec; used by `Erasure` |
| `SubjectCache` | the reference cache store and its subject index | no Spec; an instance in `Erasure` |
| `Erasure` | `eraseSubject` with the runs, activities and starts it races | composes the two above |
| `TraceStream` | the streaming trace writer over the trace writer | extended by `ActivityRun` |
| `ActivityRun` | `executeActivity` and the Temporal wrapper, with cache and traces | extends `TraceStream` |
| `Versions` | frozen labels, starts, migrations, the drain view | one visibility store for all |
| `Policies` | the merge of policies, the checks of a spec and of its tree | no Spec; extended by `Deployment` |
| `PolicyClosure` | the walk over what policies extend | recursive; checked by an assumption of `MCDeployment` |
| `Deployment` | plan files, promotion, admission, the boot of a worker, its guard | extends `Policies` |
| `PlanDerivation` | load validation, and a walk of an accepted plan | stands alone: it checks what `WorkflowRun` assumes |
| `MCErasure`, `MCActivityRun`, `MCVersions`, `MCDeployment`, `MCPlanDerivation` | the instances of section 3 | constants for TLC |
| `MCReview` | a sequential plan with three gates | constants for TLC |
| `MCFanOut` | maps, nested blocks, sub-workflows, optionally a gate | constants for TLC |
| `SagaProofs`, `WorkflowRunProofs`, `ProviderLimitsProofs`, `ErasureProofs`, `ActivityRunProofs`, `VersionsProofs`, `DeploymentProofs`, `PlanDerivationProofs` | theorems | `WorkflowRunProofs` begins with the lemmas about the lifecycle record |

### WorkflowRun and the code

A *thread* is one running step sequence: `main`, or a branch. `pc[t]` is the loop
index, `ctl[t]` what the thread waits for:

| `ctl` | where the code is |
| --- | --- |
| `start` | before the interpreter's first line has run |
| `ready` | at the top of a sequence's loop |
| `activity` | awaiting an activity or a child workflow |
| `resolved` | the result is there, the sequence has not taken it yet (`executeActivityStep` has returned, `runBranchSequence` has not pushed) |
| `prep`, `release` | awaiting the prepare or release activity of a cached session |
| `fanout` | awaiting `fanOutCancellable` |
| `poll`, `review` | at the top of the gate's wait loop, in its `condition()` |
| `unwind`, `compensating` | in `runCompensations`, awaiting one compensation |
| `returned`, `threw` | the execution is closed |
| `idle`, `skipped`, `done`, `failed` | a branch that has not started, was skipped, or has settled |

The stack is a sequence of batches `<<step, indices>>`; a map pushes its
completed items as one batch in its `finally`, and the walk takes a batch from its
last index down. `context` is the set of steps with a recorded output. `effects`
and `undone` are history variables: which compensated operations completed, and
the order in which compensations were scheduled. No guard reads `effects`;
`undone` is read only for the outcome "none", where the code counts its entries.

Data abstraction:

- Payloads are gone. What a property can tell apart is kept: whether a `when:`
  holds (`Gated` steps may be skipped), whether `over` or `input_from` resolves
  (`Fragile` steps may throw), whether the collected size passes `max_bytes`.
- Activities, children, session preparation, release and compensations each
  complete or fail, nondeterministically; retries lie inside them.
- `reviewSignalSequence` is compared only with the sequence observed before the
  wait, so it is the Boolean `signalled`.
- Left out: the event ring buffer, timestamps, reasons, search attributes, the
  progress toggle, the plan-version guard that rejects before any state exists.
  `openSeq` orders gates that wait together; `OneGateWaits` shows there is
  never more than one.

Scheduling: the code between two awaits is one action. A thread that is `ready`,
`resolved`, `poll` or `unwind` has the processor; signals are applied only when no
thread has it (`Quiescent`), because Temporal applies the signals of an activation
before its other jobs and then runs the workflow until it blocks. The result of an
activity and its recording are two actions of one activation
(`AtomicCompletes`, `AtomicRecorded`): between them some microtasks pass, in which
the loop of the unwind may end. The end of a compensation is the first result of
its activation (`CompensationEnds`); results that come with it are taken while the
main sequence is in `unwind`, before or after the loop looks at the stack. Two threads that
become ready in one activation may run in either order in the model, which is
more than the event loop does.

Cancellation: a cooperative request sets a flag. `fanOutCancellable` then cancels
the scope around a fan-out: new work in it is rejected at once
(`ScopeCancelled`), work in flight may still complete or fail. Temporal's own
cancellation (`CancelNatively`) cancels the root scope and rejects the waits that
are `condition()`s. Compensations run in a scope that is not cancellable.

### ProviderLimits and the code

`phase[c]` is how far a call of `limit()` has come: `queued` in the semaphore,
`admitted` (holds a permit, its continuation has not run), `sleeping` until its
slot, `running` its function, `leaving` (about to run the `finally`), `done`. An
abort takes a queued call out of the queue, wakes a sleeper, and does nothing
else, which is also what happens when it arrives after the permit has been handed
over. The clock is a counter; a timer fires when due or up to `Late` units
after: a Node timer may fire less than a millisecond early, which is below the
unit, and arbitrarily late on a busy event loop, which the limiter's own tests
mention. The limiter modelled has `maxConcurrent`; without it `limit()` begins
with the code of `Proceed`, and only the rate slots remain.

### SubjectKeys, SubjectCache, Erasure and the code

A payload is its *key id*: the set of subjects whose keys seal it; the empty set
is the key all executions share. Key bytes, nonces and the wire format are gone:
a destroyed key never comes back (`dataKey` throws on a tombstone), so a payload
can be read exactly when every key of its id is live. `known[p][id]` is the
binding cache of process `p`: filled by the start path (`Register`), or by a
worker's `describe` of the id's *latest* run (`Describe`, `SealDescribed`), kept
until the process restarts.

`call[c]` is how far `runWorkflow` has come: `registered` (subjects bound), then
`sealed` (input encoded), then the server's answer. `task[r]` is the one activity
of run `r`: `working`, and when its process has no binding, `describing` and
`described`. `op` is the erasure: `Request` is everything up to the first await,
keys included, because the reference keystore has no await inside `destroy`; then
one action per listing, per deletion and per cached subject. `flawed` and
`caveats` are what the receipt reports. `Fault` lets an answer of a service fail.
`erased` and `bound` are history variables, read only by properties. `before`
remembers what was indexed when the erasure was asked for.

Left out: the deletion of traces (an external service by a query), timestamps,
the receipt's wording, custom keystores, and eventual completion of a deletion
the server has accepted.

### ActivityRun, TraceStream and the code

`phase[a]` is what an execution of activity `a` awaits: `preparing`, `lookup`,
`serving` (hook and moderation on a hit), `queued` in the limiter, `calling`,
`backoff`, `finalizing`, `storing`; then `retrying` until Temporal's next attempt,
or `completed`, `failed`, `cancelled`. The model's answer is a member of
`Outputs`; a schema, an output check, a hook with moderation are sets of outputs
they accept. The cache key depends on the session alone (the activities ask the
same question): `cache[s]` is the record under it. The limiter is `Slots`; its
own behaviour is `ProviderLimits`. `Rejects` is the wrapper: a vanished reference
session is done without at once, a terminal error is not retried, the rest is
Temporal's. `TraceEnds` is part of each action that leaves `executeActivity`.

In `TraceStream` the buffer and what a flush has taken are sets: no property here
depends on the order. `jobs` counts the chained flushes, `ahead` those that
`drain()` still awaits, `draining` what `drain()` has taken itself. The order of
promise continuations is kept where it matters: `drain()` resumes before the
next flush of the chain begins.

Left out: streaming, partial results, heartbeats, artifacts, hook transforms (a
hook accepts or refuses), code activities, the environment that bypasses cache
reads, usage and cost records.

### Versions and the code

Runs are numbered as they start. `visible` is what the visibility store has
indexed. `call[c]` is the call under way of a caller: `checking` (before a start),
`preflight` (the same check of a migration), `terminating`, `starting`. A
runtime keeps the outcome of its one check (`checked`). A parent starts children
without a check. `Scan` reads the newest `ScanLimit` rows, as `Found` does.
`view` is a drain view, row by row. A graph stands for its digest. `loose` is a
history variable: the versions for which some start went behind the back of the
check; a check that fails, or does not reach the label, lets the caller pass by
design, and `LabelFrozen` says that nothing else can break a label.

The workflow id of a start is chosen in `Start` and not before, since nothing
reads it earlier. `Fails` stands for every refusal: an id in use, preflight
refusals of a migration, a service that does not answer.

### Policies, Deployment and the code

A policy is a record with one field for each *rule of merging*, not one for each
field of the schema: mappings and lists intersect, requirements and prohibitions
unite, ceilings take the minimum, a tier the maximum, a scalar must agree, and of
one mapping (`address_regions`, the field `places`) the keys unite. Unset is the
value that constrains nothing, an empty list denies all, and two lists that share
nothing are a conflict, as are two regions for one address. `regions` is a list
like the others, but `RegionMet` reads it with `places`: a mapping, once there is
one, decides where the address stands, and without it the region that the process
attests is looked up. What a check reads of a spec and of the process is one record.

A checkout is one version of the project; the hash of a policy or a spec is a
fixed choice among equal contents, so equal hashes are equal contents and an
edited file can carry any hash. `files` and `merged` map a plan's name to its
content, its hash and what it claims; `approved` is a history variable. The
promote verb is one action over the operator's tree. A worker boots from the
checkout its image was built of, which a tag may have changed since, and compares
the policy hash it composes with the one of its manifest.

Left out: `min_interval`, limits and `max_bytes` that "must be
configured", media types, policy names, the consistency of observability
settings over a tree, secrets files, environment overlays, `generated_at`, and
the Kubernetes objects. A list that is unset and one that names everything are
the same here; in the code their hashes differ.

### PlanDerivation and the code

A *sequence* is the top level or a branch; a *place* is a sequence and an index;
`within[b]` are the places of the blocks around branch `b`, which unrolls the
recursion of the walks. A path is its root, since the checks look at nothing
else; a schema is its ref, or `None` where nobody knows it, or `Array` for a map
without collect. `Accepted` is what `buildWorkflowPlan` and
`workflowSchemaChainError` let pass: `Guaranteed` is `guaranteedContextIdsOf`,
`RootsAt` the roots of the walk at a place (with the top-level steps that ran:
all before it, or those a route does not skip), `RouteResolves` and `RouteTyped`
the two halves of `checkRoute`.

The actions are the interpreter's loop, reduced to what the checks are about:
`Skip` is a false gate, `Run` a step of any kind but a block, `Open` and `Close`
a block with its branches in between in any order, and each choice of a route is
one outcome of `Record`. Failures and cancellations end a run where it is and
read nothing more; what they unwind is `WorkflowRun`.

Left out: the resolution of sub-workflows and its cycles, the schema refs of
compensations, the options of activities, the digest.

## 3. Runs

| Run | Instance | Shows |
| --- | --- | --- |
| `review` | three gates: one routes on timeout, one fails on timeout and on an invalid decision, one waits for ever; two review commands of any kind and any number of cancel requests | accepted decisions are the routes taken, at most one gate waits, the terminal status is honest, the run ends, a cancel always ends it |
| `fanout` | an activity, a map with a cached session, a block of two branches with a nested block of two, a sub-workflow, a sub-workflow map over a step's output; the cooperative cancel signal | compensations are complete and ordered, the unwind starts with nothing in flight, nothing starts after a failure or a cancel, the run ends; `WorkflowRun` implements `Saga` |
| `native` | the same plan with both kinds of cancellation, paths that do not resolve, and a gate after its last step whose timeout cancels; one review command | what still holds when Temporal's cancellation rejects the race early: only compensations are scheduled once the unwind has begun, what is compensated took effect and is compensated once, and only items of maps, or the result a branch has in hand as the run closes, can be missed |
| `limits` | four calls, two permits, an interval of two, lateness one | permits, order, spacing, every call settles |
| `erasure` | two runs of one workflow id, of one subject or of both; two processes; a listing that returns one execution; one fault | shredding is exact, receipts are honest, the index is exact, nothing of others is destroyed, asking again converges |
| `activity` | two versions of one activity with a common cache and one schema hash, of which the newer parses less (a refinement) and checks otherwise; one slot, repairs, retries, two attempts; a trace writer that is shut down; one outage | only accepted output is returned or remembered, cancellation is quiet, traces are conserved, every activity ends |
| `versions` | a label with two graphs and a second label; a runtime, two control planes, a parent; three runs, a scan of two rows | a label denotes one graph unless a check was passed by, a drained view is sound, migrations replace once |
| `deployment` | four versions of a project of two workflows: one that meets its policies, one with a forbidden model, one whose policies ask for less, one with rules moved to another layer; two policies, one extending the other; an image by digest and one by tag; selections of none or one policy | a worker's tree meets every layer, its guard lets no forbidden call through, what a plan runs was merged |
| `plans` | some thousands of accepted plans with a block in a branch of a block: two places that read any root by gate, map or compensation; two schema refs in every combination of a few steps; six sets of review gates | whatever is skipped and whatever routes are taken, a step finds what it reads and is given what it expects, and results have their declared schema |
| `v_*` | one property each | the divergences of section 6 |

### Bounds, and why they are enough

- `MaxReviews` (2): two commands are what it takes to replace a decision by
  another, to decide for a gate in advance and for the current one, and to send an
  invalid command followed by a valid one.
- Three gates: one for each kind of timeout action that goes on differently; the
  fourth, `cancel`, is in `native`.
- Three items with concurrency two: one item waits while two run, so that
  claiming after a completion, after a failure and after a cancel all occur. Two
  items with concurrency one for the sub-workflow map.
- Two levels of parallel blocks: inner fan-outs that settle before and after
  outer ones. The plan builder admits three levels; the third adds no new kind of
  parent.
- Calls, permits: with four calls and two permits two calls queue, so that order,
  abort in the queue and hand-over all occur. An interval of two exceeds the
  lateness of one, so that `SpacedStarts` excludes something. `LastCall` bounds
  when calls are made; `FairSpec` then ends, and `limits` switches off the
  deadlock check for that reason. In `WorkflowRun` a closed run stutters in
  `Closed`, and the deadlock check is on in every run.

- `erasure`: one workflow id, so that ids are reused; one subject set of each size;
  a `Limit` of one is exceeded by two runs; one activity at a time, one unindexed
  run, one fault: each suffices for its race with the erasure, and the erasure is
  asked for again without bound.
- `activity`: of three outputs the newer version's schema refuses one, its check
  another, and the older version's hook the third. Only the newer version may be cancelled (`Cancellable`), and one
  submission may throw (`MaxOutages`); two traces and a third from the retry are
  enough for a flush with several traces, and for flushes chained behind a drain.
- `versions`: two calls at a time (`MaxCalls`), one run not indexed
  (`MaxUnindexed`), three runs (`MaxRuns`): a run, its replacement and a
  replacement of that; a scan of two rows is cut short by the third. Workflow ids
  and the two control planes are symmetric; the run has no liveness property.
- `deployment`: one plan file at a time (`MaxPlans`), as every plan is written,
  merged and promoted by its own name. Each version differs from the good one in
  what one kind of check must find. All layers of the run are `Safe`; the assumption
  `EachIsNeeded` shows for each part of `Safe` two layers without it whose merge
  admits what one of them refuses. `PolicyClosure` is compared with its
  definition over all graphs of three ids.
- `plans`: the shape has what the walks distinguish: a step before, inside and
  after a block, a block inside a branch, siblings. Two readings at a time relate
  a gate that makes an id conditional to a place that reads it; two gates in a row
  compose two routes. Only accepted plans are runs; `Accepted` itself is evaluated
  on all of them.

The larger state spaces are those of `activity` (1,219,349 distinct states),
`versions` (886,736), `erasure` (778,698), `deployment` (478,404), `native`
(268,846) and `plans` (66,257 from 4,459 plans).

### Fairness

`WorkflowRun`: weak fairness of `Start`, of each thread's steps, of item
completion, of the gate and of the unwind. Every activity proxy has a
start-to-close timeout and a bounded retry policy, so what was started settles;
timers fire; the workflow task is retried until it runs. There is no fairness of
signals: nobody has to send any. `Termination` therefore exempts a run that waits
at a gate without a timeout. `ProviderLimits`: weak fairness of each call's own
moves and of the clock; the function settles because the activity that called it
has a timeout. Nothing obliges a call to be made or aborted.
`Erasure`: weak fairness of the erasure's steps (its awaits settle), of each start
under way, of each activity's steps, of `Close` and `Index` (runs have timeouts,
the visibility store catches up); strong fairness of each `Request`, because
`Converges` is about an operator who asks again, as the receipt's warnings tell
them to. `ActivityRun`: one weak condition, that while some activity can go on
some activity does; it suffices since every activity makes a bounded number of
steps. `Versions`, `Deployment`, `PlanDerivation`: none, since they have no
liveness property: nobody has to start, promote or merge anything.

### Mutants

Each property of a passing run has an operator marked `Bug:` beside the
definition it distorts (a dropped `finally`, a fan-out that rejects early, a
claim after a failure, a stack walked from the bottom, a permit freed and handed
over, and so on). With the distorted definition in place the run reports that
property violated. No other definition uses these operators.

## 4. What is proved

All theorems hold for every value of the constants that satisfies the named
assumptions.

| Theorem | Statement |
| --- | --- |
| `SagaProofs!TypeCorrect`, `UndoneFromTheEndHolds`, `AllOrNothingHolds` | in the abstract saga nothing is undone before what may have built on it, and a run undoes nothing or everything |
| `WorkflowRunProofs!TypeCorrect` | every variable of a run keeps its type |
| `WorkflowRunProofs!GateFiresOnceHolds` | no handler reopens a fired gate |
| `WorkflowRunProofs!NoItemAfterFailureHolds` | no step of any thread starts an item beside a failed one |
| `WorkflowRunProofs!OneGateWaitsHolds`, `AcceptedDecisionRoutesHolds` | at most one gate waits, and shows its checkpoint; a gate with an accepted decision closes only by its latest route |
| `WorkflowRunProofs!TerminalStatusHonestHolds` | the terminal status says how the main sequence ended and never changes |
| `WorkflowRunProofs!NoWorkAfterCancelHolds`, `NoWorkDuringUnwindHolds` | after a cancel request, and once the unwind has begun, only compensations are scheduled |
| `WorkflowRunProofs!NothingInFlightHolds` | without native cancellation the unwind begins when everything has settled |
| `WorkflowRunProofs!CompensationAccountedHolds`, `ImplementsSagaHolds` | if `Reliable`, an unwind undoes exactly what took effect and that once, and every run implements `Saga` |
| `WorkflowRunProofs!UndoneInReverse`, `PrecedesIsOrder` | if `Reliable`, at any point of the unwind whatever may have built on an undone operation is undone; the order this speaks of is a strict order in every plan |
| `WorkflowRunProofs!CompensatesSoundlyHolds` | with native cancellation and failing paths too, only what took effect is compensated, and that once |
| `WorkflowRunProofs!AtomicsCompensatedHolds` | with both too, every activity or child workflow that completed is compensated unless its own `input_from` fails or a branch has its result in hand as the run closes; else only items of maps can be lost |
| `WorkflowRunProofs!ProgressCompletesHolds` | if `SkipsWhole`, `completed_units` never exceeds `total_units`, and a run that returns has them equal |
| `ProviderLimitsProofs!TypeCorrect`, `PermitsConservedHolds`, `NoIdlePermitHolds` | no permit is lost, doubled, or idle while a call waits |
| `ProviderLimitsProofs!SpacedStartsHolds` | two starts are at least the interval apart, less the lateness |
| `ProviderLimitsProofs!FirstComeFirstServedHolds` | no call overtakes another in the queue |
| `ErasureProofs!TypeCorrect`, `ShredExact`, `ReceiptHonest` | types; destroying a key makes the subject's payloads unreadable and no other; a clean receipt tells the truth |
| `ErasureProofs!CacheIndexExact`, `OnlyTheSubjects` | the cache index is exact; no step destroys what the request does not name |
| `ActivityRunProofs!TypeCorrect`, `AcceptedReturned`, `AcceptedCached`, `CancelledIsQuiet` | types and bounds; only accepted output is returned or remembered; a cancelled activity starts nothing |
| `ActivityRunProofs!NoTraceLost`, `ShutdownCovers` | no trace is lost before the transport is closed; shutdown covers what had ended |
| `DeploymentProofs!TypeCorrect`, `Reviewed` | types; what a plan deploys, and what runs under it, was merged |
| `DeploymentProofs!CallsCoveredByLayers` | a worker's guard lets no call through that a layer of its policy forbids |
| `DeploymentProofs!LayersHoldWhenSafe` | if every composition is of layers that are safe to merge (`AllSafe`: tiers, limits and regions), the tree a worker runs meets each layer of its policy |
| `PlanDerivationProofs!PathsAlwaysResolve` | in a run of an accepted plan the roots that a step reads have been recorded, whatever is skipped and whatever routes are taken |
| `PlanDerivationProofs!RefsAlwaysMatch`, `ResultsAlwaysTyped` | on every path of such a run a step is given a value of the ref it takes, and sequences end with the ref they promise, but for the exception that `ResultsTyped` names |
| `VersionsProofs!TypeCorrect`, `Frozen`, `ViewSound`, `Replaces` | types; labels denote one graph unless loose; drained views are sound; migrations replace once |

**WorkflowRun.** The type invariant is not inductive: `Cur(t)` is a step only
while the thread is inside one, `CurrentGate` exists only because `poll` and
`review` are entered with a gate, and a route resolves only because every route
recorded in the lifecycle record is in the plan. The invariant is
`IInv == ControlOK /\ DataOK /\ LifeOK`: `ControlOK` says that a thread inside a
step has a valid index and that a waiting run has a gate; `DataOK` types the rest;
`LifeOK` types the record and adds that fired gates do not wait
(`FiredGatesClosed`) and recorded routes are in the plan (`RoutesKnown`).
The first lemmas show of each method that the next record *evolves* from the
last (`Evolves`: it has the type, keeps those two facts, and reopens no fired
gate). Every action is then a lemma `IInv /\ Action => StepOK`, and `NextType`
combines them; the first three theorems follow from it.

The others need more of it, in this order.

- *Gates.* `GateInv`: all waiting gates are one; none waits while the main sequence
  runs on; the gate a run waits at is the checkpoint of its step, and a decision
  taken since the run last looked has left its signal. `SubmitReview` may come
  between any two looks at the gate, hence the last part.
- *Status.* `StatusInv` relates `terminalStatus` and the cause of an unwind to where
  the main sequence is: a gate that times out or refuses a decision sets the status
  before it throws, and the throw confirms it.
- *What is in flight.* `FlightInv`: until a native cancellation a branch runs only
  while its block waits for it, and an item only while its map does. Following the
  branches upwards ends at the main sequence because
  blocks do not contain themselves. This is the assumption `PlanTree`, in its
  finite form: branches have levels up to 3, as `planStepsFromSpec` admits.
- *Order.* `PlaceInv`: threads start at their first step, and a branch starts only
  when its block is reached. With `FlightInv` it gives `NothingBehind`: no step at
  work comes before one that has begun (`StepBefore`, the order of `Saga`).
- *The stack.* `StackInv`: steps on the stack are behind the run (`StackBehind`) and
  lie in an order that nothing on top of them may come before (`StackOrdered`). A
  push keeps it because of `NothingBehind`; the indices of one map are pushed
  together, in the order of its items.
- *Effects.* `EffectsInv` accounts for `effects`: what took effect is undone
  (`UndoneOps`), on the stack (`StackOps`), belongs to a map that has not reached
  its `finally` (`Pending`), or is a result that its sequence has in hand (`Held`);
  nothing else is undone, on the stack or in hand.
  `OnceInv`: what is undone has left the stack, and is undone once. `OutcomeInv`
  relates the reported outcome to `undone`.

`SagaInv` is their conjunction (`GateInv`, `StatusInv` and `OnceInv` stand on their own). Each action is then shown to be a step of `Saga` or
a stutter: `Perform` by `WorksForward` and `NothingBehind`, `Undo` by
`StackOrdered`, `Close` by `NothingPending`, the turn back by whatever throws last.
`StackBehind`, `StackOrdered`, `EffectsInv` and `OutcomeInv` were also
model-checked on the instance of `fanout`.

`CompensationAccounted`, `ImplementsSaga` and `UndoneInReverse` are proved under
`Reliable`: no native cancellation and no compensated step whose `input_from` may
fail to resolve. Both are needed, and each is one of the disagreements of section
6: `v_native_unwind` drops the first, `v_fragile_input` the second. Paths that
fail elsewhere (`Fragile` maps) are allowed. The theorems of the gates, of the status and of what is scheduled assume
neither.

What is left without `Reliable` is `CompensatesSoundly` and `AtomicsCompensated`.
`StackOrdered` fails then: a branch that a native cancel left running pushes while
the main sequence walks the stack. `SoundInv` asks less of the stack: its steps
are behind the run, so are the undone ones (`UndoneBehind`), no step is on it
twice, and what is on it, in hand or undone took effect. A push is of a step its
thread is at, hence not behind, hence of one that was neither pushed nor undone
(`NotYetPushed`). `AtomicInv` adds that an activity or child workflow that
completed is undone, on the stack or in hand (`InHand`): a sequence pushes what it
has in hand before it does anything else, so that only the close of the run can
come before the push. Main itself has nothing in hand when it closes. With
`v_native_unwind` this bounds what a native cancel can cost.
`SoundInv` and `AtomicInv` were also model-checked on the instance of `native`.

*Progress.* That the total adds up needs the units that are still to come, and the
handlers do not keep them: they add, skip and count one at a time, by what the
context holds at that moment. `ProgressInv` says that *some* set of units is
`Outstanding`: the total is what is completed plus its size (`Tally`); no unit in it
is done, and some sequence that is not over has its step ahead or is at it
(`Owed`); the units known from the input of every step that is to come are in it
(`Covers`), and so are those under way (`Working`). `Turn(t)` sums up the steps of a
thread by what they do to its place and to the counters (it throws, gets the
result of an atomic step or records it, fans out a map, skips its remainder, splits,
passes), and one lemma per kind gives the set that is outstanding afterwards. It rests on where a run
stands (`StandInv`): nothing is done or recorded ahead of the run
(`NothingAhead`), the workers of a map stop early only on a failure
(`WorkersBusy`), and a branch at work or failed is held against its block until
that fails too (`BranchesHeld`). A skip takes off what is outstanding and no more because of
facts of the plan as a tree: a step lies in one block at most (`OneParent`), and of
two steps with one below both, one is below the other (`Comparable`). From the
same facts `PrecedesIsOrder` follows. When the run has returned, no sequence is
left to come to anything, the outstanding set is empty, and the total is what was
completed.

`SkipsWhole` is the hypothesis: what a `when:`, a gated branch or a route leaves
out contains the source of every map in it. Load validation does not ask for it.
Without it the statement is false (section 6); TLC evaluates it on the plans of
`fanout`, `native` and `review`. Native cancellation and `Fragile` paths are allowed.

`PlanShape` (unique ids, routes forward to steps of the plan) and
`PlanTree` are what load validation lets through; TLC evaluates both on every plan
that is run.

**ProviderLimits.** `IInv == PermitsOK /\ SlotsOK`. `PermitsOK` adds to the type
that the queue holds exactly calls that wait and each once (`QueueOK`), without
which a hand-over could reach a call that already holds a permit. `SlotsOK` says
that every reserved slot lies an interval before `nextCallAt`, that any two
differ by an interval, and that a function started between its slot and `Late`
after it. Counting the holders uses the cardinality facts of the library.

**Erasure.** `IInv` is the type with `KnownOK` (a binding of a process is one of
those ever bound to the id), `RunsOK` (a run's subjects were bound to its id, and
its payloads are sealed under sets bound to it whose keys have been made),
`CallOK` and `TaskOK` (the same for what is on its way to a payload), `GhostOK`
(the erased subjects are those with a tombstone), `CacheOK`, and `OpOK` (what is
planned for deletion is closed and of the subject alone, and the executions of a
subject the erasure is through with are gone or planned, unless the receipt will
say otherwise). Without the last, `CleanReceipt` holds only at the end and is not
inductive. `ListedOK`: what a receipt speaks of was indexed, and stays so.

**ActivityRun.** `Fits` says what an activity may hold in each phase: in
particular an output that has passed everything that comes before the phase, and
a session that is given up at most once per attempt. Of a record under the key it
knows nothing but that somebody accepted it: what a hit is served with comes from
its own parse and check, and nothing is assumed of equal hashes. For the traces `DrainOwes` says who holds what `drain()` owes: while it waits, the buffer
or the flush under way; while it flushes, itself.

**Versions.** `MigrationsPinned` says what a migration under way knows of the run
it has described and that nothing else replaces that run; `Cleared` that a caller
that was let through, or a runtime that remembers a pass, is alone under its
label unless the label is loose; `ViewCovers` that a scan has counted every run of
its snapshot above its cursor that still runs.

**Deployment.** The order `Tighter(m, l)` says that whatever `m` allows, `l`
allows. A merge is tighter than both sides, hence a composition tighter than each
of its layers, by induction on their number; and each check of a spec, of a tree
and of the guard is monotone in that order, but for three. Of risk tiers only the
effective one is looked at, so a higher minimum may lose the requirements of a
lower tier; of limits only the most specific level that is set, so a layer that
sets another level may lift one. Of `address_regions` the keys unite, so an address
that one layer leaves unplaced, and thereby refuses, another may place; and a layer
that allows a region of what the process attests is read otherwise beside a layer
with a mapping. `AllSafe` excludes the three: tiers ask for what lower tiers ask
for, limits of a model are set at one level, and layers that constrain regions
place the same addresses. That each is needed TLC shows (`EachIsNeeded`), and
`v_compose` shows the first by a run. `IInv` adds to the type that a worker was admitted under the
policy it expects and that files which verify are approved.

**PlanDerivation.** `PathsResolve` speaks of the step a sequence has reached; the
invariant of what lies ahead. `Ahead`: every place of the routed tail from the
top-level index on reads within `Avail`, the recorded ids and those the rest of
the top level will surely record. In order a step moves its ids from the second
part to the first. A route is where it needs an argument: the check of the route
(`RouteResolves`) assumes every step up to the gate has run, which an earlier
route may have skipped; the invariant assumes the steps that this route skips.
What both allow comes from neither, since an id has one place (`ReadsBoth`).
`Recorded` says of a branch that what it has passed is recorded and, when it is
done, that what surely runs in it was passed: with it a block that closes has
recorded what `Guaranteed` promises (`CloseRecords`). `InBlocks` and `Waits` keep
sequences and blocks in step.

For the refs the chain check compares each step with what comes before it *in
order*, and `reviewPlanFromSpec` the tail of each route with the step the route
leaves. `Flow` says that a running sequence holds one of the two: the top level has
the value of the chain check at its index, or stands where a checked route led it
(`MainFlow`), and every sequence holds what its `Source` gives it (`Sourced`), the
place around it where that value entered. So a step deep in a block compares with
the top level's value only if nothing has run in between (`FlowConsumes`).
`ResultsTyped` needs its exception there: inside a routed block the check of the
route does not compare a branch's first gate again.

**Saga.** `UndoneFromTheEnd` and `AllOrNothing` with the type are inductive. They
need nothing of the order but its use in `Undo`.

Only model-checked: all liveness (`Termination`, `CancelEndsRun`,
`EveryCallSettles`, `Converges`, `EveryActivitySettles`), which is out of the
prover's reach. The other way round, the type invariants and `GateFiresOnce` are proved and not
listed in a run. `PolicyClosure` is recursive, and compared with its definition
by TLC alone.

## 5. Not modelled

What remains, in the order in which it would come:

1. `FanOut`: the pool of `fanOut` alone as an abstract specification, implemented
   by `WorkflowRun`.
2. The resolution of sub-workflows in plan derivation: cycles, the memo of child
   identities, the digest that a child's edit moves.
3. The local runtime (`yaml/src/local.ts`): a sequential interpreter without
   signals, cancellation or compensation races. It would repeat `WorkflowRun` with
   one thread; its differences (section 6) are in what it accepts.

And what is out of reach or says nothing about behaviour:

- Schemas, generated clients and HTTP contracts (`schema.ts`, `http/contract.ts`,
  the clients): declarations. They are the longest files of the repository, and
  with the next two the reason why the modules stand for a small share of its
  lines.
- Parsing, defaults and interpolation of YAML, wire formats of providers, prompt
  stores and observers: conversions of data, each with its own golden tests.
- The Python edition and the contract tests: a mirror, whose differences the
  comments of the code name.
- HTTP handlers, authentication, the CLI's other verbs, Kubernetes manifests:
  they forward one call or write one document.
- Of the modelled components: the event ring buffer, streaming, heartbeats,
  artifacts, usage records, trace deletion, custom keystores; section 2 lists what
  each module leaves out.

## 6. Where the code and its comments disagree

Three runs show a disagreement by a counterexample.

- `v_native_unwind`: with the cancel signal declared, a native cancel rejects the
  race in `fanOutCancellable` (`workflows.ts:362`) before the fan-out has
  settled, and the unwind starts with items in flight. A map item that completes
  after that is not compensated.
- `v_fragile_input`: an `input_from` that does not resolve throws in a map's
  `finally` (`workflows.ts:666`); none of the completed items is pushed.
- `v_compose`: a layer that raises `min_tier` to a tier without requirements drops
  those another layer puts on the tier below (`policy-enforcement.ts:948`), though
  composition is said to tighten only.

Met while modelling and kept as description:

- A gate that ends by a cancellation or an invalid decision keeps its `waiting`
  flag (`lifecycle.ts:494`, `641`); the status of the closed run still lists it.
- With a single gate, a command without a gate id is accepted after the gate has
  fired (`lifecycle.ts:435`), though the comment above says a closed gate is not
  targetable. The reported route changes; the route taken does not.
- A call aborted while it waits for its rate slot keeps the reservation
  (`provider-limits.ts:174`): live calls behind it wait for a slot nobody uses.
  The comment of `limit` says a cancelled activity never blocks live work.
- `requestCancel` (`lifecycle.ts:389`) sets `state` to `cancelling` also while a
  run whose gate timed out unwinds; `failed()` then returns early. The terminal
  status stays, the state no longer shows it.
- The items of a map over a step's output join the progress total when the map
  runs (`workflows.ts:593`). Where a gate or a route skips the map after that step,
  `totalUnitsOf` finds the items and they come off the total all the same
  (`workflows.ts:689`, `718`, `878`, `900`; `lifecycle.ts:377`). The clamp holds
  only at that moment: what completes later takes `completed_units` past
  `total_units`, which the comment above the clamp excludes. In `fanout` with
  `Gated = {"right"}` instead, TLC finds a run that has completed 5 units of 4.
- After a native cancel, the activity of a branch may complete in the activation
  that ends the last compensation. Its result is pushed only after further
  microtasks (`workflows.ts:574-577`, `692-697`), and the loop of the unwind
  (`507`) may have found the stack empty by then: the run closes and the step is
  not compensated. `AtomicsCompensated` names the case.
- A failing branch does not cancel its siblings, as the comment of
  `executeParallelStep` says (`workflows.ts:706-707`); `fanOut` only stops claiming
  (`temporal/src/composition.ts:46`).

Subjects and caches:

- A start that fails, or one under an id in use, rebinds the id to its own
  subjects in that process (`subject-keystore.ts:348`, `386`).
- A rerun of a limited erasure lists the same first executions: those that cannot
  be deleted may keep the rest out of reach (`subject-execution-deletion.ts:203`).
  An execution of exactly two requested subjects is deleted for neither.
- The cache key names neither subjects nor output schema nor hook. The comment at
  `execute.ts:1987-1989` says a record of an evolved schema is a miss, but the hash
  it is told by does not see refinements: a record that does not parse under an
  equal hash throws (`1995`) and fails every attempt, and so does one a newer hook
  refuses (`2009`). A store that throws on the write fails an accepted activity
  (`2105`).
- A clean receipt speaks of what the visibility store had indexed.

Traces:

- If the last flush of `shutdown()` throws, the transport is not shut down
  (`streaming-trace-writer.ts:124-127`). A submission that throws after it has
  taken a trace is repeated (`trace-writer.ts:145`). Traces that end after
  `drain()` are left to later flushes.

Versions:

- A parent starts its children under a label without a check
  (`workflows.ts:800`); the drain view collapses versions with one label
  (`drain.ts:18-21`), and its rows come newest first, against the comment at
  `drain.ts:93-95`.
- A migration abandons a gate that opens between its status query and its
  terminate (`operations.ts:914-955`); an answer of terminate that is lost leaves
  the run terminated and not replaced (`operations.ts:957`).

Policies and deployment:

- A limit of a more specific tier lifts a lower one of another layer
  (`policy-enforcement.ts:600`), as tiers do in `v_compose`.
- A layer that refuses an address for want of a region in its `address_regions`
  admits it once another layer adds one (`policy-composition.ts:249-262`,
  `policy-enforcement.ts:421-446`), and an attested region that is not allowed
  passes once a mapping is there, against the same claim.
- Writing the same plan again is called a harmless no-op
  (`deployment-plans.ts:367`), but its new `generated_at` makes
  `--require-merged-plan` refuse the file (`523-524`).
- The merge is called commutative (`project-enforcement.ts:342`); which conflict
  is reported, and the order of concatenated lists in the hash, depend on the
  order (`policy-composition.ts:297`).
- A plan's spec digest is compared with the checkout, never with what the image
  contains. `TYPEFLUX_REQUIRE_MERGED_PLAN` gates only `--apply`; the promote reads
  the plan file twice (`cli.ts:253-263`).

Plan derivation:

- Gates inside a block are said to be typed once for all routes
  (`build-workflow.ts:1121-1125`), but a route into a block whose branch begins
  with a gated map makes the checkpoint's value a result of the branch:
  `ResultsTyped` needs the exception `LeftAtRoutedEntry`.
- A route from a map without collect to an activity is accepted, which in order is
  rejected (`158-161`).
- The root of `map.over` is checked in routed tails only (`1211`); the local
  contract and the Python edition check it everywhere.
  `workflowSchemaChainError` runs in project validation
  (`project-validation.ts:655`), not when a worker derives its plan.
- The local contract admits a map over a step of a gated branch
  (`local-contract.ts:90-100`), which may be absent in a run.
