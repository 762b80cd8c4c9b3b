------------------------------ MODULE Erasure ------------------------------
(***************************************************************************)
(* Erasing a subject while executions of the subject start, run and close. *)
(* Composes the payload keys (SubjectKeys) and the result cache            *)
(* (SubjectCache) with the executions of the Temporal server and           *)
(* eraseSubject (temporal-yaml/src/erase.ts), whose surfaces are driven    *)
(* one after the other, subject by subject, a failure of one being noted   *)
(* in the receipt and never stopping the rest.                             *)
(*                                                                         *)
(* An action is the code between two awaits, or one answer of a service.   *)
(* A payload in a history is its key id.  The trace surface is left out.   *)
(* Operators marked "Bug:" validate the properties and are used nowhere.   *)
(***************************************************************************)
EXTENDS SubjectKeys

CONSTANTS
  CacheKeys,      \* the keys of the result cache
  Callers,        \* calls of runWorkflow that may be under way together
  CallerProc,     \* caller -> its process
  Attributions,   \* the subject sets runs are started for
  Requests,       \* erasures an operator asks for, time and again
  Limit,          \* executionLimit: how many executions a listing returns
  MaxRuns,        \* bound: executions
  MaxActivities,  \* bound: activities under way
  MaxUnindexed,   \* bound: runs the visibility store has yet to index
  MaxFaults       \* bound: answers of services that fail, and restarts

Surfaces == {"keystore", "executions", "cache"}

ASSUME ErasureAssumption ==
  /\ CallerProc \in [Callers -> Procs]
  /\ Attributions \subseteq SUBSET Subjects
  /\ Requests \subseteq [subjects : (SUBSET Subjects) \ {{}}, dry : BOOLEAN, surfaces : SUBSET Surfaces]
  /\ Limit \in Nat \ {0}
  /\ MaxRuns \in Nat
  /\ MaxActivities \in Nat
  /\ MaxUnindexed \in Nat
  /\ MaxFaults \in Nat

Runs == 1 .. MaxRuns

VARIABLES
  stored, recordSubjects, subjectIndex,   \* the result cache
  status,         \* run -> unstarted, running, closed or deleted
  runId,          \* run -> its workflow id
  runSubjects,    \* run -> TypefluxSubjectIds, the index erasure lists by
  history,        \* run -> the key ids of its payloads
  indexed,        \* the runs a listing can find
  call,           \* caller -> how far runWorkflow has come
  task,           \* run -> its activity, from schedule to result
  op,             \* the erasure under way, or the receipt of the last one
  erased,         \* ghost: subjects whose key an erasure has destroyed
  bound,          \* ghost: workflow id -> subject sets ever registered for it
  faults          \* failures so far

INSTANCE SubjectCache

cacheVars == <<stored, recordSubjects, subjectIndex>>
runVars == <<status, runId, runSubjects, history, indexed>>
ghosts == <<erased, bound>>
vars == <<keyVars, cacheVars, runVars, call, task, op, ghosts, faults>>
-----------------------------------------------------------------------------
NoCall == [phase |-> "none"]
NoTask == [phase |-> "none"]

Init ==
  /\ KeysInit
  /\ CacheInit
  /\ status = [r \in Runs |-> "unstarted"]
  /\ runId = [r \in Runs |-> CHOOSE id \in WorkflowIds : TRUE]
  /\ runSubjects = [r \in Runs |-> {}]
  /\ history = [r \in Runs |-> {}]
  /\ indexed = {}
  /\ call = [c \in Callers |-> NoCall]
  /\ task = [r \in Runs |-> NoTask]
  /\ op = [phase |-> "idle", subjects |-> {}, dry |-> TRUE, surfaces |-> {}, before |-> {},
           todo |-> {}, plan |-> {}, flawed |-> {}, caveats |-> {}]
  /\ erased = {}
  /\ bound = [id \in WorkflowIds |-> {}]
  /\ faults = 0

Started == {r \in Runs : status[r] # "unstarted"}
Retained == {r \in Runs : status[r] \in {"running", "closed"}}
Fault == faults < MaxFaults /\ faults' = faults + 1
-----------------------------------------------------------------------------
(* runWorkflow: bind, check the frozen version, seal the input, start.     *)

BeginStart(c, id, S) ==
  /\ call[c] = NoCall
  /\ Cardinality(Started) + Cardinality({d \in Callers : call[d] # NoCall}) < MaxRuns
  /\ Register(CallerProc[c], id, S)
  /\ bound' = [bound EXCEPT ![id] = @ \cup {S}]
  /\ call' = [call EXCEPT ![c] = [phase |-> "registered", id |-> id, subjects |-> S]]
  /\ UNCHANGED <<keystore, cacheVars, runVars, task, op, erased, faults>>

\* The input is sealed under the binding the process has by now.
SealInput(c) ==
  /\ call[c].phase = "registered"
  /\ \E K \in known[CallerProc[c]][call[c].id] :
       \/ /\ Seal(K)
          /\ call' = [call EXCEPT ![c] = [phase |-> "sealed", id |-> @.id, subjects |-> @.subjects, kid |-> K]]
       \/ /\ SealThrows(K)
          /\ call' = [call EXCEPT ![c] = NoCall]
  /\ UNCHANGED <<known, cacheVars, runVars, task, op, ghosts, faults>>

IdInUse(id) == \E r \in Runs : status[r] = "running" /\ runId[r] = id

\* The server takes the start, with the subjects as a search attribute.
StartAccepted(c, r) ==
  /\ call[c].phase = "sealed"
  /\ ~IdInUse(call[c].id)
  /\ Cardinality(Started \ indexed) < MaxUnindexed
  /\ status[r] = "unstarted"
  /\ \A q \in Runs : q < r => q \in Started
  /\ status' = [status EXCEPT ![r] = "running"]
  /\ runId' = [runId EXCEPT ![r] = call[c].id]
  /\ runSubjects' = [runSubjects EXCEPT ![r] = call[c].subjects]
  /\ history' = [history EXCEPT ![r] = {call[c].kid}]
  /\ call' = [call EXCEPT ![c] = NoCall]
  /\ UNCHANGED <<keyVars, cacheVars, indexed, task, op, ghosts, faults>>

\* The frozen check or the server turns the start down; the binding stays.
StartFails(c) ==
  /\ \/ call[c].phase = "registered"
     \/ call[c].phase = "sealed" /\ IdInUse(call[c].id)
  /\ call' = [call EXCEPT ![c] = NoCall]
  /\ UNCHANGED <<keyVars, cacheVars, runVars, task, op, ghosts, faults>>

-----------------------------------------------------------------------------
(* The workers.                                                            *)

\* A task reaches a worker with payloads it must open.
StartActivity(r, p) ==
  /\ status[r] = "running"
  /\ task[r] = NoTask
  /\ Cardinality({q \in Runs : task[q] # NoTask}) < MaxActivities
  /\ \A kid \in history[r] : Readable(kid)
  /\ task' = [task EXCEPT ![r] = [phase |-> "working", proc |-> p]]
  /\ UNCHANGED <<keyVars, cacheVars, runVars, call, op, ghosts, faults>>

\* The result is sealed under K; the server takes it while the run is open.
SealAs(r, K) ==
  /\ \/ /\ Seal(K)
        /\ history' = [history EXCEPT ![r] = IF status[r] = "running" THEN @ \cup {K} ELSE @]
     \/ SealThrows(K) /\ UNCHANGED history
  /\ task' = [task EXCEPT ![r] = NoTask]

\* The output may go into the cache; then the codec resolves the binding.
ProduceOutput(r) ==
  LET binding == known[task[r].proc][runId[r]] IN
  /\ task[r].phase = "working"
  /\ \/ \E k \in CacheKeys : Set(k, runSubjects[r])
     \/ UNCHANGED cacheVars
  /\ IF binding = {}
     THEN /\ task' = [task EXCEPT ![r].phase = "describing"]
          /\ UNCHANGED <<keystore, history>>
     ELSE \E K \in binding : SealAs(r, K)
  /\ UNCHANGED <<known, status, runId, runSubjects, indexed, call, op, ghosts, faults>>

\* A process without a binding asks the server for the id's latest run.
Describe(r) ==
  /\ task[r].phase = "describing"
  /\ \E latest \in {q \in Started : runId[q] = runId[r]} :
       /\ \A q \in Started : runId[q] = runId[r] => q <= latest
       /\ \/ /\ latest \in Retained
             /\ task' = [task EXCEPT ![r] = [phase |-> "described", proc |-> @.proc, reply |-> runSubjects[latest]]]
             /\ UNCHANGED faults
          \/ /\ latest \notin Retained
             /\ task' = [task EXCEPT ![r] = NoTask]
             /\ UNCHANGED faults
          \/ Fault /\ task' = [task EXCEPT ![r] = NoTask]
  /\ UNCHANGED <<keyVars, cacheVars, runVars, call, op, ghosts>>

\* The answer becomes the binding, whatever was bound while it was awaited.
SealDescribed(r) ==
  /\ task[r].phase = "described"
  /\ Register(task[r].proc, runId[r], task[r].reply)
  /\ SealAs(r, task[r].reply)
  /\ UNCHANGED <<cacheVars, status, runId, runSubjects, indexed, call, op, ghosts, faults>>

\* The visibility store learns of a run some time after its start.
Index(r) ==
  /\ r \in Started \ indexed
  /\ indexed' = indexed \cup {r}
  /\ UNCHANGED <<keyVars, cacheVars, status, runId, runSubjects, history, call, task, op, ghosts, faults>>

Close(r) ==
  /\ status[r] = "running"
  /\ status' = [status EXCEPT ![r] = "closed"]
  /\ UNCHANGED <<keyVars, cacheVars, runId, runSubjects, history, indexed, call, task, op, ghosts, faults>>

Restart(p) ==
  /\ Fault
  /\ Forget(p)
  /\ call' = [c \in Callers |-> IF CallerProc[c] = p THEN NoCall ELSE call[c]]
  /\ task' = [r \in Runs |-> IF task[r] # NoTask /\ task[r].proc = p THEN NoTask ELSE task[r]]
  /\ UNCHANGED <<keystore, cacheVars, runVars, op, ghosts>>
-----------------------------------------------------------------------------
(* eraseSubject.  Surfaces are driven in a fixed order, each for every     *)
(* subject of the request; one that is not selected is skipped.            *)

NextSurface(S, surface) ==
  IF surface = "keystore" /\ "executions" \in S THEN "executions"
  ELSE IF surface # "cache" /\ "cache" \in S THEN "cache"
  ELSE "done"

\* The operation o once the surface is through with subject s.
Served(o, s, surface) ==
  IF o.todo \ {s} # {}
  THEN [o EXCEPT !.phase = surface, !.todo = @ \ {s}, !.plan = {}]
  ELSE [o EXCEPT !.phase = NextSurface(o.surfaces, surface), !.todo = o.subjects, !.plan = {}]

Flawed(o, s) == [o EXCEPT !.flawed = @ \cup {s}]

Caveat(o, s, there) == IF there THEN [o EXCEPT !.caveats = @ \cup {s}] ELSE o

\* Everything up to the first await: the keys are shredded, one by one.
Request(q) ==
  /\ op.phase \in {"idle", "done"}
  /\ \E failing \in SUBSET q.subjects :
       /\ IF failing = {} THEN UNCHANGED faults
          ELSE "keystore" \in q.surfaces /\ Fault
       /\ LET shred == IF q.dry \/ "keystore" \notin q.surfaces THEN {} ELSE q.subjects \ failing
          IN /\ keystore' = Shredded(shred)
             /\ erased' = erased \cup shred
       /\ op' = [phase |-> NextSurface(q.surfaces, "keystore"), subjects |-> q.subjects, dry |-> q.dry,
                 surfaces |-> q.surfaces, before |-> indexed, todo |-> q.subjects, plan |-> {},
                 flawed |-> failing, caveats |-> {}]
  /\ UNCHANGED <<known, cacheVars, runVars, call, task, bound>>

\* Closed, and of this subject alone.
Deletable(listed, s) == {r \in listed : status[r] = "closed" /\ runSubjects[r] = {s}}

\* Bug: what lies beyond the limit goes without a warning.
ExcludedOfListed(found, listed, plan) == plan # listed

\* The receipt warns of running and shared executions and of a listing cut short.
Excluded(found, listed, plan) == plan # found

ListExecutions(s) ==
  /\ op.phase = "executions" /\ s \in op.todo
  /\ LET found == {r \in Retained \cap indexed : s \in runSubjects[r]} IN
     \E listed \in SUBSET found :
       /\ Cardinality(listed) = IF Cardinality(found) > Limit THEN Limit ELSE Cardinality(found)
       /\ LET plan == Deletable(listed, s)
              noted == Caveat(op, s, Excluded(found, listed, plan))
          IN op' = IF op.dry \/ plan = {} THEN Served(noted, s, "executions")
                   ELSE [noted EXCEPT !.phase = "deleting", !.plan = plan]
  /\ UNCHANGED <<keyVars, cacheVars, runVars, call, task, ghosts, faults>>

\* The listing fails: the subject is flawed, the others go on.
ListingFails(s) ==
  /\ op.phase = "executions" /\ s \in op.todo
  /\ Fault
  /\ op' = Served(Flawed(op, s), s, "executions")
  /\ UNCHANGED <<keyVars, cacheVars, runVars, call, task, ghosts>>

\* Bug: without the run id the server deletes the latest run of the workflow id.
TargetLatest(r) ==
  CHOOSE q \in Started : runId[q] = runId[r] /\ \A l \in Started : runId[l] = runId[r] => l <= q

\* The workflow id and the run id of the listing.
Target(r) == r

\* The subject the plan was made for.
Planned(r) == CHOOSE s \in runSubjects[r] : TRUE

PlanLess(o, r) ==
  IF o.plan = {r} THEN Served(o, Planned(r), "executions") ELSE [o EXCEPT !.plan = @ \ {r}]

DeleteExecution(r) ==
  /\ op.phase = "deleting" /\ r \in op.plan
  /\ \/ /\ status' = [status EXCEPT ![Target(r)] = "deleted"]
        /\ op' = PlanLess(op, r)
        /\ UNCHANGED faults
     \/ /\ Fault
        /\ op' = PlanLess(Flawed(op, Planned(r)), r)
        /\ UNCHANGED status
  /\ UNCHANGED <<keyVars, cacheVars, runId, runSubjects, history, indexed, call, task, ghosts>>

EraseCached(s) ==
  /\ op.phase = "cache" /\ s \in op.todo
  /\ IF op.dry THEN UNCHANGED cacheVars ELSE EraseFromCache(s)
  /\ op' = Served(op, s, "cache")
  /\ UNCHANGED <<keyVars, runVars, call, task, ghosts, faults>>
-----------------------------------------------------------------------------
ErasureStep ==
  \/ \E s \in Subjects : ListExecutions(s) \/ EraseCached(s)
  \/ \E r \in Runs : DeleteExecution(r)

StartStep(c) == SealInput(c) \/ StartFails(c) \/ \E r \in Runs : StartAccepted(c, r)

ActivityStep(r) == ProduceOutput(r) \/ Describe(r) \/ SealDescribed(r)

Next ==
  \/ \E c \in Callers, id \in WorkflowIds, S \in Attributions : BeginStart(c, id, S)
  \/ \E c \in Callers : StartStep(c)
  \/ \E r \in Runs : ActivityStep(r) \/ Index(r) \/ Close(r)
  \/ \E r \in Runs, p \in Procs : StartActivity(r, p)
  \/ \E p \in Procs : Restart(p)
  \/ \E q \in Requests : Request(q)
  \/ \E s \in Subjects : ListingFails(s)
  \/ ErasureStep

Spec == Init /\ [][Next]_vars

\* Calls under way, activities and runs come to an end, and so does each
\* erasure; the operator asks for every request again and again.
Fairness ==
  /\ WF_vars(ErasureStep)
  /\ \A q \in Requests : SF_vars(Request(q))
  /\ \A c \in Callers : WF_vars(StartStep(c))
  /\ \A r \in Runs : WF_vars(ActivityStep(r)) /\ WF_vars(Close(r)) /\ WF_vars(Index(r))

FairSpec == Spec /\ Fairness
-----------------------------------------------------------------------------
Phases == {"idle", "executions", "deleting", "cache", "done"}

TypeOK ==
  /\ KeysTypeOK /\ CacheTypeOK
  /\ status \in [Runs -> {"unstarted", "running", "closed", "deleted"}]
  /\ runId \in [Runs -> WorkflowIds]
  /\ runSubjects \in [Runs -> SUBSET Subjects]
  /\ history \in [Runs -> SUBSET SUBSET Subjects]
  /\ indexed \subseteq Started
  /\ call \in [Callers -> {NoCall} \cup
       [phase : {"registered"}, id : WorkflowIds, subjects : SUBSET Subjects] \cup
       [phase : {"sealed"}, id : WorkflowIds, subjects : SUBSET Subjects, kid : SUBSET Subjects]]
  /\ task \in [Runs -> {NoTask} \cup
       [phase : {"working", "describing"}, proc : Procs] \cup
       [phase : {"described"}, proc : Procs, reply : SUBSET Subjects]]
  /\ op \in [phase : Phases, subjects : SUBSET Subjects, dry : BOOLEAN, surfaces : SUBSET Surfaces,
             before : SUBSET Runs, todo : SUBSET Subjects, plan : SUBSET Runs,
             flawed : SUBSET Subjects, caveats : SUBSET Subjects]
  /\ erased \in SUBSET Subjects
  /\ bound \in [WorkflowIds -> SUBSET SUBSET Subjects]
  /\ faults \in 0 .. MaxFaults

\* Destroying a subject's key makes every payload of the subject unreadable
\* and no payload of anybody else, whenever it was sealed and by whichever
\* process, as long as the workflow id was only ever bound to those subjects.
ShredReachesExactly ==
  \A r \in Retained : bound[runId[r]] = {runSubjects[r]} =>
    \A kid \in history[r] :
      /\ kid = runSubjects[r]
      /\ Readable(kid) <=> runSubjects[r] \cap erased = {}

\* A receipt without failure or warning for a subject means that every
\* execution of the subject that a listing could find when the erasure was
\* asked for is gone.
CleanReceipt ==
  op.phase = "done" /\ ~op.dry /\ "executions" \in op.surfaces =>
    \A s \in op.subjects \ (op.flawed \cup op.caveats), r \in op.before :
      s \in runSubjects[r] => status[r] = "deleted"

\* No step destroys what the request does not name: an execution goes only
\* when it is closed and all its subjects are erased, a cached record when
\* one of its subjects is, a key when its subject is; a dry run destroys nothing.
NoCollateral ==
  [][/\ \A r \in Runs : status'[r] = "deleted" /\ status[r] # "deleted" =>
          status[r] = "closed" /\ ~op.dry /\ runSubjects[r] \subseteq op.subjects
     /\ \A k \in stored \ stored' : ~op.dry /\ recordSubjects[k] \cap op.subjects # {}
     /\ \A s \in Subjects : keystore'[s] = "destroyed" /\ keystore[s] # "destroyed" =>
          ~op'.dry /\ s \in op'.subjects]_vars

WithinLimit(s) == Cardinality({r \in Started : s \in runSubjects[r]}) <= Limit

Gone(s) ==
  /\ \A r \in Retained : runSubjects[r] # {s}
  /\ \A k \in stored : s \notin recordSubjects[k]

\* Erasures asked for again and again overtake the runs that were still open
\* and the activities that were still writing: in the end nothing that is
\* the subject's alone is left, provided its executions fit into a listing.
Converges ==
  \A s \in Subjects : <>[](s \in erased /\ WithinLimit(s) => Gone(s))
=============================================================================
