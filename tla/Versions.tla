------------------------------ MODULE Versions ------------------------------
(***************************************************************************)
(* Frozen versions of a workflow: the check of a version label before a    *)
(* start (yaml/src/frozen-version.ts), the starts of a runtime, of a       *)
(* control plane and of a parent workflow, the migration of an execution   *)
(* to another version (operations.ts of temporal-controlplane) and the     *)
(* drain view an operator reads before old workers go (drain.ts there).    *)
(*                                                                         *)
(* They meet in the visibility store only, which learns of a run some time *)
(* after it started.  Runs are numbered as they start, so that newest      *)
(* first is from the highest number down.  An action is the code between   *)
(* two awaits.  A graph stands for its digest.                             *)
(* Operators marked "Bug:" validate the properties and are used nowhere.   *)
(***************************************************************************)
EXTENDS Integers, FiniteSets

CONSTANTS
  Graphs,
  Workflow,       \* graph -> logical name
  Label,          \* graph -> workflow.version, or None
  None,
  WorkflowIds,
  Callers,        \* those that start runs, one call of each at a time
  Graph,          \* caller -> the graph it has resolved
  Kind,           \* caller -> what it is
  Current,        \* the graph the drain view is asked for
  ScanLimit,      \* rows a scan reads before it gives up
  MaxCalls,       \* bound: calls under way, the drain view's included
  MaxUnindexed,   \* bound: runs the visibility store has yet to index
  MaxRuns         \* bound: runs

Runs == 1 .. MaxRuns

ASSUME VersionsAssumption ==
  /\ Graph \in [Callers -> Graphs]
  /\ Kind \in [Callers -> {"runtime", "controlPlane", "parent"}]
  /\ Current \in Graphs
  /\ ScanLimit \in Nat \ {0}
  /\ MaxCalls \in Nat
  /\ MaxUnindexed \in Nat
  /\ MaxRuns \in Nat
  /\ None \notin Graphs

VARIABLES
  status,         \* run -> unstarted, running or closed
  graph,          \* run -> the graph of its plan, as its memo tells
  runId,          \* run -> its workflow id
  migratedFrom,   \* run -> the run it replaces, by its memo, or 0
  visible,        \* the runs the visibility store has indexed
  call,           \* caller -> the call under way
  checked,        \* runtime -> outcome of its one check of the label
  view,           \* a drain view, asked for at any moment
  loose           \* ghost: versions started behind the back of the check

runVars == <<status, graph, runId, migratedFrom>>
vars == <<runVars, visible, call, checked, view, loose>>
-----------------------------------------------------------------------------
Started == {r \in Runs : status[r] # "unstarted"}

\* versionIdentityKey.
Key(g) == IF Label[g] = None THEN <<Workflow[g], g>> ELSE <<Workflow[g], Label[g]>>

\* Two graphs under one label of one workflow.
SameVersion(g, h) == Workflow[g] = Workflow[h] /\ Label[g] = Label[h] /\ Label[g] # None

\* The runs whose memo carries the workflow and the label of g.
OfVersion(g) == {r \in Started : SameVersion(graph[r], g)}

\* The newest n of the runs in S.
Newest(S, n) == {r \in S : Cardinality({q \in S : r < q}) < n}

Idle == [phase |-> "idle", old |-> 0]

NoView == [scanning |-> FALSE, before |-> {}, keys |-> {}, cursor |-> MaxRuns + 1,
           scanned |-> 0, drained |-> FALSE]

Init ==
  /\ status = [r \in Runs |-> "unstarted"]
  /\ graph = [r \in Runs |-> Current]
  /\ runId = [r \in Runs |-> None]
  /\ migratedFrom = [r \in Runs |-> 0]
  /\ visible = {}
  /\ call = [c \in Callers |-> Idle]
  /\ checked = [c \in Callers |-> "no"]
  /\ view = NoView
  /\ loose = {}
-----------------------------------------------------------------------------
(* The check of a version label.  A query that fails, a label beyond the   *)
(* scan and a label never seen let the caller pass.                        *)

\* Past the check the caller goes on to terminate the old run, or to start.
Passed(c) ==
  [call EXCEPT ![c].phase = IF @ = "preflight" THEN "terminating" ELSE "starting"]

Ended(c) == [call EXCEPT ![c] = Idle]

\* What the scan of the version of g finds.
Found(g) == Newest(visible, ScanLimit) \cap OfVersion(g)

Checking(c) == call[c].phase \in {"checking", "preflight"}

\* Bug: a runtime keeps that it has checked, not what came out.
RememberPassed(c, outcome) ==
  checked' = IF Kind[c] = "runtime" THEN [checked EXCEPT ![c] = "passed"] ELSE checked

\* A runtime checks once; what came out is kept for its later starts.
Remember(c, outcome) ==
  checked' = IF Kind[c] = "runtime" THEN [checked EXCEPT ![c] = outcome] ELSE checked

\* The version of g is no longer sure to be one graph, if it could be two.
Loosened(g) ==
  IF \E h \in Graphs \ {g} : SameVersion(g, h) THEN loose \cup {Key(g)} ELSE loose

Scan(c) ==
  /\ Checking(c) /\ Label[Graph[c]] # None
  /\ checked[c] = "no"
  /\ LET g == Graph[c] IN
     \/ /\ \/ Found(g) = {}
           \/ \E r \in Found(g) : (\A q \in Found(g) : q <= r) /\ graph[r] = g
        /\ call' = Passed(c)
        /\ Remember(c, "passed")
        /\ loose' = IF OfVersion(g) \subseteq visible /\ (Found(g) = {} => OfVersion(g) = {})
                    THEN loose ELSE Loosened(g)
     \/ /\ \E r \in Found(g) : (\A q \in Found(g) : q <= r) /\ graph[r] # g
        /\ call' = Ended(c)
        /\ Remember(c, "frozen")
        /\ UNCHANGED loose
  /\ UNCHANGED <<runVars, visible, view>>

\* The query fails: a warning, and the caller passes.
ScanFails(c) ==
  /\ Checking(c) /\ Label[Graph[c]] # None
  /\ checked[c] = "no"
  /\ call' = Passed(c)
  /\ Remember(c, "passed")
  /\ loose' = Loosened(Graph[c])
  /\ UNCHANGED <<runVars, visible, view>>

\* No label, or a runtime that has checked before.
SkipScan(c) ==
  /\ Checking(c)
  /\ \/ /\ Label[Graph[c]] = None \/ checked[c] = "passed"
        /\ call' = Passed(c)
     \/ /\ Label[Graph[c]] # None /\ checked[c] = "frozen"
        /\ call' = Ended(c)
  /\ UNCHANGED <<runVars, visible, checked, view, loose>>
-----------------------------------------------------------------------------
(* Starts.                                                                 *)

Room == Cardinality({d \in Callers : call[d] # Idle}) + (IF view.scanning THEN 1 ELSE 0) < MaxCalls

Free(c) == call[c] = Idle /\ Room

\* The interpreter starts a child without a check; the others check first.
BeginStart(c) ==
  /\ Free(c)
  /\ call' = [call EXCEPT ![c].phase = IF Kind[c] = "parent" THEN "starting" ELSE "checking"]
  /\ UNCHANGED <<runVars, visible, checked, view, loose>>

IdInUse(id) == \E r \in Runs : status[r] = "running" /\ runId[r] = id

\* Somebody else has been let through for another graph of the same version.
Overtakes(c) ==
  \E d \in Callers \ {c} :
    /\ SameVersion(Graph[c], Graph[d]) /\ Graph[d] # Graph[c]
    /\ call[d].phase \in {"terminating", "starting"} \/ checked[d] = "passed"

\* The server takes the start; whether its answer arrives changes nothing
\* here.  A migration starts under the id of the run it has terminated, any
\* other call under the id it was given, which is named here, where it counts.
Start(c, id, r) ==
  /\ call[c].phase = "starting"
  /\ call[c].old # 0 => id = runId[call[c].old]
  /\ ~IdInUse(id)
  /\ Cardinality(Started \ visible) < MaxUnindexed
  /\ status[r] = "unstarted"
  /\ \A q \in Runs : q < r => q \in Started
  /\ status' = [status EXCEPT ![r] = "running"]
  /\ graph' = [graph EXCEPT ![r] = Graph[c]]
  /\ runId' = [runId EXCEPT ![r] = id]
  /\ migratedFrom' = [migratedFrom EXCEPT ![r] = call[c].old]
  /\ loose' = IF Kind[c] = "parent" \/ Overtakes(c) THEN Loosened(Graph[c]) ELSE loose
  /\ call' = Ended(c)
  /\ UNCHANGED <<visible, checked, view>>

\* A refusal before the terminate, an id in use, or a service that fails.
Fails(c) ==
  /\ call[c] # Idle
  /\ call' = Ended(c)
  /\ UNCHANGED <<runVars, visible, checked, view, loose>>

\* A runtime that restarts has checked nothing.
Restart(c) ==
  /\ Kind[c] = "runtime"
  /\ call' = Ended(c)
  /\ checked' = [checked EXCEPT ![c] = "no"]
  /\ UNCHANGED <<runVars, visible, view, loose>>
-----------------------------------------------------------------------------
(* Migration: describe, preflight, terminate, start under the same id.     *)

Latest(id) == {r \in Started : runId[r] = id /\ \A q \in Started : runId[q] = id => q <= r}

\* The handle is pinned to the run that was described.
Describe(c, id) ==
  /\ Kind[c] = "controlPlane"
  /\ Free(c)
  /\ \E r \in Latest(id) :
       /\ Workflow[graph[r]] = Workflow[Graph[c]]
       /\ Key(graph[r]) # Key(Graph[c])
       /\ call' = [call EXCEPT ![c] = [phase |-> "preflight", old |-> r]]
  /\ UNCHANGED <<runVars, visible, checked, view, loose>>

\* Bug: the handle is left unpinned and means the latest run of the id.
TargetLatest(c) == CHOOSE r \in Latest(runId[call[c].old]) : TRUE

Target(c) == call[c].old

\* The server closes the run.  The answer may be lost, and the migration ends.
Terminate(c) ==
  /\ call[c].phase = "terminating"
  /\ status[Target(c)] = "running"
  /\ status' = [status EXCEPT ![Target(c)] = "closed"]
  /\ call' = [call EXCEPT ![c].phase = "checking"] \/ call' = Ended(c)
  /\ UNCHANGED <<graph, runId, migratedFrom, visible, checked, view, loose>>
-----------------------------------------------------------------------------
(* The drain view: a scan of the running executions, row by row.           *)

BeginView ==
  /\ ~view.scanning /\ Room
  /\ view' = [NoView EXCEPT !.scanning = TRUE,
                            !.before = {r \in visible : status[r] = "running"}]
  /\ UNCHANGED <<runVars, visible, call, checked, loose>>

\* Bug: it counts what it has seen, and no more.
AnswerAnyway(keys, truncated) ==
  [NoView EXCEPT !.drained = keys \subseteq {Key(Current)}]

\* The view answers; a scan cut short never says drained.
Answer(keys, truncated) ==
  [NoView EXCEPT !.drained = ~truncated /\ keys \subseteq {Key(Current)}]

ReadRow ==
  /\ view.scanning
  /\ LET rows == {r \in visible : status[r] = "running" /\ r < view.cursor} IN
     \/ /\ rows = {}
        /\ view' = Answer(view.keys, FALSE)
     \/ \E r \in rows :
          LET keys == IF Workflow[graph[r]] = Workflow[Current]
                      THEN view.keys \cup {Key(graph[r])} ELSE view.keys
          IN /\ \A q \in rows : q <= r
             /\ view' = IF view.scanned + 1 >= ScanLimit THEN Answer(keys, TRUE)
                        ELSE [view EXCEPT !.keys = keys, !.cursor = r, !.scanned = @ + 1]
  /\ UNCHANGED <<runVars, visible, call, checked, loose>>
-----------------------------------------------------------------------------
(* The Temporal server.                                                    *)

Complete(r) ==
  /\ status[r] = "running"
  /\ status' = [status EXCEPT ![r] = "closed"]
  /\ UNCHANGED <<graph, runId, migratedFrom, visible, call, checked, view, loose>>

Index(r) ==
  /\ r \in Started \ visible
  /\ visible' = visible \cup {r}
  /\ UNCHANGED <<runVars, call, checked, view, loose>>

Next ==
  \/ \E c \in Callers :
       \/ Scan(c) \/ ScanFails(c) \/ SkipScan(c)
       \/ BeginStart(c) \/ Fails(c) \/ Restart(c) \/ Terminate(c)
       \/ \E id \in WorkflowIds :
            Describe(c, id) \/ \E r \in Runs : Start(c, id, r)
  \/ BeginView \/ ReadRow
  \/ \E r \in Runs : Complete(r) \/ Index(r)

Spec == Init /\ [][Next]_vars
-----------------------------------------------------------------------------
TypeOK ==
  /\ status \in [Runs -> {"unstarted", "running", "closed"}]
  /\ graph \in [Runs -> Graphs]
  /\ runId \in [Runs -> WorkflowIds \cup {None}]
  /\ migratedFrom \in [Runs -> {0} \cup Runs]
  /\ visible \subseteq Started
  /\ call \in [Callers -> [phase : {"idle", "checking", "preflight", "terminating", "starting"},
                           old : {0} \cup Runs]]
  /\ checked \in [Callers -> {"no", "passed", "frozen"}]
  /\ view \in [scanning : BOOLEAN, before : SUBSET Runs, keys : SUBSET {Key(g) : g \in Graphs},
               cursor : 1 .. MaxRuns + 1, scanned : Nat, drained : BOOLEAN]
  /\ loose \subseteq {Key(g) : g \in Graphs}

\* A version label denotes one graph, whoever starts runs under it, as long
\* as no start went behind the back of the check: one whose scan failed or
\* did not reach the label, one that another start overtook, or a child's.
LabelFrozen ==
  \A r, q \in Started :
    SameVersion(graph[r], graph[q]) =>
      graph[r] = graph[q] \/ Key(graph[r]) \in loose

\* A view that says drained means that every execution of the workflow that
\* was indexed and running when the view was asked for, and still runs, is of
\* the current version, however runs started, closed and were indexed while
\* the rows were read.
SoundDrain ==
  [][view.scanning /\ view'.drained =>
       \A r \in view.before :
         status[r] = "running" /\ Workflow[graph[r]] = Workflow[Current] =>
           Key(graph[r]) = Key(Current)]_vars

TerminatesOther ==
  \A c \in Callers, r \in Runs :
    call'[c] # call[c] /\ status[r] = "running" /\ status'[r] = "closed" =>
      Workflow[graph[r]] = Workflow[Graph[c]] /\ Key(graph[r]) # Key(Graph[c])

ReplacedOnce(r) ==
  LET old == migratedFrom'[r] IN
  /\ status[old] = "closed" /\ runId[old] = runId'[r]
  /\ Workflow[graph[old]] = Workflow[graph'[r]] /\ Key(graph[old]) # Key(graph'[r])
  /\ \A q \in Started : migratedFrom[q] # old

ReplacesOnce == \A r \in Runs : migratedFrom'[r] # migratedFrom[r] => ReplacedOnce(r)

\* However migrations race each other, starts and completions: a migration
\* terminates a run of its workflow and of another version, never the run
\* that has replaced it, and a run it starts replaces a closed run of its id
\* and of another version that nothing has replaced before.
MigrationReplaces == [][TerminatesOther /\ ReplacesOnce]_vars
=============================================================================
