--------------------------- MODULE VersionsProofs ---------------------------
(***************************************************************************)
(* Proofs about Versions, for every set of graphs, callers and runs.       *)
(* Beside the types, every step keeps                                      *)
(*   MigrationsPinned  what a migration under way knows of the run it has  *)
(*                     described, and that nothing else replaces that run; *)
(*   Cleared           what a caller that was let through may rely on;     *)
(*   ViewCovers        what the rows the drain view has read amount to.    *)
(***************************************************************************)
EXTENDS Versions, TLAPS

Replacing(c) == call[c].phase \in {"checking", "starting"} /\ call[c].old # 0

\* The run described is the one to replace.
Remembers ==
  \A c \in Callers : call[c].old # 0 =>
    LET old == call[c].old IN
    /\ call[c].phase # "idle"
    /\ old \in Started
    /\ Workflow[graph[old]] = Workflow[Graph[c]] /\ Key(graph[old]) # Key(Graph[c])

HasTarget ==
  \A c \in Callers : call[c].phase \in {"preflight", "terminating"} => call[c].old # 0

\* Past the terminate nobody else replaces the run.
Alone ==
  \A c \in Callers : Replacing(c) =>
    /\ status[call[c].old] = "closed"
    /\ \A q \in Started : migratedFrom[q] # call[c].old
    /\ \A d \in Callers : Replacing(d) /\ call[d].old = call[c].old => d = c

Records ==
  \A r \in Runs :
    /\ status[r] = "unstarted" => migratedFrom[r] = 0
    /\ migratedFrom[r] # 0 => status[migratedFrom[r]] = "closed"

MigrationsPinned == Remembers /\ HasTarget /\ Alone /\ Records

\* Only runs of the graph g carry the label of g.
Sure(g) == Key(g) \in loose \/ \A r \in OfVersion(g) : graph[r] = g

LetThrough(c) ==
  \/ Kind[c] # "parent" /\ call[c].phase \in {"terminating", "starting"}
  \/ checked[c] = "passed"

Cleared == \A c \in Callers : Label[Graph[c]] # None /\ LetThrough(c) => Sure(Graph[c])

ViewCovers ==
  view.scanning =>
    /\ ~view.drained
    /\ view.before \subseteq visible
    /\ \A r \in view.before :
         status[r] = "running" /\ Workflow[graph[r]] = Workflow[Current] /\ r >= view.cursor =>
           Key(graph[r]) \in view.keys

Phases == {"idle", "checking", "preflight", "terminating", "starting"}

Keys == {Key(g) : g \in Graphs}

ViewSet == [scanning : BOOLEAN, before : SUBSET Runs, keys : SUBSET Keys,
            cursor : 1 .. MaxRuns + 1, scanned : Nat, drained : BOOLEAN]

CallSet == [phase : Phases, old : {0} \cup Runs]

LEMMA ZeroIsNoRun == 0 \notin Runs /\ Runs \subseteq Nat
BY VersionsAssumption DEF VersionsAssumption, Runs
-----------------------------------------------------------------------------
(* Types.                                                                  *)

LEMMA InitTyped == Init => TypeOK
BY VersionsAssumption DEF VersionsAssumption, Init, TypeOK, Started, Idle, NoView, Runs

LEMMA CallsTyped ==
  ASSUME TypeOK, NEW c \in Callers
  PROVE  /\ Ended(c) \in [Callers -> CallSet]
         /\ Passed(c) \in [Callers -> CallSet]
BY DEF TypeOK, Ended, Passed, Idle, CallSet, Phases

LEMMA LoosenedTyped ==
  ASSUME TypeOK, NEW g \in Graphs
  PROVE  Loosened(g) \subseteq {Key(h) : h \in Graphs}
BY DEF TypeOK, Loosened

LEMMA ScanTyped ==
  ASSUME TypeOK, NEW c \in Callers, Scan(c) \/ ScanFails(c) \/ SkipScan(c)
  PROVE  TypeOK'
<1>1. Graph[c] \in Graphs
  BY VersionsAssumption DEF VersionsAssumption
<1>2. call' \in [Callers -> CallSet]
  BY CallsTyped DEF Scan, ScanFails, SkipScan
<1>3. checked' \in [Callers -> {"no", "passed", "frozen"}]
  BY DEF TypeOK, Scan, ScanFails, SkipScan, Remember
<1>4. loose' \subseteq {Key(h) : h \in Graphs}
  <2>1. loose' = loose \/ loose' = Loosened(Graph[c])
    BY DEF Scan, ScanFails, SkipScan
  <2> QED
    BY <1>1, <2>1, LoosenedTyped DEF TypeOK
<1>5. UNCHANGED <<runVars, visible, view>>
  BY DEF Scan, ScanFails, SkipScan
<1> QED
  BY <1>2, <1>3, <1>4, <1>5 DEF TypeOK, runVars, Started, CallSet, Phases

LEMMA StartTyped ==
  ASSUME TypeOK, NEW c \in Callers, NEW id \in WorkflowIds, NEW r \in Runs,
         Start(c, id, r)
  PROVE  TypeOK'
<1>1. Graph[c] \in Graphs
  BY VersionsAssumption DEF VersionsAssumption
<1>2. call' \in [Callers -> CallSet]
  BY CallsTyped DEF Start
<1>3. loose' \subseteq {Key(h) : h \in Graphs}
  <2>1. loose' = loose \/ loose' = Loosened(Graph[c])
    BY DEF Start
  <2> QED
    BY <1>1, <2>1, LoosenedTyped DEF TypeOK
<1>4. call[c].old \in {0} \cup Runs
  BY DEF TypeOK
<1>5. /\ status' \in [Runs -> {"unstarted", "running", "closed"}]
      /\ graph' \in [Runs -> Graphs]
      /\ runId' \in [Runs -> WorkflowIds \cup {None}]
      /\ migratedFrom' \in [Runs -> {0} \cup Runs]
      /\ Started \subseteq Started'
      /\ UNCHANGED <<visible, checked, view>>
  BY <1>1, <1>4 DEF Start, TypeOK, Started
<1> QED
  BY <1>2, <1>3, <1>5 DEF TypeOK, CallSet, Phases

LEMMA CallStepTyped ==
  ASSUME TypeOK, NEW c \in Callers,
         \/ BeginStart(c) \/ Fails(c) \/ Restart(c) \/ Terminate(c)
         \/ \E id \in WorkflowIds : Describe(c, id)
  PROVE  TypeOK'
<1>1. CASE Fails(c) \/ Restart(c)
  BY <1>1, CallsTyped DEF Fails, Restart, TypeOK, runVars, Started, CallSet, Phases
<1>2. CASE Terminate(c)
  <2>1. call' \in [Callers -> CallSet]
    <3>1. [call EXCEPT ![c].phase = "checking"] \in [Callers -> CallSet]
      BY DEF TypeOK, CallSet, Phases
    <3> QED
      BY <1>2, <3>1, CallsTyped DEF Terminate
  <2>2. status' \in [Runs -> {"unstarted", "running", "closed"}] /\ Started' = Started
    BY <1>2 DEF Terminate, TypeOK, Started
  <2> QED
    BY <1>2, <2>1, <2>2 DEF Terminate, TypeOK, CallSet, Phases
<1>3. CASE BeginStart(c)
  BY <1>3 DEF BeginStart, TypeOK, runVars, Started
<1>4. ASSUME NEW id \in WorkflowIds, Describe(c, id) PROVE TypeOK'
  <2>1. PICK r \in Runs : call' = [call EXCEPT ![c] = [phase |-> "preflight", old |-> r]]
    BY <1>4 DEF Describe, Latest, Started
  <2> QED
    BY <1>4, <2>1 DEF Describe, TypeOK, runVars, Started
<1> QED
  BY <1>1, <1>2, <1>3, <1>4

LEMMA AnswerTyped ==
  ASSUME NEW keys, NEW t \in BOOLEAN
  PROVE  Answer(keys, t) \in ViewSet
<1> DEFINE d == ~t /\ keys \subseteq {Key(Current)}
<1>1. Answer(keys, t) = [NoView EXCEPT !.drained = d]
  BY DEF Answer
<1>2. d \in BOOLEAN
  OBVIOUS
<1>3. NoView \in ViewSet
  BY VersionsAssumption DEF VersionsAssumption, NoView, ViewSet
<1> HIDE DEF d
<1> QED
  BY <1>1, <1>2, <1>3 DEF ViewSet

LEMMA ReadRowSplit ==
  ASSUME TypeOK, ReadRow
  PROVE  \/ /\ \A r \in visible : status[r] = "running" => ~(r < view.cursor)
            /\ view' = Answer(view.keys, FALSE)
         \/ \E r \in visible :
              /\ status[r] = "running" /\ r < view.cursor
              /\ \A q \in visible : status[q] = "running" /\ q < view.cursor => q <= r
              /\ \E keys \in SUBSET Keys :
                   /\ view.keys \subseteq keys
                   /\ Workflow[graph[r]] = Workflow[Current] => Key(graph[r]) \in keys
                   /\ \/ view' = Answer(keys, TRUE)
                      \/ view' = [view EXCEPT !.keys = keys, !.cursor = r, !.scanned = @ + 1]
<1> DEFINE rows == {r \in visible : status[r] = "running" /\ r < view.cursor}
           More(r) == IF Workflow[graph[r]] = Workflow[Current]
                      THEN view.keys \cup {Key(graph[r])} ELSE view.keys
<1>1. \/ rows = {} /\ view' = Answer(view.keys, FALSE)
      \/ \E r \in rows :
           /\ \A q \in rows : q <= r
           /\ \/ view' = Answer(More(r), TRUE)
              \/ view' = [view EXCEPT !.keys = More(r), !.cursor = r, !.scanned = @ + 1]
  BY DEF ReadRow
<1>2. ASSUME NEW r \in rows
      PROVE  /\ More(r) \in SUBSET Keys /\ view.keys \subseteq More(r)
             /\ Workflow[graph[r]] = Workflow[Current] => Key(graph[r]) \in More(r)
  BY DEF TypeOK, Started, Keys
<1> HIDE DEF More
<1> QED
  BY <1>1, <1>2

LEMMA ViewTyped ==
  ASSUME TypeOK, BeginView \/ ReadRow
  PROVE  TypeOK'
<1>1. view \in ViewSet
  BY DEF TypeOK, ViewSet, Keys
<1>2. view' \in ViewSet
  <2>1. CASE BeginView
    <3>1. {r \in visible : status[r] = "running"} \subseteq Runs
      BY DEF TypeOK, Started
    <3>2. NoView \in ViewSet
      BY VersionsAssumption DEF VersionsAssumption, NoView, ViewSet
    <3> QED
      BY <2>1, <3>1, <3>2 DEF BeginView, ViewSet
  <2>2. ASSUME ReadRow PROVE view' \in ViewSet
    <3>1. CASE view' = Answer(view.keys, FALSE)
      BY <3>1, AnswerTyped
    <3>2. ASSUME NEW r \in visible, NEW keys \in SUBSET Keys, view' = Answer(keys, TRUE)
          PROVE  view' \in ViewSet
      BY <3>2, AnswerTyped
    <3>3. ASSUME NEW r \in visible, NEW keys \in SUBSET Keys,
                 view' = [view EXCEPT !.keys = keys, !.cursor = r, !.scanned = @ + 1]
          PROVE  view' \in ViewSet
      <4>1. r \in Runs
        BY DEF TypeOK, Started
      <4>2. r \in 1 .. MaxRuns + 1
        BY <4>1, VersionsAssumption DEF VersionsAssumption, Runs
      <4> DEFINE n == view.scanned + 1
      <4>3. n \in Nat
        BY <1>1 DEF ViewSet
      <4>4. view' = [view EXCEPT !.keys = keys, !.cursor = r, !.scanned = n]
        BY <3>3
      <4> HIDE DEF n
      <4> QED
        BY <1>1, <4>2, <4>3, <4>4 DEF ViewSet
    <3> QED
      BY <2>2, <3>1, <3>2, <3>3, ReadRowSplit
  <2> QED
    BY <2>1, <2>2
<1>3. UNCHANGED <<runVars, visible, call, checked, loose>>
  BY DEF BeginView, ReadRow
<1> QED
  BY <1>2, <1>3 DEF TypeOK, runVars, Started, ViewSet, Keys

LEMMA ServerTyped ==
  ASSUME TypeOK, NEW r \in Runs, Complete(r) \/ Index(r)
  PROVE  TypeOK'
<1>1. CASE Complete(r)
  <2>1. Started' = Started /\ status' \in [Runs -> {"unstarted", "running", "closed"}]
    BY <1>1 DEF Complete, TypeOK, Started
  <2> QED
    BY <1>1, <2>1 DEF Complete, TypeOK
<1>2. CASE Index(r)
  BY <1>2 DEF Index, TypeOK, runVars, Started
<1> QED
  BY <1>1, <1>2

LEMMA NextTyped == TypeOK /\ [Next]_vars => TypeOK'
<1> SUFFICES ASSUME TypeOK, [Next]_vars PROVE TypeOK'
  OBVIOUS
<1>1. CASE UNCHANGED vars
  BY <1>1 DEF TypeOK, vars, runVars, Started
<1>2. CASE Next
  BY <1>2, ScanTyped, StartTyped, CallStepTyped, ViewTyped, ServerTyped DEF Next
<1> QED
  BY <1>1, <1>2

\* Every variable keeps its type.
THEOREM TypeCorrect == Spec => []TypeOK
BY InitTyped, NextTyped, PTL DEF Spec
-----------------------------------------------------------------------------
(* Migrations.                                                             *)

LEMMA ScanSplit ==
  ASSUME TypeOK, NEW c \in Callers, Scan(c)
  PROVE  /\ Checking(c) /\ Label[Graph[c]] # None
         /\ UNCHANGED <<runVars, visible, view>>
         /\ \/ /\ call' = Passed(c) /\ Remember(c, "passed")
               /\ \/ loose' = Loosened(Graph[c])
                  \/ /\ loose' = loose
                     /\ \/ OfVersion(Graph[c]) = {}
                        \/ \E r \in OfVersion(Graph[c]) : graph[r] = Graph[c]
            \/ call' = Ended(c) /\ Remember(c, "frozen") /\ UNCHANGED loose
BY DEF Scan, Found

LEMMA InitPinned == Init => MigrationsPinned
BY DEF Init, MigrationsPinned, Remembers, HasTarget, Alone, Records, Replacing, Idle, Started

\* A call that ends or passes the check keeps or forgets what it remembers.
LEMMA CallOnlyPinned ==
  ASSUME TypeOK, MigrationsPinned, NEW c \in Callers, UNCHANGED runVars,
         call' = Ended(c) \/ (Checking(c) /\ call' = Passed(c))
  PROVE  MigrationsPinned'
<1>1. \A d \in Callers \ {c} : call'[d] = call[d]
  BY DEF TypeOK, Ended, Passed
<1>2. CASE call' = Ended(c)
  <2>1. call'[c].phase = "idle" /\ call'[c].old = 0
    BY <1>2 DEF TypeOK, Ended, Idle
  <2> QED
    BY <1>1, <2>1 DEF MigrationsPinned, Remembers, HasTarget, Alone, Records, Replacing, runVars, Started
<1>3. CASE Checking(c) /\ call' = Passed(c)
  <2>1. /\ call'[c].old = call[c].old
        /\ \/ call[c].phase = "preflight" /\ call'[c].phase = "terminating"
           \/ call[c].phase = "checking" /\ call'[c].phase = "starting"
    BY <1>3 DEF TypeOK, Checking, Passed
  <2>2. \A d \in Callers : Replacing(d)' = Replacing(d) /\ call'[d].old = call[d].old
    BY <1>1, <2>1 DEF Replacing
  <2>3. Remembers' /\ HasTarget' /\ Records'
    BY <1>1, <2>1 DEF MigrationsPinned, Remembers, HasTarget, Records, runVars, Started
  <2>4. Alone'
    BY <2>2 DEF MigrationsPinned, Alone, runVars, Started
  <2> QED
    BY <2>3, <2>4 DEF MigrationsPinned
<1> QED
  BY <1>2, <1>3

LEMMA StartPinned ==
  ASSUME TypeOK, MigrationsPinned, NEW c \in Callers, NEW id \in WorkflowIds, NEW r \in Runs,
         Start(c, id, r)
  PROVE  MigrationsPinned'
<1>1. /\ \A d \in Callers \ {c} : call'[d] = call[d]
      /\ call'[c].phase = "idle" /\ call'[c].old = 0
  BY DEF Start, TypeOK, Ended, Idle
<1>2. /\ r \notin Started /\ Started' = Started \cup {r}
      /\ \A q \in Runs : q # r => /\ status'[q] = status[q] /\ graph'[q] = graph[q]
                                 /\ runId'[q] = runId[q] /\ migratedFrom'[q] = migratedFrom[q]
      /\ status'[r] = "running" /\ migratedFrom'[r] = call[c].old
  BY DEF Start, TypeOK, Started
<1>3. call[c].old # 0 => Replacing(c)
  BY DEF Start, Replacing
<1>4. \A d \in Callers : call[d].old # 0 => call[d].old \in Runs /\ call[d].old # r
  BY <1>2 DEF MigrationsPinned, Remembers, Started
<1>5. Remembers' /\ HasTarget'
  BY <1>1, <1>2, <1>4 DEF MigrationsPinned, Remembers, HasTarget
<1>6. Alone'
  <2> SUFFICES ASSUME NEW d \in Callers, Replacing(d)'
               PROVE  /\ status'[call'[d].old] = "closed"
                      /\ \A q \in Started' : migratedFrom'[q] # call'[d].old
                      /\ \A e \in Callers : Replacing(e)' /\ call'[e].old = call'[d].old => e = d
    BY DEF Alone
  <2>1. d # c /\ call'[d] = call[d] /\ Replacing(d)
    BY <1>1 DEF Replacing
  <2>2. call[d].old # 0 /\ call[d].old \in Runs /\ call[d].old # r
    BY <2>1, <1>4 DEF Replacing
  <2>3. status'[call'[d].old] = "closed"
    BY <1>2, <2>1, <2>2 DEF MigrationsPinned, Alone
  <2>4. call[c].old # call[d].old
    BY <1>3, <2>1, <2>2 DEF MigrationsPinned, Alone
  <2>5. \A q \in Started' : migratedFrom'[q] # call'[d].old
    <3>1. \A q \in Started : q \in Runs /\ q # r /\ migratedFrom[q] # call[d].old
      BY <1>2, <2>1 DEF MigrationsPinned, Alone, Started
    <3> QED
      BY <1>2, <2>1, <2>4, <3>1
  <2>6. ASSUME NEW e \in Callers, Replacing(e)', call'[e].old = call'[d].old PROVE e = d
    <3>1. e # c /\ call'[e] = call[e] /\ Replacing(e)
      BY <1>1, <2>6 DEF Replacing
    <3> QED
      BY <2>1, <2>6, <3>1 DEF MigrationsPinned, Alone
  <2> QED
    BY <2>3, <2>5, <2>6
<1>7. Records'
  <2>1. \A q \in Runs : migratedFrom[q] # 0 =>
          migratedFrom[q] \in Runs /\ migratedFrom[q] # r /\ status[migratedFrom[q]] = "closed"
    BY <1>2 DEF MigrationsPinned, Records, TypeOK, Started
  <2>2. call[c].old # 0 => call[c].old \in Runs /\ call[c].old # r /\ status[call[c].old] = "closed"
    BY <1>3, <1>4 DEF MigrationsPinned, Alone
  <2> QED
    BY <1>2, <2>1, <2>2 DEF MigrationsPinned, Records
<1> QED
  BY <1>5, <1>6, <1>7 DEF MigrationsPinned

\* A run closes: nothing that is remembered of it changes.
LEMMA ClosedPinned ==
  ASSUME TypeOK, MigrationsPinned, NEW r \in Runs, status[r] = "running",
         status' = [status EXCEPT ![r] = "closed"], UNCHANGED <<graph, runId, migratedFrom, call>>
  PROVE  MigrationsPinned'
<1>1. Started' = Started /\ \A q \in Runs : status[q] = "closed" => status'[q] = "closed"
  BY DEF TypeOK, Started
<1>2. \A q \in Runs : status'[q] = "unstarted" <=> status[q] = "unstarted"
  BY DEF TypeOK
<1>3. Remembers' /\ HasTarget'
  BY <1>1 DEF MigrationsPinned, Remembers, HasTarget
<1>4. Alone'
  BY <1>1 DEF MigrationsPinned, Alone, Remembers, Replacing, Started
<1>5. Records'
  BY <1>1, <1>2 DEF MigrationsPinned, Records, TypeOK
<1> QED
  BY <1>3, <1>4, <1>5 DEF MigrationsPinned

LEMMA TerminatePinned ==
  ASSUME TypeOK, MigrationsPinned, NEW c \in Callers, Terminate(c)
  PROVE  MigrationsPinned'
<1> DEFINE old == call[c].old
<1>1. /\ old # 0 /\ old \in Runs /\ status[old] = "running" /\ call[c].phase = "terminating"
  BY DEF Terminate, Target, MigrationsPinned, HasTarget, Remembers, Started
<1>2. /\ \A q \in Runs : q # old => status'[q] = status[q]
      /\ status'[old] = "closed" /\ Started' = Started
      /\ UNCHANGED <<graph, runId, migratedFrom>>
  BY <1>1 DEF Terminate, Target, TypeOK, Started
<1>3. /\ \A d \in Callers \ {c} : call'[d] = call[d]
      /\ \/ call'[c].phase = "checking" /\ call'[c].old = old
         \/ call'[c].phase = "idle" /\ call'[c].old = 0
  BY DEF Terminate, TypeOK, Ended, Idle
<1>4. \A q \in Started : migratedFrom[q] # old
  BY <1>1 DEF MigrationsPinned, Records, Started
<1>5. \A d \in Callers : Replacing(d) => call[d].old # old
  BY <1>1 DEF MigrationsPinned, Alone
<1>6. Remembers' /\ HasTarget'
  BY <1>1, <1>2, <1>3 DEF MigrationsPinned, Remembers, HasTarget
<1>7. Alone'
  <2> SUFFICES ASSUME NEW d \in Callers, Replacing(d)'
               PROVE  /\ status'[call'[d].old] = "closed"
                      /\ \A q \in Started' : migratedFrom'[q] # call'[d].old
                      /\ \A e \in Callers : Replacing(e)' /\ call'[e].old = call'[d].old => e = d
    BY DEF Alone
  <2>1. CASE d = c
    <3>1. call'[d].old = old
      BY <1>3, <2>1 DEF Replacing
    <3>2. ASSUME NEW e \in Callers, Replacing(e)', call'[e].old = old, e # c PROVE FALSE
      BY <1>3, <1>5, <3>2 DEF Replacing
    <3> QED
      BY <1>2, <1>4, <2>1, <3>1, <3>2
  <2>2. CASE d # c
    <3>1. call'[d] = call[d] /\ Replacing(d)
      BY <1>3, <2>2 DEF Replacing
    <3>2. call[d].old # old /\ call[d].old \in Runs
      BY <1>5, <3>1 DEF MigrationsPinned, Remembers, Replacing, Started
    <3>3. ASSUME NEW e \in Callers, Replacing(e)', call'[e].old = call'[d].old PROVE e = d
      <4>1. e # c
        BY <1>3, <3>1, <3>2, <3>3 DEF Replacing
      <4> QED
        BY <1>3, <3>1, <3>3, <4>1 DEF MigrationsPinned, Alone, Replacing
    <3> QED
      BY <1>2, <3>1, <3>2, <3>3 DEF MigrationsPinned, Alone
  <2> QED
    BY <2>1, <2>2
<1>8. Records'
  BY <1>1, <1>2 DEF MigrationsPinned, Records, TypeOK
<1> QED
  BY <1>6, <1>7, <1>8 DEF MigrationsPinned

LEMMA CallBeginsPinned ==
  ASSUME TypeOK, MigrationsPinned, NEW c \in Callers,
         BeginStart(c) \/ \E id \in WorkflowIds : Describe(c, id)
  PROVE  MigrationsPinned'
<1>1. CASE BeginStart(c)
  <2>1. /\ \A d \in Callers \ {c} : call'[d] = call[d]
        /\ call'[c].phase \in {"checking", "starting"} /\ call'[c].old = 0
        /\ UNCHANGED runVars
    BY <1>1 DEF BeginStart, Free, Idle, TypeOK
  <2> QED
    BY <2>1 DEF MigrationsPinned, Remembers, HasTarget, Alone, Records, Replacing, runVars, Started
<1>2. ASSUME NEW id \in WorkflowIds, Describe(c, id) PROVE MigrationsPinned'
  <2>1. PICK r \in Latest(id) :
          /\ Workflow[graph[r]] = Workflow[Graph[c]]
          /\ Key(graph[r]) # Key(Graph[c])
          /\ call' = [call EXCEPT ![c] = [phase |-> "preflight", old |-> r]]
    BY <1>2 DEF Describe
  <2>2. /\ \A d \in Callers \ {c} : call'[d] = call[d]
        /\ call'[c].phase = "preflight" /\ call'[c].old = r
        /\ r \in Started /\ r # 0
        /\ UNCHANGED runVars
    BY <1>2, <2>1, ZeroIsNoRun DEF Describe, TypeOK, Latest, Started
  <2> QED
    BY <2>1, <2>2 DEF MigrationsPinned, Remembers, HasTarget, Alone, Records, Replacing, runVars, Started
<1> QED
  BY <1>1, <1>2

LEMMA NextPinned ==
  ASSUME TypeOK, MigrationsPinned, [Next]_vars
  PROVE  MigrationsPinned'
<1>1. CASE UNCHANGED <<runVars, call>>
  BY <1>1 DEF MigrationsPinned, Remembers, HasTarget, Alone, Records, Replacing, runVars, Started
<1>2. ASSUME NEW c \in Callers,
             Scan(c) \/ ScanFails(c) \/ SkipScan(c) \/ Fails(c) \/ Restart(c)
      PROVE  MigrationsPinned'
  <2>1. UNCHANGED runVars
    BY <1>2 DEF Scan, ScanFails, SkipScan, Fails, Restart
  <2>2. CASE Scan(c)
    BY <2>2, ScanSplit, <2>1, CallOnlyPinned
  <2>3. CASE ScanFails(c) \/ SkipScan(c)
    <3>1. call' = Ended(c) \/ (Checking(c) /\ call' = Passed(c))
      BY <2>3 DEF ScanFails, SkipScan
    <3> QED
      BY <2>1, <3>1, CallOnlyPinned
  <2>4. CASE Fails(c) \/ Restart(c)
    <3>1. call' = Ended(c)
      BY <2>4 DEF Fails, Restart
    <3> QED
      BY <2>1, <3>1, CallOnlyPinned
  <2> QED
    BY <1>2, <2>2, <2>3, <2>4
<1>3. ASSUME NEW r \in Runs, Complete(r) PROVE MigrationsPinned'
  BY <1>3, ClosedPinned DEF Complete
<1> QED
  BY <1>1, <1>2, <1>3, StartPinned, TerminatePinned, CallBeginsPinned
  DEF Next, BeginView, ReadRow, Index, vars

\* However migrations race each other, starts and completions of runs, a
\* migration terminates and replaces the run it has described, once.
THEOREM Replaces == Spec => MigrationReplaces
<1>1. ASSUME TypeOK, MigrationsPinned, Next PROVE TerminatesOther
  <2> SUFFICES ASSUME NEW c \in Callers, NEW r \in Runs,
                      call'[c] # call[c], status[r] = "running", status'[r] = "closed"
               PROVE  Workflow[graph[r]] = Workflow[Graph[c]] /\ Key(graph[r]) # Key(Graph[c])
    BY DEF TerminatesOther
  <2>1. call' # call /\ status' # status
    OBVIOUS
  <2>2. (\E d \in Callers : Terminate(d)) \/ \E d \in Callers, id \in WorkflowIds, q \in Runs : Start(d, id, q)
    BY <1>1, <2>1 DEF Next, Scan, ScanFails, SkipScan, Fails, Restart, BeginStart, Describe,
                      BeginView, ReadRow, Complete, Index, runVars
  <2>3. ASSUME NEW d \in Callers, NEW id \in WorkflowIds, NEW q \in Runs, Start(d, id, q) PROVE FALSE
    BY <1>1, <2>3 DEF Start, TypeOK
  <2>4. ASSUME NEW d \in Callers, Terminate(d)
        PROVE  Workflow[graph[r]] = Workflow[Graph[c]] /\ Key(graph[r]) # Key(Graph[c])
    <3>1. c = d
      BY <1>1, <2>4 DEF Terminate, TypeOK, Ended
    <3>2. r = call[c].old
      BY <1>1, <2>4, <3>1 DEF Terminate, Target, TypeOK
    <3>3. call[c].old # 0
      BY <1>1, <2>4, <3>1 DEF Terminate, MigrationsPinned, HasTarget
    <3> QED
      BY <1>1, <3>2, <3>3 DEF MigrationsPinned, Remembers
  <2> QED
    BY <2>2, <2>3, <2>4
<1>2. ASSUME TypeOK, MigrationsPinned, Next PROVE ReplacesOnce
  <2> SUFFICES ASSUME NEW r \in Runs, migratedFrom'[r] # migratedFrom[r] PROVE ReplacedOnce(r)
    BY DEF ReplacesOnce
  <2>1. PICK c \in Callers, id \in WorkflowIds, q \in Runs : Start(c, id, q)
    BY <1>2 DEF Next, Scan, ScanFails, SkipScan, Fails, Restart, BeginStart, Describe, Terminate,
                BeginView, ReadRow, Complete, Index, runVars
  <2>2. /\ q = r /\ status[r] = "unstarted" /\ migratedFrom'[r] = call[c].old
        /\ runId'[r] = id /\ (call[c].old # 0 => id = runId[call[c].old]) /\ graph'[r] = Graph[c]
    BY <1>2, <2>1 DEF Start, TypeOK
  <2>3. call[c].old # 0
    BY <1>2, <2>2 DEF MigrationsPinned, Records
  <2>4. Replacing(c)
    BY <2>1, <2>3 DEF Replacing, Start
  <2>5. /\ status[call[c].old] = "closed" /\ \A p \in Started : migratedFrom[p] # call[c].old
    BY <1>2, <2>4 DEF MigrationsPinned, Alone
  <2>6. /\ Workflow[graph[call[c].old]] = Workflow[Graph[c]] /\ Key(graph[call[c].old]) # Key(Graph[c])
    BY <1>2, <2>3 DEF MigrationsPinned, Remembers
  <2> QED
    BY <2>2, <2>3, <2>5, <2>6 DEF ReplacedOnce
<1>3. TypeOK /\ MigrationsPinned /\ [Next]_vars => [TerminatesOther /\ ReplacesOnce]_vars
  BY <1>1, <1>2
<1>4. TypeOK /\ MigrationsPinned /\ [Next]_vars => MigrationsPinned'
  BY NextPinned
<1> QED
  BY <1>3, <1>4, InitTyped, NextTyped, InitPinned, PTL DEF Spec, MigrationReplaces
-----------------------------------------------------------------------------
(* The drain view.                                                         *)

LEMMA InitCovers == Init => ViewCovers
BY DEF Init, ViewCovers, NoView

LEMMA ReadRowCovers ==
  ASSUME TypeOK, ViewCovers, ReadRow
  PROVE  ViewCovers'
<1>1. UNCHANGED <<runVars, visible>> /\ view.scanning
  BY DEF ReadRow
<1>2. ASSUME NEW keys, NEW t \in BOOLEAN, view' = Answer(keys, t) PROVE ViewCovers'
  BY <1>2 DEF Answer, NoView, ViewCovers
<1>3. ASSUME NEW r \in visible, NEW keys \in SUBSET Keys,
             r < view.cursor,
             \A q \in visible : status[q] = "running" /\ q < view.cursor => q <= r,
             view.keys \subseteq keys,
             Workflow[graph[r]] = Workflow[Current] => Key(graph[r]) \in keys,
             view' = [view EXCEPT !.keys = keys, !.cursor = r, !.scanned = @ + 1]
      PROVE  ViewCovers'
  <2>1. /\ view'.before = view.before /\ view'.keys = keys /\ view'.cursor = r
        /\ view'.drained = view.drained /\ view.before \subseteq visible
    BY <1>1, <1>3 DEF TypeOK, ViewCovers
  <2>2. ASSUME NEW q \in view.before, status[q] = "running",
               Workflow[graph[q]] = Workflow[Current], q >= r
        PROVE  Key(graph[q]) \in keys
    <3>1. q \in Nat /\ r \in Nat /\ view.cursor \in Nat
      BY <2>1, <1>3, ZeroIsNoRun, VersionsAssumption DEF TypeOK, Started, VersionsAssumption
    <3>2. CASE q >= view.cursor
      BY <1>1, <1>3, <2>2, <3>2 DEF ViewCovers
    <3>3. CASE ~(q >= view.cursor)
      <4>1. q <= r
        BY <1>3, <2>1, <2>2, <3>1, <3>3
      <4>2. q = r
        BY <2>2, <3>1, <4>1
      <4> QED
        BY <1>3, <2>2, <4>2
    <3> QED
      BY <3>2, <3>3
  <2> QED
    BY <1>1, <2>1, <2>2 DEF ViewCovers, runVars
<1> QED
  BY <1>2, <1>3, ReadRowSplit

LEMMA NextCovers ==
  ASSUME TypeOK, ViewCovers, [Next]_vars
  PROVE  ViewCovers'
<1>1. ASSUME view' = view, visible \subseteq visible',
             \A q \in Started : graph'[q] = graph[q] /\ (status'[q] = "running" => status[q] = "running")
      PROVE  ViewCovers'
  BY <1>1 DEF TypeOK, ViewCovers
<1>2. CASE UNCHANGED <<runVars, visible, view>>
  BY <1>1, <1>2 DEF runVars
<1>3. ASSUME NEW c \in Callers, NEW id \in WorkflowIds, NEW r \in Runs, Start(c, id, r)
      PROVE  ViewCovers'
  BY <1>1, <1>3 DEF Start, TypeOK, Started
<1>4. ASSUME NEW r \in Runs, Complete(r) \/ Index(r) PROVE ViewCovers'
  BY <1>1, <1>4 DEF Complete, Index, TypeOK, Started, runVars
<1>5. ASSUME NEW c \in Callers, Terminate(c) PROVE ViewCovers'
  BY <1>1, <1>5 DEF Terminate, TypeOK, Started
<1>6. CASE BeginView
  <2>1. /\ view'.before \subseteq visible /\ view'.cursor = MaxRuns + 1 /\ ~view'.drained
        /\ visible' = visible
    BY <1>6 DEF BeginView, NoView
  <2>2. \A r \in visible : ~(r >= MaxRuns + 1)
    BY VersionsAssumption DEF VersionsAssumption, TypeOK, Started, Runs
  <2> QED
    BY <2>1, <2>2 DEF ViewCovers
<1>7. ASSUME NEW c \in Callers,
             \/ Scan(c) \/ ScanFails(c) \/ SkipScan(c) \/ Fails(c) \/ Restart(c)
             \/ BeginStart(c) \/ \E id \in WorkflowIds : Describe(c, id)
      PROVE  UNCHANGED <<runVars, visible, view>>
  BY <1>7 DEF Scan, ScanFails, SkipScan, Fails, Restart, BeginStart, Describe
<1> QED
  BY <1>2, <1>3, <1>4, <1>5, <1>6, <1>7, ReadRowCovers DEF Next, vars

\* A drain view that says drained has not missed a running execution of
\* another version, whatever starts, closes and is indexed while it reads.
THEOREM ViewSound == Spec => SoundDrain
<1> DEFINE Sound == view.scanning /\ view'.drained =>
                      \A r \in view.before :
                        status[r] = "running" /\ Workflow[graph[r]] = Workflow[Current] =>
                          Key(graph[r]) = Key(Current)
<1>1. ASSUME TypeOK, ViewCovers, Next PROVE Sound
  <2> SUFFICES ASSUME view.scanning, view'.drained,
                      NEW r \in view.before, status[r] = "running",
                      Workflow[graph[r]] = Workflow[Current]
               PROVE  Key(graph[r]) = Key(Current)
    OBVIOUS
  <2>1. ~view.drained /\ r \in visible
    BY <1>1 DEF ViewCovers
  <2>2. ReadRow
    BY <1>1, <2>1 DEF Next, Scan, ScanFails, SkipScan, Fails, Restart, BeginStart, Describe, Terminate,
                      Start, BeginView, Complete, Index
  <2>3. ASSUME NEW keys PROVE ~Answer(keys, TRUE).drained
    BY DEF Answer, NoView
  <2>4. Answer(view.keys, FALSE).drained => view.keys \subseteq {Key(Current)}
    BY DEF Answer, NoView
  <2>5. ASSUME NEW keys, NEW q, view' = [view EXCEPT !.keys = keys, !.cursor = q, !.scanned = @ + 1]
        PROVE  FALSE
    BY <1>1, <2>1, <2>5 DEF TypeOK
  <2>6. /\ \A q \in visible : status[q] = "running" => ~(q < view.cursor)
        /\ view' = Answer(view.keys, FALSE)
    BY <1>1, <2>2, <2>3, <2>5, ReadRowSplit
  <2>7. r \in Nat /\ view.cursor \in Nat
    BY <1>1, <2>1, ZeroIsNoRun, VersionsAssumption DEF TypeOK, Started, VersionsAssumption
  <2>8. Key(graph[r]) \in view.keys
    BY <1>1, <2>1, <2>6, <2>7 DEF ViewCovers
  <2> QED
    BY <2>4, <2>6, <2>8
<1>2. TypeOK /\ ViewCovers /\ [Next]_vars => [Sound]_vars
  BY <1>1
<1>3. TypeOK /\ ViewCovers /\ [Next]_vars => ViewCovers'
  BY NextCovers
<1>4. SoundDrain <=> [][Sound]_vars
  BY DEF SoundDrain
<1> HIDE DEF Sound
<1> QED
  BY <1>2, <1>3, <1>4, InitTyped, NextTyped, InitCovers, PTL DEF Spec
-----------------------------------------------------------------------------
(* The version label.                                                      *)

LEMMA InitFrozen == Init => LabelFrozen /\ Cleared
BY DEF Init, LabelFrozen, Cleared, LetThrough, Idle, Started

LEMMA LoosenedSure ==
  ASSUME TypeOK, NEW g \in Graphs
  PROVE  /\ loose \subseteq Loosened(g)
         /\ \A h \in Graphs : SameVersion(h, g) => Key(h) = Key(g) /\ (h = g \/ Key(g) \in Loosened(g))
BY DEF Loosened, SameVersion, Key

\* A step that starts no run and lets through only who may rely on the label.
LEMMA QuietFrozen ==
  ASSUME TypeOK, LabelFrozen, Cleared,
         Started' = Started, graph' = graph, loose \subseteq loose',
         \A c \in Callers : LetThrough(c)' /\ Label[Graph[c]] # None =>
           LetThrough(c) \/ Sure(Graph[c])'
  PROVE  LabelFrozen' /\ Cleared'
<1>1. \A g \in Graphs : Sure(g) => Sure(g)'
  BY DEF Sure, OfVersion
<1>2. \A c \in Callers : Graph[c] \in Graphs
  BY VersionsAssumption DEF VersionsAssumption
<1> QED
  BY <1>1, <1>2 DEF LabelFrozen, Cleared

LEMMA ScanFrozen ==
  ASSUME TypeOK, LabelFrozen, Cleared, NEW c \in Callers, Scan(c) \/ ScanFails(c) \/ SkipScan(c)
  PROVE  LabelFrozen' /\ Cleared'
<1> DEFINE g == Graph[c]
<1>1. g \in Graphs /\ \A r \in Started : graph[r] \in Graphs
  BY VersionsAssumption DEF VersionsAssumption, TypeOK, Started
<1>2. /\ Started' = Started /\ graph' = graph
      /\ \A d \in Callers \ {c} : call'[d] = call[d] /\ checked'[d] = checked[d]
  BY DEF Scan, ScanFails, SkipScan, runVars, Started, TypeOK, Passed, Ended, Remember
<1>3. \A d \in Callers \ {c} : LetThrough(d)' => LetThrough(d)
  BY <1>2 DEF LetThrough
<1>4. ASSUME loose' = Loosened(g) PROVE Sure(g)'
  BY <1>1, <1>2, <1>4, LoosenedSure DEF Sure, OfVersion, Started
<1>5. ASSUME loose' = loose, OfVersion(g) = {} \/ \E r \in OfVersion(g) : graph[r] = g PROVE Sure(g)'
  <2>1. CASE OfVersion(g) = {}
    BY <1>2, <2>1 DEF Sure, OfVersion
  <2>2. ASSUME NEW r \in OfVersion(g), graph[r] = g PROVE Sure(g)'
    <3>1. ASSUME NEW q \in OfVersion(g), Key(g) \notin loose PROVE graph[q] = g
      <4>1. q \in Started /\ r \in Started /\ SameVersion(graph[q], graph[r]) /\ Key(graph[q]) = Key(g)
        BY <2>2 DEF OfVersion, SameVersion, Key
      <4> QED
        BY <2>2, <3>1, <4>1 DEF LabelFrozen
    <3> QED
      BY <1>2, <1>5, <3>1 DEF Sure, OfVersion
  <2> QED
    BY <1>5, <2>1, <2>2
<1>6. CASE Scan(c)
  <2>1. loose \subseteq loose' /\ (loose' = Loosened(g) \/ loose' = loose)
    BY <1>1, <1>6, ScanSplit, LoosenedSure
  <2>2. ASSUME LetThrough(c)' PROVE Sure(g)'
    <3>1. CASE call' = Ended(c) /\ Remember(c, "frozen")
      <4>1. call'[c].phase = "idle" /\ checked'[c] # "passed"
        BY <1>6, <3>1, ScanSplit DEF Ended, Idle, Remember, TypeOK, Scan
      <4> QED
        BY <2>2, <4>1 DEF LetThrough
    <3>2. CASE /\ call' = Passed(c) /\ Remember(c, "passed")
               /\ \/ loose' = Loosened(g)
                  \/ /\ loose' = loose
                     /\ OfVersion(g) = {} \/ \E r \in OfVersion(g) : graph[r] = g
      BY <3>2, <1>4, <1>5
    <3> QED
      BY <1>6, <3>1, <3>2, ScanSplit
  <2> QED
    BY <1>2, <1>3, <2>1, <2>2, QuietFrozen
<1>7. CASE ScanFails(c)
  <2>1. loose' = Loosened(g)
    BY <1>7 DEF ScanFails
  <2> QED
    BY <1>1, <1>2, <1>3, <1>4, <2>1, LoosenedSure, QuietFrozen
<1>8. CASE SkipScan(c)
  <2>1. loose' = loose /\ checked' = checked
    BY <1>8 DEF SkipScan
  <2>2. LetThrough(c)' /\ Label[g] # None => LetThrough(c)
    BY <1>8, <2>1 DEF SkipScan, LetThrough, Ended, Idle, TypeOK
  <2> QED
    BY <1>2, <1>3, <2>1, <2>2, QuietFrozen
<1> QED
  BY <1>6, <1>7, <1>8

LEMMA StartFrozen ==
  ASSUME TypeOK, LabelFrozen, Cleared, NEW c \in Callers, NEW id \in WorkflowIds, NEW r \in Runs,
         Start(c, id, r)
  PROVE  LabelFrozen' /\ Cleared'
<1> DEFINE g == Graph[c]
<1>1. /\ g \in Graphs /\ \A d \in Callers : Graph[d] \in Graphs
      /\ \A q \in Started : graph[q] \in Graphs
  BY VersionsAssumption DEF VersionsAssumption, TypeOK, Started
<1>2. /\ r \notin Started /\ Started' = Started \cup {r} /\ graph'[r] = g
      /\ \A q \in Started : graph'[q] = graph[q]
      /\ \A d \in Callers \ {c} : call'[d] = call[d]
      /\ call'[c].phase = "idle" /\ checked' = checked /\ call[c].phase = "starting"
  BY DEF Start, TypeOK, Started, Ended, Idle
<1>3. loose' = Loosened(g) \/ (loose' = loose /\ Kind[c] # "parent" /\ ~Overtakes(c))
  BY DEF Start
<1>4. loose \subseteq loose'
  BY <1>1, <1>3, LoosenedSure
\* The run is of the graph of every other run of its version.
<1>5. ASSUME NEW q \in Started, SameVersion(graph[q], g) PROVE graph[q] = g \/ Key(g) \in loose'
  <2>1. CASE loose' = Loosened(g)
    BY <1>1, <1>5, <2>1, LoosenedSure
  <2>2. CASE loose' = loose /\ Kind[c] # "parent"
    <3>1. Sure(g)
      BY <1>2, <1>5, <2>2 DEF Cleared, LetThrough, SameVersion
    <3> QED
      BY <1>5, <2>2, <3>1 DEF Sure, OfVersion
  <2> QED
    BY <1>3, <2>1, <2>2
<1>6. LabelFrozen'
  <2> SUFFICES ASSUME NEW p \in Started', NEW q \in Started', SameVersion(graph'[p], graph'[q])
               PROVE  graph'[p] = graph'[q] \/ Key(graph'[p]) \in loose'
    BY DEF LabelFrozen
  <2>1. CASE p \in Started /\ q \in Started
    BY <1>2, <1>4, <2>1 DEF LabelFrozen
  <2>2. CASE p \in Started /\ q = r
    <3>1. Key(graph[p]) = Key(g) /\ SameVersion(graph[p], g)
      BY <1>2, <2>2 DEF SameVersion, Key
    <3> QED
      BY <1>2, <1>5, <2>2, <3>1
  <2>3. CASE p = r /\ q \in Started
    <3>1. SameVersion(graph[q], g)
      BY <1>2, <2>3 DEF SameVersion
    <3> QED
      BY <1>2, <1>5, <2>3, <3>1
  <2> QED
    BY <1>2, <2>1, <2>2, <2>3
\* Those let through for another graph of the version are overtaken.
<1>7. ASSUME NEW d \in Callers, Label[Graph[d]] # None, LetThrough(d)' PROVE Sure(Graph[d])'
  <2>1. LetThrough(d) /\ (d = c => checked[c] = "passed")
    BY <1>2, <1>7 DEF LetThrough
  <2>2. Sure(Graph[d])
    BY <1>7, <2>1 DEF Cleared
  <2>3. ASSUME SameVersion(g, Graph[d]), Graph[d] # g PROVE Key(Graph[d]) \in loose'
    <3>1. d # c
      BY <2>3
    <3>2. Overtakes(c)
      BY <2>1, <2>3, <3>1 DEF LetThrough, Overtakes
    <3>3. loose' = Loosened(g) /\ SameVersion(Graph[d], g)
      BY <1>3, <2>3, <3>2 DEF SameVersion
    <3> QED
      BY <1>1, <2>3, <3>3, LoosenedSure
  <2>4. ASSUME NEW q \in OfVersion(Graph[d])', Key(Graph[d]) \notin loose' PROVE graph'[q] = Graph[d]
    <3>1. q \in Started' /\ SameVersion(graph'[q], Graph[d])
      BY <2>4 DEF OfVersion
    <3>2. CASE q = r
      BY <1>2, <2>3, <2>4, <3>1, <3>2
    <3>3. CASE q \in Started
      BY <1>2, <1>4, <2>2, <2>4, <3>1, <3>3 DEF Sure, OfVersion
    <3> QED
      BY <1>2, <3>1, <3>2, <3>3
  <2> QED
    BY <2>4 DEF Sure
<1> QED
  BY <1>6, <1>7 DEF Cleared

LEMMA NextFrozen ==
  ASSUME TypeOK, LabelFrozen, Cleared, [Next]_vars
  PROVE  LabelFrozen' /\ Cleared'
<1>1. CASE UNCHANGED <<graph, call, checked, loose>> /\ Started' = Started
  BY <1>1, QuietFrozen DEF LetThrough
<1>2. ASSUME NEW r \in Runs, Complete(r) PROVE Started' = Started
  BY <1>2 DEF Complete, TypeOK, Started
<1>3. ASSUME NEW c \in Callers,
             \/ BeginStart(c) \/ Fails(c) \/ Restart(c) \/ Terminate(c)
             \/ \E id \in WorkflowIds : Describe(c, id)
      PROVE  LabelFrozen' /\ Cleared'
  <2>1. Started' = Started /\ graph' = graph /\ loose' = loose
    <3>1. CASE Terminate(c)
      BY <3>1 DEF Terminate, TypeOK, Started
    <3> QED
      BY <1>3, <3>1 DEF Fails, Restart, BeginStart, Describe, runVars, Started
  <2>2. \A d \in Callers \ {c} : call'[d] = call[d] /\ checked'[d] = checked[d]
    BY <1>3 DEF Fails, Restart, Terminate, BeginStart, Describe, Ended, TypeOK
  <2>3. LetThrough(c)' => LetThrough(c)
    BY <1>3 DEF Fails, Restart, Terminate, BeginStart, Describe, Ended, Idle, LetThrough, TypeOK
  <2> QED
    BY <2>1, <2>2, <2>3, QuietFrozen DEF LetThrough
<1>4. CASE UNCHANGED vars
  BY <1>1, <1>4 DEF vars, runVars, Started
<1>5. ASSUME BeginView \/ ReadRow \/ \E r \in Runs : Index(r) PROVE LabelFrozen' /\ Cleared'
  BY <1>1, <1>5 DEF BeginView, ReadRow, Index, runVars, Started
<1>6. ASSUME NEW r \in Runs, Complete(r) PROVE LabelFrozen' /\ Cleared'
  BY <1>1, <1>2, <1>6 DEF Complete
<1> QED
  BY <1>3, <1>4, <1>5, <1>6, ScanFrozen, StartFrozen DEF Next

\* A version label denotes one graph for every set of callers and graphs,
\* unless some start went behind the back of the check.
THEOREM Frozen == Spec => []LabelFrozen
<1>1. TypeOK /\ LabelFrozen /\ Cleared /\ [Next]_vars => LabelFrozen' /\ Cleared'
  BY NextFrozen
<1> QED
  BY <1>1, InitTyped, NextTyped, InitFrozen, PTL DEF Spec
=============================================================================
