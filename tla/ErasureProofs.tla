--------------------------- MODULE ErasureProofs ---------------------------
(***************************************************************************)
(* Theorems about erasures, for every set of subjects, processes, runs and *)
(* requests: what a destroyed key reaches, what a receipt without warnings *)
(* promises, what an erasure may touch, and that the cache's index is      *)
(* exact.                                                                  *)
(***************************************************************************)
EXTENDS Erasure, TLAPS

CallSet ==
  {NoCall} \cup
  [phase : {"registered"}, id : WorkflowIds, subjects : SUBSET Subjects] \cup
  [phase : {"sealed"}, id : WorkflowIds, subjects : SUBSET Subjects, kid : SUBSET Subjects]
TaskSet ==
  {NoTask} \cup
  [phase : {"working", "describing"}, proc : Procs] \cup
  [phase : {"described"}, proc : Procs, reply : SUBSET Subjects]
OpSet ==
  [phase : Phases, subjects : SUBSET Subjects, dry : BOOLEAN, surfaces : SUBSET Surfaces,
   before : SUBSET Runs, todo : SUBSET Subjects, plan : SUBSET Runs,
   flawed : SUBSET Subjects, caveats : SUBSET Subjects]


\* A payload sealed under K may belong to workflow id, and every key it
\* names has been made: it is live or a tombstone.
Sealed(K, id) == K \in bound[id] /\ \A s \in K : keystore[s] # "absent"

KnownOK ==
  /\ KeysTypeOK
  /\ \A p \in Procs, id \in WorkflowIds : known[p][id] \subseteq bound[id]

RunsOK ==
  /\ status \in [Runs -> {"unstarted", "running", "closed", "deleted"}]
  /\ runId \in [Runs -> WorkflowIds]
  /\ runSubjects \in [Runs -> SUBSET Subjects]
  /\ history \in [Runs -> SUBSET SUBSET Subjects]
  /\ \A r \in Runs : status[r] # "unstarted" => runSubjects[r] \in bound[runId[r]]
  /\ \A r \in Runs : status[r] = "unstarted" => history[r] = {}
  /\ \A r \in Runs : \A K \in history[r] : Sealed(K, runId[r])

CallOK ==
  /\ call \in [Callers -> CallSet]
  /\ \A c \in Callers :
       /\ call[c].phase \in {"registered", "sealed"} => call[c].subjects \in bound[call[c].id]
       /\ call[c].phase = "sealed" => Sealed(call[c].kid, call[c].id)

TaskOK ==
  /\ task \in [Runs -> TaskSet]
  /\ \A r \in Runs :
       /\ status[r] = "unstarted" => task[r] = NoTask
       /\ task[r].phase = "described" => task[r].reply \in bound[runId[r]]

GhostOK ==
  /\ bound \in [WorkflowIds -> SUBSET SUBSET Subjects]
  /\ erased = Destroyed
  /\ faults \in 0 .. MaxFaults

CacheOK == CacheTypeOK /\ IndexExact

\* The erasure is through with subject s's executions.
Through(s) ==
  \/ op.phase \in {"cache", "done"}
  \/ op.phase = "executions" /\ s \notin op.todo
  \/ op.phase = "deleting" /\ s \notin op.todo

\* An execution of s that had started is gone, or about to be.
Covered(s) == \A r \in op.before : s \in runSubjects[r] => status[r] = "deleted" \/ r \in op.plan

OpOK ==
  /\ op \in OpSet
  /\ op.before \subseteq Started /\ op.todo \subseteq op.subjects
  /\ op.phase # "deleting" => op.plan = {}
  /\ op.phase \in {"executions", "deleting"} => "executions" \in op.surfaces
  /\ op.phase = "deleting" => ~op.dry /\ op.plan # {}
  /\ \A r \in op.plan : status[r] = "closed"
  /\ op.phase = "deleting" => \E s \in op.todo :
       /\ \A r \in op.plan : runSubjects[r] = {s}
       /\ s \notin op.flawed \cup op.caveats => Covered(s)
  /\ ~op.dry /\ "executions" \in op.surfaces =>
       \A s \in op.subjects \ (op.flawed \cup op.caveats) : Through(s) => Covered(s)

IInv == KnownOK /\ RunsOK /\ CallOK /\ TaskOK /\ GhostOK /\ CacheOK /\ OpOK

\* What a receipt speaks of stays within reach of the listings.
ListedOK == indexed \subseteq Started /\ op.before \subseteq indexed
-----------------------------------------------------------------------------
(* The cache *)

LEMMA SetKeeps ==
  ASSUME CacheOK, NEW k \in CacheKeys, NEW S \in SUBSET Subjects, Set(k, S)
  PROVE  CacheOK'
BY DEF CacheOK, CacheTypeOK, IndexExact, Set

LEMMA EraseFromCacheKeeps ==
  ASSUME CacheOK, NEW s \in Subjects, EraseFromCache(s)
  PROVE  CacheOK'
BY DEF CacheOK, CacheTypeOK, IndexExact, EraseFromCache

LEMMA CacheStays == ASSUME CacheOK, UNCHANGED cacheVars PROVE CacheOK'
BY DEF CacheOK, CacheTypeOK, IndexExact, cacheVars
-----------------------------------------------------------------------------
(* The keys: no key is unmade and no binding forgotten by the ghosts *)

Grows ==
  /\ \A id \in WorkflowIds : bound[id] \subseteq bound'[id]
  /\ \A s \in Subjects : keystore[s] # "absent" => keystore'[s] # "absent"

LEMMA BoundSubsets ==
  ASSUME GhostOK, NEW id \in WorkflowIds, NEW K \in bound[id]
  PROVE  K \in SUBSET Subjects
BY DEF GhostOK

LEMMA SealedGrows ==
  ASSUME GhostOK, Grows, NEW id \in WorkflowIds, NEW K, Sealed(K, id)
  PROVE  Sealed(K, id)'
BY BoundSubsets DEF Sealed, Grows

LEMMA CallShape ==
  ASSUME CallOK, NEW c \in Callers
  PROVE  /\ call[c].phase \in {"none", "registered", "sealed"}
         /\ call[c].phase = "none" => call[c] = NoCall
         /\ call[c].phase = "registered" =>
              call[c] \in [phase : {"registered"}, id : WorkflowIds, subjects : SUBSET Subjects]
         /\ call[c].phase = "sealed" =>
              call[c] \in [phase : {"sealed"}, id : WorkflowIds, subjects : SUBSET Subjects, kid : SUBSET Subjects]
<1>1. call[c] \in CallSet
  BY DEF CallOK
<1>2. CASE call[c] = NoCall
  BY <1>2 DEF NoCall
<1>3. CASE call[c] \in [phase : {"registered"}, id : WorkflowIds, subjects : SUBSET Subjects]
  BY <1>3
<1>4. CASE call[c] \in [phase : {"sealed"}, id : WorkflowIds, subjects : SUBSET Subjects, kid : SUBSET Subjects]
  BY <1>4
<1> QED
  BY <1>1, <1>2, <1>3, <1>4 DEF CallSet

LEMMA TaskShape ==
  ASSUME TaskOK, NEW r \in Runs
  PROVE  /\ task[r].phase \in {"none", "working", "describing", "described"}
         /\ task[r].phase = "none" => task[r] = NoTask
         /\ task[r].phase \in {"working", "describing"} =>
              task[r] \in [phase : {"working", "describing"}, proc : Procs]
         /\ task[r].phase = "described" =>
              task[r] \in [phase : {"described"}, proc : Procs, reply : SUBSET Subjects]
<1>1. task[r] \in TaskSet
  BY DEF TaskOK
<1>2. CASE task[r] = NoTask
  BY <1>2 DEF NoTask
<1>3. CASE task[r] \in [phase : {"working", "describing"}, proc : Procs]
  BY <1>3
<1>4. CASE task[r] \in [phase : {"described"}, proc : Procs, reply : SUBSET Subjects]
  BY <1>4
<1> QED
  BY <1>1, <1>2, <1>3, <1>4 DEF TaskSet

LEMMA CallGrows ==
  ASSUME GhostOK, CallOK, Grows, UNCHANGED call
  PROVE  CallOK'
<1>1. ASSUME NEW c \in Callers, call[c].phase \in {"registered", "sealed"}
      PROVE  call[c].id \in WorkflowIds
  BY <1>1, CallShape
<1> QED
  BY <1>1, SealedGrows DEF CallOK, Grows

LEMMA TaskGrows ==
  ASSUME TaskOK, RunsOK, Grows, UNCHANGED <<task, status, runId>>
  PROVE  TaskOK'
BY DEF TaskOK, RunsOK, Grows

LEMMA RunsKept ==
  ASSUME GhostOK, RunsOK, Grows, UNCHANGED <<status, runId, runSubjects, history>>
  PROVE  RunsOK'
<1>1. \A r \in Runs : \A K \in history[r] : Sealed(K, runId[r])'
  BY SealedGrows DEF RunsOK
<1> QED
  BY <1>1 DEF RunsOK, Grows

LEMMA RunsGrow ==
  ASSUME GhostOK, RunsOK, Grows, UNCHANGED runVars
  PROVE  RunsOK'
BY RunsKept DEF runVars

LEMMA KnownGrows ==
  ASSUME KnownOK, Grows, UNCHANGED known,
         keystore' \in [Subjects -> {"absent", "live", "destroyed"}]
  PROVE  KnownOK'
BY DEF KnownOK, KeysTypeOK, Grows

LEMMA OpStays ==
  ASSUME OpOK, UNCHANGED <<op, status, runSubjects>>
  PROVE  OpOK'
BY DEF OpOK, Through, Covered, Started
-----------------------------------------------------------------------------
(* Sealing and binding *)

LEMMA MintedFacts ==
  ASSUME KeysTypeOK, NEW S \in SUBSET Subjects, keystore' = Minted(S)
  PROVE  /\ keystore' \in [Subjects -> {"absent", "live", "destroyed"}]
         /\ \A s \in Subjects : keystore[s] # "absent" => keystore'[s] # "absent"
         /\ \A s \in S : keystore'[s] # "absent"
         /\ Destroyed' = Destroyed
BY DEF KeysTypeOK, Minted, Destroyed

\* Sealing under S, or failing to, makes keys and unmakes none.
LEMMA SealKeeps ==
  ASSUME KnownOK, GhostOK, NEW S \in SUBSET Subjects, Seal(S) \/ SealThrows(S),
         UNCHANGED <<bound, erased, faults>>
  PROVE  /\ Grows /\ GhostOK'
         /\ keystore' \in [Subjects -> {"absent", "live", "destroyed"}]
         /\ Seal(S) => \A s \in S : keystore'[s] # "absent"
<1>1. PICK M \in SUBSET Subjects : keystore' = Minted(M) /\ (Seal(S) => M = S)
  <2>1. CASE Seal(S)
    BY <2>1 DEF Seal
  <2>2. CASE SealThrows(S) /\ ~Seal(S)
    BY <2>2 DEF SealThrows
  <2> QED
    BY <2>1, <2>2
<1> QED
  BY <1>1, MintedFacts DEF KnownOK, Grows, GhostOK

LEMMA RegisterKeeps ==
  ASSUME KnownOK, NEW p \in Procs, NEW id \in WorkflowIds, NEW S \in bound'[id], Register(p, id, S),
         S \in SUBSET Subjects, Grows, keystore' \in [Subjects -> {"absent", "live", "destroyed"}]
  PROVE  KnownOK'
<1>1. KeysTypeOK'
  BY DEF KnownOK, KeysTypeOK, Register
<1>2. \A q \in Procs, i \in WorkflowIds :
        known'[q][i] = IF q = p /\ i = id THEN {S} ELSE known[q][i]
  BY DEF KnownOK, KeysTypeOK, Register
<1> QED
  BY <1>1, <1>2 DEF KnownOK, Grows

LEMMA KeysStay ==
  ASSUME KnownOK, GhostOK, UNCHANGED <<keyVars, ghosts>>
  PROVE  Grows /\ KnownOK' /\ keystore' \in [Subjects -> {"absent", "live", "destroyed"}]
BY DEF KnownOK, KeysTypeOK, Grows, keyVars, ghosts

LEMMA FaultKeeps ==
  ASSUME GhostOK, Fault
  PROVE  faults' \in 0 .. MaxFaults
BY ErasureAssumption DEF GhostOK, Fault, ErasureAssumption

LEMMA GhostStays ==
  ASSUME GhostOK, UNCHANGED <<keystore, ghosts>>, faults' \in 0 .. MaxFaults
  PROVE  GhostOK'
BY DEF GhostOK, ghosts, Destroyed
-----------------------------------------------------------------------------
(* Starts *)

LEMMA BeginStartKeeps ==
  ASSUME IInv, NEW c \in Callers, NEW id \in WorkflowIds, NEW S \in Attributions, BeginStart(c, id, S)
  PROVE  IInv'
<1>1. S \in SUBSET Subjects /\ CallerProc[c] \in Procs
  BY ErasureAssumption DEF ErasureAssumption
<1>2. Grows /\ GhostOK' /\ S \in bound'[id]
  BY <1>1 DEF IInv, GhostOK, BeginStart, Grows, Destroyed
<1>3. KnownOK'
  BY <1>1, <1>2, RegisterKeeps DEF IInv, KnownOK, KeysTypeOK, BeginStart
<1>4. CallOK'
  <2>1. [phase |-> "registered", id |-> id, subjects |-> S] \in CallSet
    BY <1>1 DEF CallSet
  <2>2. call' \in [Callers -> CallSet]
    BY <2>1 DEF IInv, CallOK, BeginStart
  <2>3. ASSUME NEW d \in Callers
        PROVE  /\ call'[d].phase \in {"registered", "sealed"} => call'[d].subjects \in bound'[call'[d].id]
               /\ call'[d].phase = "sealed" => Sealed(call[d].kid, call[d].id)'
    <3>1. CASE d = c
      BY <1>2, <3>1 DEF IInv, CallOK, BeginStart
    <3>2. CASE d # c
      <4>1. call'[d] = call[d]
        BY <3>2 DEF IInv, CallOK, BeginStart
      <4>2. call[d].phase \in {"registered", "sealed"} => call[d].id \in WorkflowIds
        BY CallShape DEF IInv
      <4> QED
        BY <1>2, <4>1, <4>2, SealedGrows DEF IInv, CallOK, Grows
    <3> QED
      BY <3>1, <3>2
  <2> QED
    BY <2>2, <2>3 DEF CallOK
<1> QED
  BY <1>2, <1>3, <1>4, RunsGrow, TaskGrows, CacheStays, OpStays DEF IInv, BeginStart, runVars

\* A call that ends, or goes on sealed under K.
LEMMA CallMoves ==
  ASSUME IInv, NEW c \in Callers, Grows, NEW new, call' = [call EXCEPT ![c] = new],
         \/ new = NoCall
         \/ \E id \in WorkflowIds, K \in SUBSET Subjects : Sealed(K, id)' /\
              \E S \in SUBSET Subjects : S \in bound[id] /\
                 new = [phase |-> "sealed", id |-> id, subjects |-> S, kid |-> K]
  PROVE  CallOK'
<1>1. new \in CallSet
  BY DEF CallSet
<1>2. call' \in [Callers -> CallSet]
  BY <1>1 DEF IInv, CallOK
<1>3. ASSUME NEW d \in Callers
      PROVE  /\ call'[d].phase \in {"registered", "sealed"} => call'[d].subjects \in bound'[call'[d].id]
             /\ call'[d].phase = "sealed" => Sealed(call[d].kid, call[d].id)'
  <2>1. CASE d = c
    <3>1. call'[d] = new
      BY <2>1 DEF IInv, CallOK
    <3>2. CASE new = NoCall
      BY <3>1, <3>2 DEF NoCall
    <3>3. CASE new # NoCall
      BY <3>1, <3>3 DEF Grows
    <3> QED
      BY <3>2, <3>3
  <2>2. CASE d # c
    <3>1. call'[d] = call[d]
      BY <2>2 DEF IInv, CallOK
    <3>2. call[d].phase \in {"registered", "sealed"} => call[d].id \in WorkflowIds
      BY CallShape DEF IInv
    <3> QED
      BY <3>1, <3>2, SealedGrows DEF IInv, CallOK, Grows
  <2> QED
    BY <2>1, <2>2
<1> QED
  BY <1>2, <1>3 DEF CallOK

LEMMA SealInputKeeps ==
  ASSUME IInv, NEW c \in Callers, SealInput(c)
  PROVE  IInv'
<1>1. PICK K \in known[CallerProc[c]][call[c].id] :
        \/ /\ Seal(K)
           /\ call' = [call EXCEPT ![c] = [phase |-> "sealed", id |-> @.id, subjects |-> @.subjects, kid |-> K]]
        \/ /\ SealThrows(K)
           /\ call' = [call EXCEPT ![c] = NoCall]
  BY DEF SealInput
<1>2. /\ call[c].id \in WorkflowIds /\ call[c].subjects \in SUBSET Subjects
      /\ call[c].subjects \in bound[call[c].id]
  BY CallShape DEF IInv, CallOK, SealInput
<1>3. K \in bound[call[c].id] /\ K \in SUBSET Subjects
  <2>1. CallerProc[c] \in Procs
    BY ErasureAssumption DEF ErasureAssumption
  <2> QED
    BY <1>1, <1>2, <2>1, BoundSubsets DEF IInv, KnownOK
<1>4. UNCHANGED <<known, cacheVars, runVars, task, op, ghosts, faults>>
  BY DEF SealInput
<1>5. /\ Grows /\ GhostOK' /\ keystore' \in [Subjects -> {"absent", "live", "destroyed"}]
      /\ Seal(K) => \A s \in K : keystore'[s] # "absent"
  BY <1>1, <1>3, <1>4, SealKeeps DEF IInv, ghosts
<1>6. CallOK'
  <2>1. CASE Seal(K) /\ call' = [call EXCEPT ![c] = [phase |-> "sealed", id |-> @.id, subjects |-> @.subjects, kid |-> K]]
    <3>1. Sealed(K, call[c].id)'
      <4>1. K \in bound'[call[c].id]
        BY <1>3, <1>4 DEF ghosts
      <4> QED
        BY <1>2, <1>5, <2>1, <4>1, <1>3 DEF Sealed, IInv
    <3> QED
      BY <1>2, <1>3, <1>5, <2>1, <3>1, CallMoves
  <2>2. CASE call' = [call EXCEPT ![c] = NoCall]
    BY <1>5, <2>2, CallMoves
  <2> QED
    BY <1>1, <2>1, <2>2
<1> QED
  BY <1>4, <1>5, <1>6, KnownGrows, RunsGrow, TaskGrows, CacheStays, OpStays DEF IInv, runVars

LEMMA StartAcceptedKeeps ==
  ASSUME IInv, NEW c \in Callers, NEW r \in Runs, StartAccepted(c, r)
  PROVE  IInv'
<1>1. /\ call[c].id \in WorkflowIds /\ call[c].subjects \in SUBSET Subjects /\ call[c].kid \in SUBSET Subjects
      /\ call[c].subjects \in bound[call[c].id] /\ Sealed(call[c].kid, call[c].id)
  BY CallShape DEF IInv, CallOK, StartAccepted
<1>2. /\ Grows /\ KnownOK' /\ GhostOK' /\ CacheOK'
  BY KeysStay, GhostStays, CacheStays DEF IInv, StartAccepted, keyVars, GhostOK
<1>3. CallOK'
  BY <1>2, CallMoves DEF StartAccepted
<1>4. RunsOK'
  <2>1. /\ status' \in [Runs -> {"unstarted", "running", "closed", "deleted"}]
        /\ runId' \in [Runs -> WorkflowIds]
        /\ runSubjects' \in [Runs -> SUBSET Subjects]
        /\ history' \in [Runs -> SUBSET SUBSET Subjects]
    BY <1>1 DEF IInv, RunsOK, StartAccepted
  <2>2. ASSUME NEW q \in Runs
        PROVE  /\ status'[q] # "unstarted" => runSubjects'[q] \in bound'[runId'[q]]
               /\ status'[q] = "unstarted" => history'[q] = {}
               /\ \A K \in history'[q] : Sealed(K, runId[q])'
    BY <1>1 DEF IInv, RunsOK, StartAccepted, Sealed, keyVars, ghosts
  <2> QED
    BY <2>1, <2>2 DEF RunsOK
<1>5. TaskOK'
  BY DEF IInv, TaskOK, RunsOK, StartAccepted, NoTask, ghosts
<1>6. OpOK'
  <2>1. r \notin op.before /\ r \notin op.plan
    BY DEF IInv, OpOK, StartAccepted, Started
  <2>2. op.before \in SUBSET Runs /\ op.plan \in SUBSET Runs
    BY DEF IInv, OpOK, OpSet
  <2>3. /\ \A q \in op.before \cup op.plan : status'[q] = status[q] /\ runSubjects'[q] = runSubjects[q]
        /\ UNCHANGED op
    BY <2>1, <2>2 DEF IInv, RunsOK, StartAccepted
  <2>4. \A s : Covered(s) => Covered(s)'
    BY <2>3 DEF Covered
  <2>5. \A s : Through(s)' => Through(s)
    BY <2>3 DEF Through
  <2>6. op'.before \subseteq Started'
    BY <2>2, <2>3 DEF IInv, OpOK, Started
  <2>7. op.phase = "deleting" => \E s \in op.todo :
          /\ \A q \in op.plan : runSubjects'[q] = {s}
          /\ s \notin op.flawed \cup op.caveats => Covered(s)'
    BY <2>3, <2>4 DEF IInv, OpOK
  <2> QED
    BY <2>3, <2>4, <2>5, <2>6, <2>7 DEF IInv, OpOK
<1> QED
  BY <1>2, <1>3, <1>4, <1>5, <1>6 DEF IInv

LEMMA StartFailsKeeps ==
  ASSUME IInv, NEW c \in Callers, StartFails(c)
  PROVE  IInv'
<1>1. Grows /\ KnownOK' /\ GhostOK' /\ CacheOK'
  BY KeysStay, GhostStays, CacheStays DEF IInv, StartFails, keyVars, GhostOK
<1>2. CallOK'
  BY <1>1, CallMoves DEF StartFails
<1> QED
  BY <1>1, <1>2, RunsGrow, TaskGrows, OpStays DEF IInv, StartFails, runVars
-----------------------------------------------------------------------------
(* Workers *)

LEMMA TaskMoves ==
  ASSUME IInv, NEW r \in Runs, NEW new \in TaskSet, task' = [task EXCEPT ![r] = new],
         new = NoTask \/ status[r] # "unstarted",
         new.phase = "described" => new.reply \in bound[runId[r]],
         Grows, UNCHANGED <<status, runId>>
  PROVE  TaskOK'
BY DEF IInv, TaskOK, RunsOK, Grows

LEMMA NoTaskIn == NoTask \in TaskSet /\ NoTask.phase # "described"
BY DEF NoTask, TaskSet

LEMMA StartActivityKeeps ==
  ASSUME IInv, NEW r \in Runs, NEW p \in Procs, StartActivity(r, p)
  PROVE  IInv'
<1>1. Grows /\ KnownOK' /\ GhostOK' /\ CacheOK'
  BY KeysStay, GhostStays, CacheStays DEF IInv, StartActivity, keyVars, GhostOK
<1> DEFINE new == [phase |-> "working", proc |-> p]
<1>2. new \in TaskSet /\ new.phase # "described"
  BY DEF TaskSet
<1>3. task' = [task EXCEPT ![r] = new] /\ status[r] # "unstarted"
  BY DEF StartActivity
<1>4. TaskOK'
  <2> HIDE DEF new
  <2> QED
    BY <1>1, <1>2, <1>3, TaskMoves DEF StartActivity, runVars
<1> QED
  BY <1>1, <1>4, CallGrows, RunsGrow, OpStays DEF IInv, StartActivity, runVars

\* A payload of run r is sealed under K, and goes into the history or not.
LEMMA SealAsKeeps ==
  ASSUME IInv, NEW r \in Runs, status[r] # "unstarted", NEW K \in SUBSET Subjects, K \in bound[runId[r]],
         SealAs(r, K), UNCHANGED <<status, runId, runSubjects, call, op, ghosts, faults>>
  PROVE  /\ RunsOK' /\ CallOK' /\ TaskOK' /\ GhostOK' /\ OpOK' /\ Grows
         /\ keystore' \in [Subjects -> {"absent", "live", "destroyed"}]
<1>1. Seal(K) \/ SealThrows(K)
  BY DEF SealAs
<1>2. /\ Grows /\ GhostOK' /\ keystore' \in [Subjects -> {"absent", "live", "destroyed"}]
      /\ Seal(K) => \A s \in K : keystore'[s] # "absent"
  BY <1>1, SealKeeps DEF IInv, ghosts
<1>3. runId[r] \in WorkflowIds
  BY DEF IInv, RunsOK
<1>4. /\ history' \in [Runs -> SUBSET SUBSET Subjects]
      /\ \A q \in Runs : \A L \in history'[q] :
            L \in history[q] \/ (q = r /\ L = K /\ Seal(K))
  BY DEF IInv, RunsOK, SealAs
<1>5. Seal(K) => Sealed(K, runId[r])'
  BY <1>2, <1>3 DEF Sealed, ghosts
<1>6. ASSUME NEW q \in Runs, NEW L \in history'[q] PROVE Sealed(L, runId[q])'
  <2>1. CASE L \in history[q]
    BY <1>2, <2>1, SealedGrows DEF IInv, RunsOK
  <2>2. CASE q = r /\ L = K /\ Seal(K)
    BY <1>5, <2>2
  <2> QED
    BY <1>4, <2>1, <2>2
<1>7. \A q \in Runs : status[q] = "unstarted" => history'[q] = {}
  BY <1>4 DEF IInv, RunsOK
<1>8. RunsOK'
  BY <1>2, <1>4, <1>6, <1>7 DEF IInv, RunsOK, Grows
<1>9. TaskOK'
  BY <1>2, NoTaskIn, TaskMoves DEF SealAs
<1> QED
  BY <1>2, <1>8, <1>9, CallGrows, OpStays DEF IInv

LEMMA ProduceOutputKeeps ==
  ASSUME IInv, NEW r \in Runs, ProduceOutput(r)
  PROVE  IInv'
<1>1. /\ task[r] \in [phase : {"working", "describing"}, proc : Procs]
      /\ status[r] # "unstarted" /\ runId[r] \in WorkflowIds /\ runSubjects[r] \in SUBSET Subjects
  BY TaskShape DEF IInv, TaskOK, RunsOK, ProduceOutput, NoTask
<1>2. CacheOK'
  <2>1. (\E k \in CacheKeys : Set(k, runSubjects[r])) \/ UNCHANGED cacheVars
    BY DEF ProduceOutput
  <2> QED
    BY <1>1, <2>1, SetKeeps, CacheStays DEF IInv
<1>3. UNCHANGED <<known, status, runId, runSubjects, indexed, call, op, ghosts, faults>>
  BY DEF ProduceOutput
<1>4. CASE known[task[r].proc][runId[r]] = {}
  <2> DEFINE new == [task[r] EXCEPT !.phase = "describing"]
  <2>1. task' = [task EXCEPT ![r] = new] /\ UNCHANGED <<keystore, history>>
    BY <1>4 DEF ProduceOutput, IInv, TaskOK
  <2>2. new \in TaskSet /\ new.phase # "described"
    BY <1>1 DEF TaskSet
  <2>3. Grows /\ KnownOK' /\ GhostOK'
    BY <1>3, <2>1, KeysStay, GhostStays DEF IInv, keyVars, ghosts, GhostOK
  <2>4. TaskOK'
    <3> HIDE DEF new
    <3> QED
      BY <1>1, <1>3, <2>1, <2>2, <2>3, TaskMoves
  <2> QED
    BY <1>2, <1>3, <2>1, <2>3, <2>4, CallGrows, RunsGrow, OpStays DEF IInv, runVars
<1>5. CASE known[task[r].proc][runId[r]] # {}
  <2>1. PICK K \in known[task[r].proc][runId[r]] : SealAs(r, K)
    BY <1>5 DEF ProduceOutput
  <2>2. K \in bound[runId[r]] /\ K \in SUBSET Subjects
    <3>1. task[r].proc \in Procs
      BY <1>1
    <3> QED
      BY <1>1, <2>1, <3>1, BoundSubsets DEF IInv, KnownOK
  <2>3. /\ RunsOK' /\ CallOK' /\ TaskOK' /\ GhostOK' /\ OpOK' /\ Grows
        /\ keystore' \in [Subjects -> {"absent", "live", "destroyed"}]
    BY <1>1, <1>3, <2>1, <2>2, SealAsKeeps
  <2> QED
    BY <1>2, <1>3, <2>3, KnownGrows DEF IInv
<1> QED
  BY <1>4, <1>5

LEMMA DescribeKeeps ==
  ASSUME IInv, NEW r \in Runs, Describe(r)
  PROVE  IInv'
<1>1. /\ task[r] \in [phase : {"working", "describing"}, proc : Procs]
      /\ status[r] # "unstarted"
  BY TaskShape DEF IInv, TaskOK, Describe, NoTask
<1>2. PICK latest \in {q \in Started : runId[q] = runId[r]} :
        \/ /\ task' = [task EXCEPT ![r] = [phase |-> "described", proc |-> @.proc, reply |-> runSubjects[latest]]]
           /\ UNCHANGED faults
        \/ /\ task' = [task EXCEPT ![r] = NoTask]
           /\ UNCHANGED faults \/ Fault
  BY DEF Describe
<1>3. UNCHANGED <<keyVars, cacheVars, runVars, call, op, ghosts>>
  BY DEF Describe
<1>4. faults' \in 0 .. MaxFaults
  BY <1>2, FaultKeeps DEF IInv, GhostOK
<1>5. Grows /\ KnownOK' /\ GhostOK' /\ CacheOK'
  BY <1>3, <1>4, KeysStay, GhostStays, CacheStays DEF IInv, keyVars
<1>6. TaskOK'
  <2>1. CASE task' = [task EXCEPT ![r] = [phase |-> "described", proc |-> @.proc, reply |-> runSubjects[latest]]]
    <3> DEFINE new == [phase |-> "described", proc |-> task[r].proc, reply |-> runSubjects[latest]]
    <3>1. task' = [task EXCEPT ![r] = new]
      BY <2>1 DEF IInv, TaskOK
    <3>2. runSubjects[latest] \in SUBSET Subjects /\ runSubjects[latest] \in bound[runId[r]]
      BY <1>2 DEF IInv, RunsOK, Started
    <3>3. new \in TaskSet /\ new.reply \in bound[runId[r]]
      BY <1>1, <3>2 DEF TaskSet
    <3> HIDE DEF new
    <3> QED
      BY <1>1, <1>3, <1>5, <3>1, <3>3, TaskMoves DEF runVars
  <2>2. CASE task' = [task EXCEPT ![r] = NoTask]
    BY <1>3, <1>5, <2>2, NoTaskIn, TaskMoves DEF runVars
  <2> QED
    BY <1>2, <2>1, <2>2
<1> QED
  BY <1>3, <1>5, <1>6, CallGrows, RunsGrow, OpStays DEF IInv, runVars

LEMMA SealDescribedKeeps ==
  ASSUME IInv, NEW r \in Runs, SealDescribed(r)
  PROVE  IInv'
<1>1. /\ task[r] \in [phase : {"described"}, proc : Procs, reply : SUBSET Subjects]
      /\ task[r].reply \in bound[runId[r]]
      /\ status[r] # "unstarted" /\ runId[r] \in WorkflowIds
  BY TaskShape DEF IInv, TaskOK, RunsOK, SealDescribed, NoTask
<1>2. UNCHANGED <<cacheVars, status, runId, runSubjects, call, op, ghosts, faults>>
  BY DEF SealDescribed
<1>3. /\ RunsOK' /\ CallOK' /\ TaskOK' /\ GhostOK' /\ OpOK' /\ Grows
      /\ keystore' \in [Subjects -> {"absent", "live", "destroyed"}]
  BY <1>1, <1>2, SealAsKeeps DEF SealDescribed
<1>4. task[r].proc \in Procs /\ task[r].reply \in SUBSET Subjects /\ task[r].reply \in bound'[runId[r]]
  BY <1>1, <1>2 DEF ghosts
<1>5. KnownOK'
  BY <1>1, <1>3, <1>4, RegisterKeeps DEF IInv, SealDescribed
<1> QED
  BY <1>2, <1>3, <1>5, CacheStays DEF IInv

LEMMA CloseKeeps ==
  ASSUME IInv, NEW r \in Runs, Close(r)
  PROVE  IInv'
<1>1. Grows /\ KnownOK' /\ GhostOK' /\ CacheOK'
  BY KeysStay, GhostStays, CacheStays DEF IInv, Close, keyVars, GhostOK
<1>2. /\ status[r] = "running" /\ status' = [status EXCEPT ![r] = "closed"]
      /\ UNCHANGED <<runId, runSubjects, history, call, task, op, bound, keystore>>
  BY DEF Close, ghosts, keyVars
<1>3. RunsOK'
  BY <1>2 DEF IInv, RunsOK, Sealed
<1>4. TaskOK'
  BY <1>2 DEF IInv, TaskOK, RunsOK
<1>5. OpOK'
  <2>1. op.before \in SUBSET Runs /\ op.plan \in SUBSET Runs
    BY DEF IInv, OpOK, OpSet
  <2>2. \A q \in Runs : status[q] \in {"closed", "deleted"} => status'[q] = status[q]
    BY <1>2 DEF IInv, RunsOK
  <2>3. Started' = Started
    BY <1>2 DEF IInv, RunsOK, Started
  <2>4. \A s : Covered(s) => Covered(s)'
    BY <1>2, <2>1, <2>2 DEF Covered
  <2>5. \A s : Through(s)' => Through(s)
    BY <1>2 DEF Through
  <2>6. \A q \in op.plan : status'[q] = "closed"
    BY <2>1, <2>2 DEF IInv, OpOK
  <2> QED
    BY <1>2, <2>3, <2>4, <2>5, <2>6 DEF IInv, OpOK
<1> QED
  BY <1>1, <1>2, <1>3, <1>4, <1>5, CallGrows DEF IInv

LEMMA RestartKeeps ==
  ASSUME IInv, NEW p \in Procs, Restart(p)
  PROVE  IInv'
<1>1. faults' \in 0 .. MaxFaults
  BY FaultKeeps DEF IInv, Restart
<1>2. /\ UNCHANGED <<keystore, cacheVars, runVars, op, ghosts>>
      /\ known' = [known EXCEPT ![p] = [id \in WorkflowIds |-> {}]]
  BY DEF Restart, Forget
<1>3. Grows /\ GhostOK' /\ CacheOK'
  BY <1>1, <1>2, GhostStays, CacheStays DEF IInv, Grows, ghosts
<1>4. KnownOK'
  BY <1>2 DEF IInv, KnownOK, KeysTypeOK, ghosts
<1>5. CallOK'
  <2>1. call' = [c \in Callers |-> IF CallerProc[c] = p THEN NoCall ELSE call[c]]
    BY DEF Restart
  <2>2. NoCall \in CallSet /\ NoCall.phase \notin {"registered", "sealed"}
    BY DEF NoCall, CallSet
  <2>3. call' \in [Callers -> CallSet]
    BY <2>1, <2>2 DEF IInv, CallOK
  <2>4. \A c \in Callers : call'[c] = NoCall \/ call'[c] = call[c]
    BY <2>1
  <2>5. \A c \in Callers : call[c].phase = "sealed" => Sealed(call[c].kid, call[c].id)
    BY DEF IInv, CallOK
  <2>6. UNCHANGED <<keystore, bound>>
    BY <1>2 DEF ghosts
  <2>7. ASSUME NEW c \in Callers
        PROVE  /\ call'[c].phase \in {"registered", "sealed"} => call'[c].subjects \in bound'[call'[c].id]
               /\ call'[c].phase = "sealed" => Sealed(call[c].kid, call[c].id)'
    <3>1. CASE call'[c] = NoCall
      BY <2>2, <3>1
    <3>2. CASE call'[c] = call[c]
      BY <2>5, <2>6, <3>2 DEF IInv, CallOK, Sealed
    <3> QED
      BY <2>4, <3>1, <3>2
  <2> QED
    BY <2>3, <2>7 DEF CallOK
<1>6. TaskOK'
  <2>1. task' = [r \in Runs |-> IF task[r] # NoTask /\ task[r].proc = p THEN NoTask ELSE task[r]]
    BY DEF Restart
  <2> QED
    BY <1>2, <2>1, NoTaskIn DEF IInv, TaskOK, runVars, ghosts
<1> QED
  BY <1>2, <1>3, <1>4, <1>5, <1>6, RunsGrow, OpStays DEF IInv, runVars
-----------------------------------------------------------------------------
(* The erasure *)

LEMMA SurfaceType == ASSUME NEW S PROVE
  /\ NextSurface(S, "executions") \in {"cache", "done"}
  /\ NextSurface(S, "cache") = "done"
  /\ NextSurface(S, "keystore") \in {"executions", "cache", "done"}
  /\ "executions" \in S => NextSurface(S, "keystore") = "executions"
  /\ NextSurface(S, "keystore") = "executions" => "executions" \in S
BY DEF NextSurface

\* A surface is through with subject s: o is the operation up to that point.
LEMMA ServedKeeps ==
  ASSUME NEW o \in OpSet, NEW s \in o.todo, NEW surface \in {"executions", "cache"},
         op' = Served(o, s, surface), o.todo \subseteq o.subjects, o.before \subseteq Started',
         surface = "executions" => "executions" \in o.surfaces,
         ~o.dry /\ "executions" \in o.surfaces =>
           \A t \in o.subjects \ (o.flawed \cup o.caveats) :
             surface = "cache" \/ t \notin o.todo \ {s} =>
               \A r \in o.before : t \in runSubjects'[r] => status'[r] = "deleted"
  PROVE  OpOK'
<1>1. /\ op' \in OpSet /\ op'.plan = {} /\ op'.todo \subseteq o.subjects
      /\ op'.subjects = o.subjects /\ op'.dry = o.dry /\ op'.surfaces = o.surfaces
      /\ op'.before = o.before /\ op'.flawed = o.flawed /\ op'.caveats = o.caveats
      /\ op'.phase \in {surface, "cache", "done"}
      /\ op'.phase = "executions" => op'.todo = o.todo \ {s}
      /\ op'.phase # "executions" /\ surface = "executions" => o.todo \ {s} = {}
  <2>1. CASE o.todo \ {s} # {}
    <3>1. op' = [o EXCEPT !.phase = surface, !.todo = @ \ {s}, !.plan = {}]
      BY <2>1 DEF Served
    <3>2. surface \in Phases /\ o.todo \ {s} \in SUBSET Subjects /\ {} \in SUBSET Runs
      BY DEF OpSet, Phases
    <3>3. op' \in OpSet
      BY <3>1, <3>2 DEF OpSet
    <3>4. op'.phase = surface /\ op'.todo = o.todo \ {s} /\ op'.plan = {}
      BY <3>1 DEF OpSet
    <3>5. /\ op'.subjects = o.subjects /\ op'.dry = o.dry /\ op'.surfaces = o.surfaces
          /\ op'.before = o.before /\ op'.flawed = o.flawed /\ op'.caveats = o.caveats
      BY <3>1 DEF OpSet
    <3> QED
      BY <3>3, <3>4, <3>5
  <2>2. CASE o.todo \ {s} = {}
    <3>1. op' = [o EXCEPT !.phase = NextSurface(o.surfaces, surface), !.todo = o.subjects, !.plan = {}]
      BY <2>2 DEF Served
    <3>2. NextSurface(o.surfaces, surface) \in {"cache", "done"}
      BY SurfaceType
    <3> QED
      BY <3>1, <3>2, <2>2 DEF OpSet, Phases
  <2> QED
    BY <2>1, <2>2
<1>2. ~o.dry /\ "executions" \in o.surfaces =>
        \A t \in o.subjects \ (o.flawed \cup o.caveats) : Through(t)' => Covered(t)'
  <2> SUFFICES ASSUME ~o.dry, "executions" \in o.surfaces,
                      NEW t \in o.subjects \ (o.flawed \cup o.caveats), Through(t)'
               PROVE  Covered(t)'
    OBVIOUS
  <2>1. surface = "cache" \/ t \notin o.todo \ {s}
    BY <1>1 DEF Through
  <2> QED
    BY <1>1, <2>1 DEF Covered
<1>3. op'.phase = "executions" => surface = "executions"
  BY <1>1
<1> QED
  BY <1>1, <1>2, <1>3 DEF OpOK

LEMMA RequestKeeps ==
  ASSUME IInv, ListedOK, NEW q \in Requests, Request(q)
  PROVE  IInv'
<1>1. q \in [subjects : SUBSET Subjects, dry : BOOLEAN, surfaces : SUBSET Surfaces]
  BY ErasureAssumption DEF ErasureAssumption
<1>2. PICK failing \in SUBSET q.subjects :
        /\ IF failing = {} THEN UNCHANGED faults ELSE "keystore" \in q.surfaces /\ Fault
        /\ LET shred == IF q.dry \/ "keystore" \notin q.surfaces THEN {} ELSE q.subjects \ failing
           IN  keystore' = Shredded(shred) /\ erased' = erased \cup shred
        /\ op' = [phase |-> NextSurface(q.surfaces, "keystore"), subjects |-> q.subjects, dry |-> q.dry,
                  surfaces |-> q.surfaces, before |-> indexed, todo |-> q.subjects, plan |-> {},
                  flawed |-> failing, caveats |-> {}]
  BY DEF Request
<1>3. UNCHANGED <<known, cacheVars, runVars, call, task, bound>>
  BY DEF Request
<1>4. PICK shred \in SUBSET Subjects : keystore' = Shredded(shred) /\ erased' = erased \cup shred
  <2> DEFINE S == IF q.dry \/ "keystore" \notin q.surfaces THEN {} ELSE q.subjects \ failing
  <2>1. S \in SUBSET Subjects
    BY <1>1
  <2>2. keystore' = Shredded(S) /\ erased' = erased \cup S
    BY <1>2
  <2> QED
    BY <2>1, <2>2
<1>5. /\ keystore' \in [Subjects -> {"absent", "live", "destroyed"}]
      /\ Grows /\ erased' = Destroyed'
  BY <1>3, <1>4 DEF IInv, KnownOK, KeysTypeOK, GhostOK, Shredded, Destroyed, Grows
<1>6. GhostOK'
  BY <1>2, <1>3, <1>5, FaultKeeps DEF IInv, GhostOK
<1>7. OpOK'
  <2>1. op' \in OpSet
    <3>1. NextSurface(q.surfaces, "keystore") \in Phases
      BY SurfaceType DEF Phases
    <3>2. indexed \in SUBSET Runs
      BY DEF ListedOK, Started
    <3> QED
      BY <1>1, <1>2, <3>1, <3>2 DEF OpSet
  <2>2. /\ op'.before \subseteq Started /\ op'.todo = op'.subjects /\ op'.plan = {}
        /\ op'.surfaces = q.surfaces /\ op'.phase = NextSurface(q.surfaces, "keystore")
    BY <1>2 DEF ListedOK
  <2>3. Started' = Started
    BY <1>3 DEF Started, runVars
  <2>4. "executions" \in op'.surfaces => op'.phase = "executions"
    BY <2>2, SurfaceType
  <2>5. op'.phase = "executions" => "executions" \in op'.surfaces
    BY <2>2, SurfaceType
  <2>6. op'.phase # "deleting"
    BY <2>2, SurfaceType
  <2> QED
    BY <2>1, <2>2, <2>3, <2>4, <2>5, <2>6 DEF OpOK, Through
<1> QED
  BY <1>3, <1>5, <1>6, <1>7, KnownGrows, RunsGrow, CallGrows, TaskGrows, CacheStays DEF IInv, runVars

LEMMA NotedFacts ==
  ASSUME op \in OpSet, NEW s \in Subjects, NEW there \in BOOLEAN, NEW o,
         o = Caveat(op, s, there) \/ o = Flawed(op, s)
  PROVE  /\ o \in OpSet
         /\ o.phase = op.phase /\ o.subjects = op.subjects /\ o.dry = op.dry /\ o.surfaces = op.surfaces
         /\ o.before = op.before /\ o.todo = op.todo /\ o.plan = op.plan
         /\ op.flawed \subseteq o.flawed /\ op.caveats \subseteq o.caveats
         /\ o = Caveat(op, s, there) /\ there => s \in o.caveats
         /\ o = Flawed(op, s) => s \in o.flawed
<1>1. CASE o = Flawed(op, s)
  <2>1. op.flawed \cup {s} \in SUBSET Subjects
    BY DEF OpSet
  <2>2. o = [op EXCEPT !.flawed = op.flawed \cup {s}]
    BY <1>1 DEF Flawed
  <2>3. o \in OpSet
    BY <2>1, <2>2 DEF OpSet
  <2>4. /\ o.phase = op.phase /\ o.subjects = op.subjects /\ o.dry = op.dry /\ o.surfaces = op.surfaces
        /\ o.before = op.before /\ o.todo = op.todo /\ o.plan = op.plan
        /\ o.flawed = op.flawed \cup {s} /\ o.caveats = op.caveats
    BY <2>2 DEF OpSet
  <2>5. o = Caveat(op, s, there) /\ there => s \in o.caveats
    <3> SUFFICES ASSUME o = Caveat(op, s, there), there PROVE s \in o.caveats
      OBVIOUS
    <3>1. o = [op EXCEPT !.caveats = op.caveats \cup {s}]
      BY DEF Caveat
    <3> QED
      BY <3>1 DEF OpSet
  <2> QED
    BY <2>3, <2>4, <2>5
<1>2. CASE o = Caveat(op, s, there) /\ o # Flawed(op, s)
  <2>1. CASE there
    <3>1. op.caveats \cup {s} \in SUBSET Subjects
      BY DEF OpSet
    <3>2. o = [op EXCEPT !.caveats = op.caveats \cup {s}]
      BY <1>2, <2>1 DEF Caveat
    <3>3. o \in OpSet
      BY <3>1, <3>2 DEF OpSet
    <3>4. /\ o.phase = op.phase /\ o.subjects = op.subjects /\ o.dry = op.dry /\ o.surfaces = op.surfaces
          /\ o.before = op.before /\ o.todo = op.todo /\ o.plan = op.plan
          /\ o.flawed = op.flawed /\ o.caveats = op.caveats \cup {s}
      BY <3>2 DEF OpSet
    <3> QED
      BY <1>2, <3>3, <3>4
  <2>2. CASE ~there
    BY <1>2, <2>2 DEF Caveat
  <2> QED
    BY <2>1, <2>2
<1> QED
  BY <1>1, <1>2

LEMMA ListExecutionsKeeps ==
  ASSUME IInv, ListedOK, NEW s \in Subjects, ListExecutions(s)
  PROVE  IInv'
<1> DEFINE found == {r \in Retained \cap indexed : s \in runSubjects[r]}
<1>1. PICK listed \in SUBSET found :
        LET plan == Deletable(listed, s)
            noted == Caveat(op, s, Excluded(found, listed, plan))
        IN  op' = IF op.dry \/ plan = {} THEN Served(noted, s, "executions")
                  ELSE [noted EXCEPT !.phase = "deleting", !.plan = plan]
  BY DEF ListExecutions
<1> DEFINE plan == Deletable(listed, s)
           there == Excluded(found, listed, plan)
           noted == Caveat(op, s, there)
<1>2. /\ UNCHANGED <<keyVars, cacheVars, runVars, call, task, ghosts, faults>>
      /\ op.phase = "executions" /\ s \in op.todo
  BY DEF ListExecutions
<1>3. there \in BOOLEAN /\ (~there => plan = found)
  BY DEF Excluded
<1>4. op \in OpSet /\ op.plan = {} /\ op.todo \subseteq op.subjects /\ "executions" \in op.surfaces
  BY <1>2 DEF IInv, OpOK
<1>5. /\ noted \in OpSet
      /\ noted.phase = op.phase /\ noted.subjects = op.subjects /\ noted.dry = op.dry
      /\ noted.surfaces = op.surfaces /\ noted.before = op.before /\ noted.todo = op.todo
      /\ noted.plan = {} /\ op.flawed \subseteq noted.flawed /\ op.caveats \subseteq noted.caveats
      /\ there => s \in noted.caveats
  BY <1>3, <1>4, NotedFacts
<1>6. Started' = Started /\ op.before \subseteq Started /\ op.before \subseteq Runs
  BY <1>2 DEF IInv, OpOK, OpSet, Started, runVars
<1>7. ASSUME ~op.dry, NEW t \in op.subjects \ (noted.flawed \cup noted.caveats), t \notin op.todo,
             NEW r \in op.before, t \in runSubjects[r]
      PROVE  status[r] = "deleted"
  <2>1. Through(t) /\ t \in op.subjects \ (op.flawed \cup op.caveats)
    BY <1>2, <1>5, <1>7 DEF Through
  <2> QED
    BY <1>4, <1>7, <2>1 DEF IInv, OpOK, Covered
<1>8. ASSUME s \notin noted.caveats, NEW r \in op.before, s \in runSubjects[r]
      PROVE  status[r] = "deleted" \/ r \in plan
  <2>1. plan = found
    BY <1>3, <1>5, <1>8
  <2>2. status[r] \in {"running", "closed", "deleted"}
    BY <1>6, <1>8 DEF Started, IInv, RunsOK
  <2> QED
    BY <1>6, <1>8, <2>1, <2>2 DEF Retained, ListedOK
<1>9. plan \in SUBSET Runs /\ \A r \in plan : status[r] = "closed" /\ runSubjects[r] = {s}
  BY DEF Deletable, Retained
<1>10. UNCHANGED <<status, runSubjects>>
  BY <1>2 DEF runVars
<1> HIDE DEF there, noted, plan, found
<1>11. CASE op.dry \/ plan = {}
  <2>1. op' = Served(noted, s, "executions")
    BY <1>1, <1>11 DEF plan, noted, there, found
  <2>2. ~noted.dry /\ "executions" \in noted.surfaces =>
          \A t \in noted.subjects \ (noted.flawed \cup noted.caveats) :
            "executions" = "cache" \/ t \notin noted.todo \ {s} =>
              \A r \in noted.before : t \in runSubjects'[r] => status'[r] = "deleted"
    <3> SUFFICES ASSUME ~op.dry, NEW t \in op.subjects \ (noted.flawed \cup noted.caveats),
                        t \notin op.todo \ {s}, NEW r \in op.before, t \in runSubjects[r]
                 PROVE  status[r] = "deleted"
      BY <1>5, <1>10
    <3>1. CASE t = s
      BY <1>8, <1>11, <3>1
    <3>2. CASE t # s
      BY <1>7, <3>2
    <3> QED
      BY <3>1, <3>2
  <2>3. OpOK'
    BY <1>2, <1>4, <1>5, <1>6, <2>1, <2>2, ServedKeeps
  <2> QED
    BY <1>2, <2>3, KeysStay, GhostStays, RunsGrow, CallGrows, TaskGrows, CacheStays
    DEF IInv, runVars, keyVars, GhostOK
<1>12. CASE ~(op.dry \/ plan = {})
  <2>1. op' = [noted EXCEPT !.phase = "deleting", !.plan = plan]
    BY <1>1, <1>12 DEF plan, noted, there, found
  <2>2. op' \in OpSet
    <3>1. "deleting" \in Phases
      BY DEF Phases
    <3> QED
      BY <1>5, <1>9, <2>1, <3>1 DEF OpSet
  <2>3. /\ op'.phase = "deleting" /\ op'.plan = plan
        /\ op'.subjects = op.subjects /\ op'.dry = op.dry /\ op'.surfaces = op.surfaces
        /\ op'.before = op.before /\ op'.todo = op.todo
        /\ op'.flawed = noted.flawed /\ op'.caveats = noted.caveats
    BY <1>5, <2>1 DEF OpSet
  <2>4. s \notin op'.flawed \cup op'.caveats => Covered(s)'
    BY <1>8, <1>10, <2>3 DEF Covered
  <2>5. \A t \in op'.subjects \ (op'.flawed \cup op'.caveats) : Through(t)' => Covered(t)'
    BY <1>7, <1>10, <1>12, <2>3 DEF Through, Covered
  <2>6. OpOK'
    BY <1>2, <1>4, <1>6, <1>9, <1>10, <1>12, <2>2, <2>3, <2>4, <2>5 DEF OpOK
  <2> QED
    BY <1>2, <2>6, KeysStay, GhostStays, RunsGrow, CallGrows, TaskGrows, CacheStays
    DEF IInv, runVars, keyVars, GhostOK
<1> QED
  BY <1>11, <1>12

LEMMA ListingFailsKeeps ==
  ASSUME IInv, NEW s \in Subjects, ListingFails(s)
  PROVE  IInv'
<1>1. /\ UNCHANGED <<keyVars, cacheVars, runVars, call, task, ghosts>>
      /\ op.phase = "executions" /\ s \in op.todo
      /\ op' = Served(Flawed(op, s), s, "executions")
  BY DEF ListingFails
<1>2. op \in OpSet /\ op.plan = {} /\ op.todo \subseteq op.subjects /\ "executions" \in op.surfaces
  BY <1>1 DEF IInv, OpOK
<1> DEFINE o == Flawed(op, s)
<1>3. /\ o \in OpSet
      /\ o.phase = op.phase /\ o.subjects = op.subjects /\ o.dry = op.dry /\ o.surfaces = op.surfaces
      /\ o.before = op.before /\ o.todo = op.todo
      /\ op.flawed \subseteq o.flawed /\ op.caveats \subseteq o.caveats /\ s \in o.flawed
  BY <1>2, NotedFacts
<1>4. Started' = Started /\ op.before \subseteq Started /\ UNCHANGED <<status, runSubjects>>
  BY <1>1 DEF IInv, OpOK, Started, runVars
<1>5. op' = Served(o, s, "executions")
  BY <1>1
<1> HIDE DEF o
<1>6. ~o.dry /\ "executions" \in o.surfaces =>
        \A t \in o.subjects \ (o.flawed \cup o.caveats) :
          "executions" = "cache" \/ t \notin o.todo \ {s} =>
            \A r \in o.before : t \in runSubjects'[r] => status'[r] = "deleted"
  <2> SUFFICES ASSUME ~op.dry, NEW t \in op.subjects \ (o.flawed \cup o.caveats), t \notin op.todo,
                      NEW r \in op.before, t \in runSubjects[r]
               PROVE  status[r] = "deleted"
    BY <1>3, <1>4
  <2>1. Through(t) /\ t \in op.subjects \ (op.flawed \cup op.caveats)
    BY <1>1, <1>3 DEF Through
  <2> QED
    BY <1>2, <2>1 DEF IInv, OpOK, Covered
<1>7. OpOK'
  BY <1>1, <1>2, <1>3, <1>4, <1>5, <1>6, ServedKeeps
<1>8. faults' \in 0 .. MaxFaults
  BY FaultKeeps DEF IInv, ListingFails
<1> QED
  BY <1>1, <1>7, <1>8, KeysStay, GhostStays, RunsGrow, CallGrows, TaskGrows, CacheStays
  DEF IInv, runVars, keyVars

LEMMA PlannedIs ==
  ASSUME NEW r, NEW s, runSubjects[r] = {s}
  PROVE  Planned(r) = s
<1>1. \E t \in runSubjects[r] : TRUE
  OBVIOUS
<1>2. Planned(r) \in runSubjects[r]
  BY <1>1 DEF Planned
<1> QED
  BY <1>2

\* The plan loses r: o is the operation, r deleted or noted as a flaw.
LEMMA PlanLessKeeps ==
  ASSUME IInv, op.phase = "deleting", NEW r \in op.plan, NEW o \in OpSet, op' = PlanLess(o, r),
         NEW s \in op.todo, \A q \in op.plan : runSubjects[q] = {s},
         UNCHANGED runSubjects, Started' = Started,
         o.subjects = op.subjects, o.dry = op.dry, o.surfaces = op.surfaces, o.phase = op.phase,
         o.before = op.before, o.todo = op.todo, o.plan = op.plan,
         op.flawed \subseteq o.flawed, op.caveats = o.caveats,
         \A q \in Runs \ {r} : status'[q] = status[q],
         s \notin op.flawed \cup op.caveats => Covered(s),
         status'[r] = "deleted" \/ (s \in o.flawed /\ status' = status)
  PROVE  OpOK'
<1>1. /\ op \in OpSet /\ op.before \subseteq Started /\ op.todo \subseteq op.subjects
      /\ "executions" \in op.surfaces /\ ~op.dry /\ op.plan \subseteq Runs /\ op.before \subseteq Runs
      /\ s \in Subjects
  BY DEF IInv, OpOK, OpSet
<1>2. Planned(r) = s
  BY PlannedIs
<1>3. ASSUME NEW t \in op.subjects \ (o.flawed \cup o.caveats), t \notin op.todo,
             NEW q \in op.before, t \in runSubjects[q]
      PROVE  status'[q] = "deleted"
  <2>1. Through(t) /\ t \in op.subjects \ (op.flawed \cup op.caveats)
    BY <1>3 DEF Through
  <2>2. status[q] = "deleted" \/ q \in op.plan
    BY <1>1, <1>3, <2>1 DEF IInv, OpOK, Covered
  <2>3. q \notin op.plan
    BY <1>3
  <2>4. q # r
    BY <2>3
  <2> QED
    BY <1>1, <2>2, <2>3, <2>4
<1>4. ASSUME s \notin o.flawed \cup o.caveats, NEW q \in op.before, s \in runSubjects[q]
      PROVE  status'[q] = "deleted" \/ q \in op.plan \ {r}
  <2>1. status[q] = "deleted" \/ q \in op.plan
    BY <1>4 DEF Covered
  <2> QED
    BY <1>1, <1>4, <2>1
<1>5. CASE o.plan = {r}
  <2>1. op' = Served(o, s, "executions")
    BY <1>2, <1>5 DEF PlanLess
  <2>2. ~o.dry /\ "executions" \in o.surfaces =>
          \A t \in o.subjects \ (o.flawed \cup o.caveats) :
            "executions" = "cache" \/ t \notin o.todo \ {s} =>
              \A q \in o.before : t \in runSubjects'[q] => status'[q] = "deleted"
    <3> SUFFICES ASSUME NEW t \in op.subjects \ (o.flawed \cup o.caveats),
                        t \notin op.todo \ {s}, NEW q \in op.before, t \in runSubjects[q]
                 PROVE  status'[q] = "deleted"
      OBVIOUS
    <3>1. CASE t = s
      BY <1>4, <1>5, <3>1
    <3>2. CASE t # s
      BY <1>3, <3>2
    <3> QED
      BY <3>1, <3>2
  <2> QED
    BY <1>1, <2>1, <2>2, ServedKeeps
<1>6. CASE o.plan # {r}
  <2>1. op' = [o EXCEPT !.plan = op.plan \ {r}]
    BY <1>6 DEF PlanLess
  <2>2. /\ op' \in OpSet /\ op'.plan = op.plan \ {r}
        /\ op'.phase = "deleting" /\ op'.subjects = op.subjects /\ op'.dry = op.dry
        /\ op'.surfaces = op.surfaces /\ op'.before = op.before /\ op'.todo = op.todo
        /\ op'.flawed = o.flawed /\ op'.caveats = o.caveats
    <3>1. op.plan \ {r} \in SUBSET Runs
      BY <1>1
    <3>2. op' \in OpSet
      BY <2>1, <3>1 DEF OpSet
    <3> QED
      BY <2>1, <3>2 DEF OpSet
  <2>3. op'.plan # {}
    BY <1>6, <2>2
  <2>4. \A q \in op'.plan : status'[q] = "closed"
    BY <1>1, <2>2 DEF IInv, OpOK
  <2>5. s \notin op'.flawed \cup op'.caveats => Covered(s)'
    BY <1>4, <2>2 DEF Covered
  <2>6. \A t \in op'.subjects \ (op'.flawed \cup op'.caveats) : Through(t)' => Covered(t)'
    BY <1>3, <2>2 DEF Through, Covered
  <2> QED
    BY <1>1, <2>2, <2>3, <2>4, <2>5, <2>6 DEF OpOK
<1> QED
  BY <1>5, <1>6

LEMMA DeleteExecutionKeeps ==
  ASSUME IInv, NEW r \in Runs, DeleteExecution(r)
  PROVE  IInv'
<1>1. /\ op.phase = "deleting" /\ r \in op.plan
      /\ UNCHANGED <<keyVars, cacheVars, runId, runSubjects, history, call, task, ghosts>>
      /\ \/ /\ status' = [status EXCEPT ![r] = "deleted"]
            /\ op' = PlanLess(op, r)
            /\ UNCHANGED faults
         \/ /\ Fault
            /\ op' = PlanLess(Flawed(op, Planned(r)), r)
            /\ UNCHANGED status
  BY DEF DeleteExecution, Target
<1>2. PICK s \in op.todo :
        /\ \A q \in op.plan : runSubjects[q] = {s}
        /\ s \notin op.flawed \cup op.caveats => Covered(s)
  BY <1>1 DEF IInv, OpOK
<1>3. op \in OpSet /\ s \in Subjects /\ status[r] = "closed" /\ Planned(r) = s
  BY <1>1, <1>2, PlannedIs DEF IInv, OpOK, OpSet
<1>4. /\ \A q \in Runs \ {r} : status'[q] = status[q]
      /\ Started' = Started /\ status'[r] \in {"closed", "deleted"}
      /\ status' \in [Runs -> {"unstarted", "running", "closed", "deleted"}]
  BY <1>1, <1>3 DEF IInv, RunsOK, Started
<1>5. OpOK'
  <2>1. CASE status' = [status EXCEPT ![r] = "deleted"] /\ op' = PlanLess(op, r)
    <3>1. status'[r] = "deleted"
      BY <2>1 DEF IInv, RunsOK
    <3> QED
      BY <1>1, <1>2, <1>3, <1>4, <2>1, <3>1, PlanLessKeeps
  <2>2. CASE op' = PlanLess(Flawed(op, Planned(r)), r) /\ UNCHANGED status
    <3> DEFINE o == Flawed(op, s)
    <3>1. /\ o \in OpSet
          /\ o.phase = op.phase /\ o.subjects = op.subjects /\ o.dry = op.dry /\ o.surfaces = op.surfaces
          /\ o.before = op.before /\ o.todo = op.todo /\ o.plan = op.plan
          /\ op.flawed \subseteq o.flawed /\ s \in o.flawed
      BY <1>3, NotedFacts
    <3>2. o.caveats = op.caveats
      BY <1>3 DEF Flawed, OpSet
    <3>3. op' = PlanLess(o, r)
      BY <1>3, <2>2
    <3> HIDE DEF o
    <3> QED
      BY <1>1, <1>2, <1>3, <1>4, <2>2, <3>1, <3>2, <3>3, PlanLessKeeps
  <2> QED
    BY <1>1, <2>1, <2>2
<1>6. Grows /\ KnownOK' /\ CacheOK'
  BY <1>1, KeysStay, CacheStays DEF IInv
<1>7. GhostOK'
  <2>1. faults' \in 0 .. MaxFaults
    BY <1>1, FaultKeeps DEF IInv, GhostOK
  <2> QED
    BY <1>1, <2>1, GhostStays DEF IInv, keyVars
<1>8. RunsOK' /\ TaskOK'
  <2>1. \A q \in Runs : status'[q] = "unstarted" <=> status[q] = "unstarted"
    BY <1>3, <1>4
  <2> QED
    BY <1>1, <1>4, <2>1 DEF IInv, RunsOK, TaskOK, Sealed, keyVars, ghosts
<1> QED
  BY <1>1, <1>5, <1>6, <1>7, <1>8, CallGrows DEF IInv

LEMMA EraseCachedKeeps ==
  ASSUME IInv, NEW s \in Subjects, EraseCached(s)
  PROVE  IInv'
<1>1. /\ UNCHANGED <<keyVars, runVars, call, task, ghosts, faults>>
      /\ op.phase = "cache" /\ s \in op.todo /\ op' = Served(op, s, "cache")
      /\ IF op.dry THEN UNCHANGED cacheVars ELSE EraseFromCache(s)
  BY DEF EraseCached
<1>2. op \in OpSet /\ op.plan = {} /\ op.todo \subseteq op.subjects /\ op.before \subseteq Started
  BY <1>1 DEF IInv, OpOK
<1>3. Started' = Started /\ UNCHANGED <<status, runSubjects>>
  BY <1>1 DEF Started, runVars
<1>4. ~op.dry /\ "executions" \in op.surfaces =>
        \A t \in op.subjects \ (op.flawed \cup op.caveats) :
          \A r \in op.before : t \in runSubjects'[r] => status'[r] = "deleted"
  BY <1>1, <1>2, <1>3 DEF IInv, OpOK, Through, Covered
<1>5. OpOK'
  BY <1>1, <1>2, <1>3, <1>4, ServedKeeps
<1>6. CacheOK'
  BY <1>1, EraseFromCacheKeeps, CacheStays DEF IInv
<1> QED
  BY <1>1, <1>5, <1>6, KeysStay, GhostStays, RunsGrow, CallGrows, TaskGrows
  DEF IInv, runVars, keyVars, GhostOK
-----------------------------------------------------------------------------
(* The theorems *)

LEMMA InitIInv == Init => IInv
<1> SUFFICES ASSUME Init PROVE IInv
  OBVIOUS
<1>1. KnownOK /\ CacheOK
  BY DEF Init, KeysInit, CacheInit, KnownOK, KeysTypeOK, CacheOK, CacheTypeOK, IndexExact
<1>2. RunsOK
  <2>1. (CHOOSE id \in WorkflowIds : TRUE) \in WorkflowIds
    BY KeysAssumption DEF KeysAssumption
  <2> QED
    BY <2>1 DEF Init, RunsOK
<1>3. CallOK /\ TaskOK
  BY DEF Init, CallOK, TaskOK, CallSet, TaskSet, NoCall, NoTask
<1>4. GhostOK
  BY ErasureAssumption DEF Init, KeysInit, GhostOK, Destroyed, ErasureAssumption
<1>5. OpOK
  <2>1. op \in OpSet
    BY DEF Init, OpSet, Phases
  <2> QED
    BY <2>1 DEF Init, OpOK, Through
<1> QED
  BY <1>1, <1>2, <1>3, <1>4, <1>5 DEF IInv

LEMMA IndexKeeps ==
  ASSUME IInv, NEW r \in Runs, Index(r)
  PROVE  IInv'
<1>1. UNCHANGED <<keyVars, cacheVars, status, runId, runSubjects, history, call, task, op, ghosts, faults>>
  BY DEF Index
<1>2. Grows /\ KnownOK' /\ GhostOK'
  BY <1>1, KeysStay, GhostStays DEF IInv, keyVars, GhostOK
<1>3. RunsOK' /\ CallOK' /\ TaskOK'
  BY <1>1, <1>2, RunsKept, CallGrows, TaskGrows DEF IInv
<1> QED
  BY <1>1, <1>2, <1>3, CacheStays, OpStays DEF IInv

LEMMA Unchanged == IInv /\ UNCHANGED vars => IInv'
<1> SUFFICES ASSUME IInv, UNCHANGED vars PROVE IInv'
  OBVIOUS
<1>1. UNCHANGED <<keyVars, cacheVars, runVars, call, task, op, ghosts, faults>>
  BY DEF vars
<1> QED
  BY <1>1, KeysStay, GhostStays, RunsGrow, CallGrows, TaskGrows, CacheStays, OpStays
  DEF IInv, runVars, keyVars, GhostOK

LEMMA NextIInv == IInv /\ ListedOK /\ [Next]_vars => IInv'
BY BeginStartKeeps, SealInputKeeps, StartAcceptedKeeps, StartFailsKeeps, StartActivityKeeps,
   ProduceOutputKeeps, DescribeKeeps, SealDescribedKeeps, CloseKeeps, RestartKeeps, RequestKeeps,
   ListExecutionsKeeps, ListingFailsKeeps, DeleteExecutionKeeps, EraseCachedKeeps, IndexKeeps, Unchanged
DEF Next, ErasureStep, StartStep, ActivityStep

LEMMA ServedBefore ==
  ASSUME NEW o \in OpSet, NEW s, NEW surface
  PROVE  Served(o, s, surface).before = o.before
<1> DEFINE t == o.todo \ {s}
           p == NextSurface(o.surfaces, surface)
<1>1. \/ Served(o, s, surface) = [o EXCEPT !.phase = surface, !.todo = t, !.plan = {}]
      \/ Served(o, s, surface) = [o EXCEPT !.phase = p, !.todo = o.subjects, !.plan = {}]
  BY DEF Served, OpSet
<1> HIDE DEF t, p
<1> QED
  BY <1>1 DEF OpSet

LEMMA PlanLessBefore ==
  ASSUME NEW o \in OpSet, NEW r
  PROVE  PlanLess(o, r).before = o.before
BY ServedBefore DEF PlanLess, OpSet

\* Until the next request the operation keeps what it speaks of.
LEMMA BeforeStays ==
  ASSUME IInv, Next, ~\E q \in Requests : Request(q)
  PROVE  op'.before = op.before
<1>1. op \in OpSet
  BY DEF IInv, OpOK
<1>2. ASSUME NEW s \in Subjects, ListExecutions(s) PROVE op'.before = op.before
  <2>1. PICK found, listed, plan :
          op' = IF op.dry \/ plan = {} THEN Served(Caveat(op, s, Excluded(found, listed, plan)), s, "executions")
                ELSE [Caveat(op, s, Excluded(found, listed, plan)) EXCEPT !.phase = "deleting", !.plan = plan]
    BY <1>2 DEF ListExecutions
  <2> DEFINE o == Caveat(op, s, Excluded(found, listed, plan))
  <2>2. o \in OpSet /\ o.before = op.before
    BY <1>1, NotedFacts DEF Excluded
  <2> HIDE DEF o
  <2>3. op' = Served(o, s, "executions") \/ op' = [o EXCEPT !.phase = "deleting", !.plan = plan]
    BY <2>1 DEF o
  <2>4. CASE op' = Served(o, s, "executions")
    BY <2>2, <2>4, ServedBefore
  <2>5. CASE op' = [o EXCEPT !.phase = "deleting", !.plan = plan]
    BY <2>2, <2>5 DEF OpSet
  <2> QED
    BY <2>3, <2>4, <2>5
<1>3. ASSUME NEW s \in Subjects, ListingFails(s) PROVE op'.before = op.before
  <2> DEFINE o == Flawed(op, s)
  <2>1. o \in OpSet /\ o.before = op.before
    BY <1>1, NotedFacts
  <2>2. op' = Served(o, s, "executions")
    BY <1>3 DEF ListingFails
  <2> HIDE DEF o
  <2> QED
    BY <2>1, <2>2, ServedBefore
<1>4. ASSUME NEW s \in Subjects, EraseCached(s) PROVE op'.before = op.before
  BY <1>1, <1>4, ServedBefore DEF EraseCached
<1>5. ASSUME NEW r \in Runs, DeleteExecution(r) PROVE op'.before = op.before
  <2>1. runSubjects[r] # {} /\ runSubjects[r] \subseteq Subjects
    BY <1>5 DEF DeleteExecution, IInv, OpOK, RunsOK
  <2>2. Planned(r) \in Subjects
    BY <2>1 DEF Planned
  <2> DEFINE o == Flawed(op, Planned(r))
  <2>3. o \in OpSet /\ o.before = op.before
    BY <1>1, <2>2, NotedFacts
  <2>4. op' = PlanLess(op, r) \/ op' = PlanLess(o, r)
    BY <1>5 DEF DeleteExecution
  <2> HIDE DEF o
  <2> QED
    BY <1>1, <2>3, <2>4, PlanLessBefore
<1> QED
  BY <1>2, <1>3, <1>4, <1>5
  DEF Next, ErasureStep, StartStep, ActivityStep, BeginStart, SealInput, StartAccepted, StartFails,
      StartActivity, ProduceOutput, Describe, SealDescribed, Index, Close, Restart

LEMMA NextListed == IInv /\ ListedOK /\ [Next]_vars => ListedOK'
<1> SUFFICES ASSUME IInv, ListedOK, [Next]_vars PROVE ListedOK'
  OBVIOUS
<1>1. CASE UNCHANGED vars
  BY <1>1 DEF ListedOK, vars, runVars, Started
<1>2. ASSUME Next PROVE indexed \subseteq indexed' /\ indexed' \subseteq Started'
  <2>1. ASSUME NEW r \in Runs, NEW s \in {"closed", "deleted"}, status' = [status EXCEPT ![r] = s],
               UNCHANGED indexed
        PROVE  indexed' \subseteq Started'
    BY <2>1 DEF IInv, RunsOK, ListedOK, Started
  <2>2. CASE UNCHANGED <<status, indexed>>
    BY <2>2 DEF ListedOK, Started
  <2>3. ASSUME NEW c \in Callers, NEW r \in Runs, StartAccepted(c, r)
        PROVE  indexed' = indexed /\ indexed' \subseteq Started'
    BY <2>3 DEF StartAccepted, IInv, RunsOK, ListedOK, Started
  <2>4. ASSUME NEW r \in Runs, Index(r) PROVE indexed \subseteq indexed' /\ indexed' \subseteq Started'
    BY <2>4 DEF Index, ListedOK, Started
  <2>5. ASSUME NEW r \in Runs, Close(r) \/ DeleteExecution(r)
        PROVE  indexed' = indexed /\ indexed' \subseteq Started'
    BY <2>1, <2>2, <2>5 DEF Close, DeleteExecution, Target
  <2> QED
    BY <1>2, <2>2, <2>3, <2>4, <2>5
    DEF Next, ErasureStep, StartStep, ActivityStep, BeginStart, SealInput, StartFails, StartActivity,
        ProduceOutput, Describe, SealDescribed, Restart, Request, ListExecutions, ListingFails,
        EraseCached, runVars
<1>3. ASSUME NEW q \in Requests, Request(q) PROVE op'.before = indexed
  BY <1>3 DEF Request
<1> QED
  BY <1>1, <1>2, <1>3, BeforeStays DEF ListedOK

LEMMA Invariant == Spec => []IInv
<1>1. Init => ListedOK
  BY DEF Init, ListedOK
<1> QED
  BY <1>1, InitIInv, NextIInv, NextListed, PTL DEF Spec

LEMMA ListedInvariant == Spec => []ListedOK
<1>1. Init => ListedOK
  BY DEF Init, ListedOK
<1> QED
  BY <1>1, InitIInv, NextIInv, NextListed, PTL DEF Spec

\* Every variable keeps its type.
THEOREM TypeCorrect == Spec => []TypeOK
<1>1. IInv /\ ListedOK => TypeOK
  BY DEF IInv, ListedOK, KnownOK, RunsOK, CallOK, TaskOK, GhostOK, CacheOK, OpOK, TypeOK,
     CallSet, TaskSet, OpSet, Destroyed
<1> QED
  BY <1>1, Invariant, ListedInvariant, PTL

\* Destroying a subject's key reaches every payload of the subject, and of
\* no other, whichever process sealed it, while the workflow id belongs to
\* the subjects of the run.
THEOREM ShredExact == Spec => []ShredReachesExactly
<1>1. IInv => ShredReachesExactly
  <2> SUFFICES ASSUME IInv, NEW r \in Retained, bound[runId[r]] = {runSubjects[r]}, NEW kid \in history[r]
               PROVE  /\ kid = runSubjects[r]
                      /\ Readable(kid) <=> runSubjects[r] \cap erased = {}
    BY DEF ShredReachesExactly
  <2>1. Sealed(kid, runId[r]) /\ kid \in SUBSET Subjects
    BY DEF IInv, RunsOK, Retained
  <2>2. kid = runSubjects[r]
    BY <2>1 DEF Sealed
  <2>3. \A s \in kid : keystore[s] \in {"live", "destroyed"}
    BY <2>1 DEF Sealed, IInv, KnownOK, KeysTypeOK
  <2>4. \A s \in kid : s \in erased <=> keystore[s] = "destroyed"
    BY <2>1 DEF IInv, GhostOK, Destroyed
  <2> QED
    BY <2>2, <2>3, <2>4 DEF Readable
<1> QED
  BY <1>1, Invariant, PTL

\* A receipt that notes no failure and no warning for a subject is true:
\* every execution of the subject that had started is gone.
THEOREM ReceiptHonest == Spec => []CleanReceipt
<1>1. IInv => CleanReceipt
  BY DEF IInv, OpOK, Through, Covered, CleanReceipt
<1> QED
  BY <1>1, Invariant, PTL

\* The cache's subject index is exact.
THEOREM CacheIndexExact == Spec => []IndexExact
<1>1. IInv => IndexExact
  BY DEF IInv, CacheOK
<1> QED
  BY <1>1, Invariant, PTL
-----------------------------------------------------------------------------
(* What an erasure may destroy *)

Executions == \A r \in Runs : status'[r] = "deleted" /\ status[r] # "deleted" =>
  status[r] = "closed" /\ ~op.dry /\ runSubjects[r] \subseteq op.subjects
CacheRecords == \A k \in stored \ stored' : ~op.dry /\ recordSubjects[k] \cap op.subjects # {}
Keys == \A s \in Subjects : keystore'[s] = "destroyed" /\ keystore[s] # "destroyed" =>
  ~op'.dry /\ s \in op'.subjects

LEMMA KeysOnlyMade ==
  ASSUME IInv, NEW S \in SUBSET Subjects, Seal(S) \/ SealThrows(S)
  PROVE  Keys
<1>1. PICK M \in SUBSET Subjects : keystore' = Minted(M)
  <2>1. CASE Seal(S)
    BY <2>1 DEF Seal
  <2>2. CASE SealThrows(S)
    BY <2>2 DEF SealThrows
  <2> QED
    BY <2>1, <2>2
<1> QED
  BY <1>1 DEF Keys, Minted

LEMMA StartsDestroyNothing ==
  ASSUME IInv, NEW c \in Callers, StartStep(c) \/ \E id \in WorkflowIds, S \in Attributions : BeginStart(c, id, S)
  PROVE  Executions /\ CacheRecords /\ Keys
<1>1. CASE StartFails(c) \/ \E id \in WorkflowIds, S \in Attributions : BeginStart(c, id, S)
  BY <1>1 DEF StartFails, BeginStart, Executions, CacheRecords, Keys, runVars, cacheVars, keyVars
<1>2. CASE \E r \in Runs : StartAccepted(c, r)
  BY <1>2 DEF IInv, RunsOK, StartAccepted, Executions, CacheRecords, Keys, cacheVars, keyVars
<1>3. CASE SealInput(c)
  <2>1. PICK K \in known[CallerProc[c]][call[c].id] : Seal(K) \/ SealThrows(K)
    BY <1>3 DEF SealInput
  <2>2. call[c].id \in WorkflowIds
    BY <1>3, CallShape DEF IInv, SealInput
  <2>3. CallerProc[c] \in Procs
    BY ErasureAssumption DEF ErasureAssumption
  <2>4. K \in SUBSET Subjects
    BY <2>1, <2>2, <2>3, BoundSubsets DEF IInv, KnownOK
  <2>5. Keys
    BY <2>1, <2>4, KeysOnlyMade
  <2> QED
    BY <1>3, <2>5 DEF SealInput, Executions, CacheRecords, runVars, cacheVars
<1> QED
  BY <1>1, <1>2, <1>3 DEF StartStep

LEMMA SealAsDestroysNothing ==
  ASSUME IInv, NEW r \in Runs, NEW K \in SUBSET Subjects, SealAs(r, K)
  PROVE  Keys
BY KeysOnlyMade DEF SealAs

LEMMA WorkersDestroyNothing ==
  ASSUME IInv, NEW r \in Runs,
         ActivityStep(r) \/ Close(r) \/ \E p \in Procs : StartActivity(r, p) \/ Restart(p)
  PROVE  Executions /\ CacheRecords /\ Keys
<1>1. CASE Close(r)
  BY <1>1 DEF IInv, RunsOK, Close, Executions, CacheRecords, Keys, cacheVars, keyVars
<1>2. CASE \E p \in Procs : StartActivity(r, p) \/ Restart(p)
  BY <1>2 DEF StartActivity, Restart, Executions, CacheRecords, Keys, cacheVars, keyVars, runVars
<1>3. CASE Describe(r)
  BY <1>3 DEF Describe, Executions, CacheRecords, Keys, cacheVars, keyVars, runVars
<1>4. CASE SealDescribed(r)
  <2>1. task[r].reply \in SUBSET Subjects
    BY <1>4, TaskShape DEF IInv, SealDescribed
  <2>2. Keys
    BY <1>4, <2>1, SealAsDestroysNothing DEF SealDescribed
  <2> QED
    BY <1>4, <2>2 DEF SealDescribed, Executions, CacheRecords, cacheVars
<1>5. CASE ProduceOutput(r)
  <2>1. stored \subseteq stored' /\ UNCHANGED status
    BY <1>5 DEF ProduceOutput, Set, cacheVars
  <2>2. Keys
    <3>1. CASE known[task[r].proc][runId[r]] = {}
      BY <1>5, <3>1 DEF ProduceOutput, Keys
    <3>2. CASE known[task[r].proc][runId[r]] # {}
      <4>1. PICK K \in known[task[r].proc][runId[r]] : SealAs(r, K)
        BY <1>5, <3>2 DEF ProduceOutput
      <4>2. task[r].proc \in Procs /\ runId[r] \in WorkflowIds
        BY <1>5, TaskShape DEF IInv, RunsOK, ProduceOutput
      <4>3. K \in SUBSET Subjects
        BY <4>1, <4>2, BoundSubsets DEF IInv, KnownOK
      <4> QED
        BY <4>1, <4>3, SealAsDestroysNothing
    <3> QED
      BY <3>1, <3>2
  <2> QED
    BY <2>1, <2>2 DEF Executions, CacheRecords
<1> QED
  BY <1>1, <1>2, <1>3, <1>4, <1>5 DEF ActivityStep

LEMMA RequestDestroysItsKeys ==
  ASSUME IInv, NEW q \in Requests, Request(q)
  PROVE  Executions /\ CacheRecords /\ Keys
<1>1. PICK failing \in SUBSET q.subjects :
        /\ IF failing = {} THEN UNCHANGED faults ELSE "keystore" \in q.surfaces /\ Fault
        /\ LET shred == IF q.dry \/ "keystore" \notin q.surfaces THEN {} ELSE q.subjects \ failing
           IN  keystore' = Shredded(shred) /\ erased' = erased \cup shred
        /\ op' = [phase |-> NextSurface(q.surfaces, "keystore"), subjects |-> q.subjects, dry |-> q.dry,
                  surfaces |-> q.surfaces, before |-> indexed, todo |-> q.subjects, plan |-> {},
                  flawed |-> failing, caveats |-> {}]
  BY DEF Request
<1>2. op'.subjects = q.subjects /\ op'.dry = q.dry
  BY <1>1
<1>3. Keys
  <2> DEFINE S == IF q.dry \/ "keystore" \notin q.surfaces THEN {} ELSE q.subjects \ failing
  <2>1. keystore' = Shredded(S)
    BY <1>1
  <2>2. ASSUME NEW s \in S PROVE ~q.dry /\ s \in q.subjects
    BY <2>2
  <2> HIDE DEF S
  <2> QED
    BY <1>2, <2>1, <2>2 DEF Shredded, Keys
<1> QED
  BY <1>3 DEF Request, Executions, CacheRecords, runVars, cacheVars

LEMMA ErasureDestroysTheSubjects ==
  ASSUME IInv, ErasureStep \/ \E s \in Subjects : ListingFails(s)
  PROVE  Executions /\ CacheRecords /\ Keys
<1>1. CASE \E s \in Subjects : ListExecutions(s) \/ ListingFails(s)
  BY <1>1 DEF ListExecutions, ListingFails, Executions, CacheRecords, Keys, runVars, cacheVars, keyVars
<1>2. ASSUME NEW s \in Subjects, EraseCached(s) PROVE Executions /\ CacheRecords /\ Keys
  <2>1. s \in op.subjects
    BY <1>2 DEF EraseCached, IInv, OpOK
  <2>2. stored # stored' => ~op.dry /\ stored' = stored \ (subjectIndex[s] \cap stored)
    BY <1>2 DEF EraseCached, EraseFromCache, cacheVars
  <2>3. \A k \in subjectIndex[s] \cap stored : s \in recordSubjects[k]
    BY DEF IInv, CacheOK, IndexExact
  <2>4. CacheRecords
    BY <2>1, <2>2, <2>3 DEF CacheRecords
  <2> QED
    BY <1>2, <2>4 DEF EraseCached, Executions, Keys, runVars, keyVars
<1>3. ASSUME NEW r \in Runs, DeleteExecution(r) PROVE Executions /\ CacheRecords /\ Keys
  <2>1. /\ op.phase = "deleting" /\ r \in op.plan /\ UNCHANGED <<keyVars, cacheVars>>
        /\ status' = [status EXCEPT ![r] = "deleted"] \/ UNCHANGED status
    BY <1>3 DEF DeleteExecution, Target
  <2>2. status[r] = "closed" /\ ~op.dry /\ runSubjects[r] \subseteq op.subjects
    BY <2>1 DEF IInv, OpOK
  <2>3. \A q \in Runs : q # r => status'[q] = status[q]
    BY <2>1 DEF IInv, RunsOK
  <2> QED
    BY <2>1, <2>2, <2>3 DEF Executions, CacheRecords, Keys, keyVars, cacheVars
<1> QED
  BY <1>1, <1>2, <1>3 DEF ErasureStep

\* An execution is deleted only once it is closed and if all its subjects are
\* of the request, a record only for a subject of it, and a key likewise; a
\* dry run destroys nothing.
THEOREM OnlyTheSubjects == Spec => NoCollateral
<1>1. ASSUME IInv, [Next]_vars PROVE (Executions /\ CacheRecords /\ Keys) \/ UNCHANGED vars
  <2>1. CASE \E p \in Procs : Restart(p)
    BY <2>1 DEF Restart, Executions, CacheRecords, Keys, cacheVars, keyVars, runVars
  <2>2. CASE \E r \in Runs : Index(r)
    BY <2>2 DEF Index, Executions, CacheRecords, Keys, cacheVars, keyVars
  <2> QED
    BY <1>1, <2>1, <2>2, StartsDestroyNothing, WorkersDestroyNothing, RequestDestroysItsKeys,
       ErasureDestroysTheSubjects
    DEF Next
<1>2. IInv /\ [Next]_vars =>
        [/\ \A r \in Runs : status'[r] = "deleted" /\ status[r] # "deleted" =>
               status[r] = "closed" /\ ~op.dry /\ runSubjects[r] \subseteq op.subjects
         /\ \A k \in stored \ stored' : ~op.dry /\ recordSubjects[k] \cap op.subjects # {}
         /\ \A s \in Subjects : keystore'[s] = "destroyed" /\ keystore[s] # "destroyed" =>
               ~op'.dry /\ s \in op'.subjects]_vars
  BY <1>1 DEF Executions, CacheRecords, Keys
<1> QED
  BY <1>2, Invariant, PTL DEF Spec, NoCollateral
=============================================================================
