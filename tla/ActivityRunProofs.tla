------------------------- MODULE ActivityRunProofs -------------------------
(***************************************************************************)
(* Theorems about every worker: an activity returns, and the cache keeps,  *)
(* only what the version that produced it accepts; a cancelled activity    *)
(* begins nothing; and no trace is lost before the transport is closed.    *)
(***************************************************************************)
EXTENDS ActivityRun, TLAPS

Phases == Settled \cup InLoop \cup
  {"scheduled", "retrying", "preparing", "lookup", "serving", "queued"}
InFlight == InLoop \cup {"preparing", "lookup", "serving", "queued"}
Records == [output : Outputs, schema : {SchemaHash[a] : a \in Activities}, by : Activities]

\* What an activity a has accepted in phase p.
Accepts(a, p) ==
  CASE p \in {"serving", "finalizing"} -> Parses[a] \cap Checked[a]
    [] p \in {"storing", "completed"} -> Parses[a] \cap Checked[a] \cap Finalized[a]
    [] OTHER -> Outputs \cup {None}

\* The values an activity a may have in phase p: the attempt t, e executions,
\* the session s, v repairs, r retries and the output o.
Fits(a, p, t, e, s, v, r, o) ==
  /\ t <= MaxAttempts[a]
  /\ p \in {"scheduled", "retrying"} => t < MaxAttempts[a]
  /\ e <= 2 * t
  /\ p \in InFlight /\ s # "none" => e < 2 * t
  /\ v <= ValidationRetries[a]
  /\ r <= TransientRetries
  /\ p = "backoff" => r < TransientRetries
  /\ o \in Accepts(a, p)

ActTypeOK ==
  /\ phase \in [Activities -> Phases]
  /\ \A f \in {attempt, executions, repair, retry} : f \in [Activities -> Nat]
  /\ session \in [Activities -> Sessions]
  /\ out \in [Activities -> Outputs \cup {None}]

ActOK ==
  /\ ActTypeOK
  /\ \A a \in Activities :
       Fits(a, phase[a], attempt[a], executions[a], session[a], repair[a], retry[a], out[a])

\* A record was accepted by the activity that wrote it, under its schema.
CacheOK ==
  /\ cache \in [Sessions -> {NoRecord} \cup Records]
  /\ \A s \in Sessions : cache[s] # NoRecord =>
       LET a == cache[s].by
       IN  /\ cache[s].schema = SchemaHash[a]
           /\ cache[s].output \in Parses[a] \cap Checked[a] \cap Finalized[a]

\* Between them the flushes hold what drain() owes.
DrainOwes ==
  /\ drain = "waiting" => ahead > 0 /\ owed \subseteq submitted \cup buffer \cup flushing
  /\ drain # "waiting" => ahead = 0
  /\ drain = "flushing" => owed \subseteq submitted \cup draining
  /\ draining # {} => drain = "flushing"
  /\ flushing # {} => jobs > 0

TraceOK == TraceTypeOK /\ TracesConserved /\ DrainOwes /\ DrainCovers

IInv == TraceOK /\ ActOK /\ CacheOK /\ cancelled \subseteq Activities
-----------------------------------------------------------------------------
(* The traces *)

LEMMA TraceEndsKeeps ==
  ASSUME TraceOK, NEW trace, TraceEnds(trace)
  PROVE  TraceOK'
BY DEF TraceOK, TraceTypeOK, TracesConserved, DrainOwes, DrainCovers, TraceEnds, drainVars

LEMMA FlushSettlesKeeps ==
  ASSUME TraceOK, NEW b, FlushSettles(b), jobs > 0, UNCHANGED ended,
         submitted \subseteq submitted', submitted' \subseteq ended,
         drain # "closed" => buffer \cup flushing \subseteq submitted' \cup b,
         b \subseteq ended, outages' \in 0 .. MaxOutages
  PROVE  TraceOK'
<1>1. CASE drain = "waiting" /\ ahead = 1
  <2>1. /\ ahead' = 0 /\ jobs' = jobs - 1 /\ flushing' = {} /\ draining' = b /\ buffer' = {}
        /\ drain' = IF b = {} THEN "closing" ELSE "flushing"
        /\ owed' = owed
    BY <1>1 DEF FlushSettles, DrainTakes
  <2>2. owed \subseteq submitted' \cup b
    BY <1>1 DEF TraceOK, DrainOwes
  <2>3. draining = {}
    BY <1>1 DEF TraceOK, DrainOwes
  <2>4. TraceTypeOK'
    BY <2>1 DEF TraceOK, TraceTypeOK
  <2>5. TracesConserved'
    BY <1>1, <2>1, <2>3 DEF TraceOK, TracesConserved
  <2> QED
    BY <2>1, <2>2, <2>4, <2>5 DEF TraceOK, DrainOwes, DrainCovers
<1>2. CASE ~(drain = "waiting" /\ ahead = 1)
  <2>1. /\ jobs' = jobs - 1 /\ flushing' = {} /\ buffer' = b
        /\ ahead' = IF drain = "waiting" THEN ahead - 1 ELSE ahead
        /\ UNCHANGED <<drain, draining, owed>>
    BY <1>2 DEF FlushSettles
  <2>2. TraceTypeOK'
    BY <1>2, <2>1 DEF TraceOK, TraceTypeOK, DrainOwes
  <2>3. TracesConserved'
    BY <2>1 DEF TraceOK, TracesConserved
  <2>4. DrainOwes' /\ DrainCovers'
    BY <1>2, <2>1 DEF TraceOK, TraceTypeOK, DrainOwes, DrainCovers
  <2> QED
    BY <2>2, <2>3, <2>4 DEF TraceOK
<1> QED
  BY <1>1, <1>2

LEMMA TraceNextKeeps ==
  ASSUME TraceOK, TraceNext
  PROVE  TraceOK'
<1> USE DEF TraceNext
<1>1. CASE FlushBegins
  <2>1. CASE buffer = {}
    BY <1>1, <2>1, FlushSettlesKeeps DEF FlushBegins, TraceOK, TraceTypeOK
  <2>2. CASE buffer # {}
    <3>1. /\ jobs > 0 /\ flushing = {} /\ flushing' = buffer /\ buffer' = {}
          /\ UNCHANGED <<jobs, drain, ahead, draining, owed, submitted, outages>>
      BY <1>1, <2>2 DEF FlushBegins, drainVars
    <3> QED
      BY <3>1 DEF TraceOK, TraceTypeOK, TracesConserved, DrainOwes, DrainCovers
  <2> QED
    BY <2>1, <2>2
<1>2. CASE Submit
  <2>1. PICK trace \in flushing :
          /\ submitted' = Taken(trace)
          /\ IF flushing = {trace} THEN FlushSettles(buffer)
             ELSE flushing' = flushing \ {trace} /\ UNCHANGED <<buffer, jobs, drainVars>>
    BY <1>2 DEF Submit
  <2>2. /\ submitted \subseteq submitted' /\ submitted' \subseteq ended
        /\ drain # "closed" => trace \in submitted'
    BY <2>1 DEF Taken, TraceOK, TraceTypeOK
  <2>3. CASE flushing = {trace}
    BY <1>2, <2>1, <2>2, <2>3, FlushSettlesKeeps DEF Submit, TraceOK, TraceTypeOK, DrainOwes
  <2>4. CASE flushing # {trace}
    BY <1>2, <2>1, <2>2, <2>4
    DEF Submit, drainVars, TraceOK, TraceTypeOK, TracesConserved, DrainOwes, DrainCovers
  <2> QED
    BY <2>3, <2>4
<1>3. CASE SubmitThrows
  <2>1. PICK trace \in flushing : submitted' \in {submitted, Taken(trace)}
    BY <1>3 DEF SubmitThrows
  <2>2. submitted \subseteq submitted' /\ submitted' \subseteq ended
    BY <2>1 DEF Taken, TraceOK, TraceTypeOK
  <2>3. outages' \in 0 .. MaxOutages
    BY <1>3, TraceAssumption DEF SubmitThrows, Outage, TraceOK, TraceTypeOK
  <2> QED
    BY <1>3, <2>1, <2>2, <2>3, FlushSettlesKeeps
    DEF SubmitThrows, Rebuffered, TraceOK, TraceTypeOK, DrainOwes
<1>4. CASE BeginDrain
  <2>1. CASE jobs = 0
    <3>1. /\ drain = "none" /\ owed' = ended /\ draining' = buffer /\ buffer' = {}
          /\ drain' = IF buffer = {} THEN "closing" ELSE "flushing"
          /\ UNCHANGED <<ahead, jobs, flushing, submitted, outages>>
      BY <1>4, <2>1 DEF BeginDrain, DrainTakes
    <3>2. flushing = {} /\ draining = {} /\ ended \subseteq submitted \cup buffer
      BY <2>1, <3>1 DEF TraceOK, DrainOwes, TracesConserved
    <3> QED
      BY <3>1, <3>2 DEF TraceOK, TraceTypeOK, TracesConserved, DrainOwes, DrainCovers
  <2>2. CASE jobs # 0
    <3>1. /\ drain = "none" /\ owed' = ended /\ drain' = "waiting" /\ ahead' = jobs
          /\ UNCHANGED <<draining, buffer, jobs, flushing, submitted, outages>>
      BY <1>4, <2>2 DEF BeginDrain
    <3>2. draining = {} /\ ended \subseteq submitted \cup buffer \cup flushing
      BY <3>1 DEF TraceOK, DrainOwes, TracesConserved
    <3> QED
      BY <2>2, <3>1, <3>2 DEF TraceOK, TraceTypeOK, TracesConserved, DrainOwes, DrainCovers
  <2> QED
    BY <2>1, <2>2
<1>5. CASE DrainSubmit
  BY <1>5 DEF DrainSubmit, TraceOK, TraceTypeOK, TracesConserved, DrainOwes, DrainCovers
<1>6. CASE DrainThrows
  <2>1. outages' \in 0 .. MaxOutages
    BY <1>6, TraceAssumption DEF DrainThrows, Outage, TraceOK, TraceTypeOK
  <2> QED
    BY <1>6, <2>1
    DEF DrainThrows, Rebuffered, TraceOK, TraceTypeOK, TracesConserved, DrainOwes, DrainCovers
<1>7. CASE ShutDown
  BY <1>7 DEF ShutDown, TraceOK, TraceTypeOK, TracesConserved, DrainOwes, DrainCovers
<1> QED
  BY <1>1, <1>2, <1>3, <1>4, <1>5, <1>6, <1>7

LEMMA TraceStays == ASSUME TraceOK, UNCHANGED traceVars PROVE TraceOK'
BY DEF traceVars, drainVars, TraceOK, TraceTypeOK, TracesConserved, DrainOwes, DrainCovers
-----------------------------------------------------------------------------
(* The moves of an activity *)

LEMMA Constants ==
  ASSUME NEW a \in Activities
  PROVE  /\ MaxAttempts[a] \in Nat \ {0} /\ ValidationRetries[a] \in Nat /\ TransientRetries \in Nat
         /\ Session[a] \in Sessions
         /\ Parses[a] \subseteq Outputs /\ Checked[a] \subseteq Outputs /\ Finalized[a] \subseteq Outputs
BY ActivityAssumption DEF ActivityAssumption

LEMMA Values ==
  ASSUME ActOK, NEW a \in Activities
  PROVE  /\ phase[a] \in Phases /\ session[a] \in Sessions /\ out[a] \in Outputs \cup {None}
         /\ attempt[a] \in Nat /\ executions[a] \in Nat /\ repair[a] \in Nat /\ retry[a] \in Nat
         /\ Fits(a, phase[a], attempt[a], executions[a], session[a], repair[a], retry[a], out[a])
BY DEF ActOK, ActTypeOK

LEMMA AcceptsNothing ==
  ASSUME NEW a, NEW p, p \notin {"serving", "finalizing", "storing", "completed"}
  PROVE  Accepts(a, p) = Outputs \cup {None}
BY DEF Accepts

LEMMA Moves ==
  ASSUME ActOK, NEW a \in Activities, NEW p \in Phases, NEW t \in Nat, NEW e \in Nat,
         NEW s \in Sessions, NEW v \in Nat, NEW r \in Nat, NEW o \in Outputs \cup {None},
         phase' = [phase EXCEPT ![a] = p], attempt' = [attempt EXCEPT ![a] = t],
         executions' = [executions EXCEPT ![a] = e], session' = [session EXCEPT ![a] = s],
         repair' = [repair EXCEPT ![a] = v], retry' = [retry EXCEPT ![a] = r],
         out' = [out EXCEPT ![a] = o], Fits(a, p, t, e, s, v, r, o)
  PROVE  ActOK'
<1>1. ActTypeOK'
  BY DEF ActOK, ActTypeOK
<1>2. ASSUME NEW b \in Activities
      PROVE  Fits(b, phase'[b], attempt'[b], executions'[b], session'[b], repair'[b], retry'[b], out'[b])
  <2>1. CASE b = a
    BY <2>1 DEF ActOK, ActTypeOK
  <2>2. CASE b # a
    <3>1. /\ phase'[b] = phase[b] /\ attempt'[b] = attempt[b] /\ executions'[b] = executions[b]
          /\ session'[b] = session[b] /\ repair'[b] = repair[b] /\ retry'[b] = retry[b]
          /\ out'[b] = out[b]
      BY <2>2 DEF ActOK, ActTypeOK
    <3> QED
      BY <3>1 DEF ActOK
  <2> QED
    BY <2>1, <2>2
<1> QED
  BY <1>1, <1>2 DEF ActOK

LEMMA SameValue ==
  ASSUME NEW f, NEW S, f \in [Activities -> S], NEW a \in Activities
  PROVE  f = [f EXCEPT ![a] = f[a]]
OBVIOUS

\* An activity in flight moves on within its execution.
LEMMA GoesOn ==
  ASSUME ActOK, NEW a \in Activities, NEW p \in InFlight, phase[a] \in InFlight,
         NEW v \in Nat, NEW r \in Nat, NEW o \in Accepts(a, p),
         v <= ValidationRetries[a], r <= TransientRetries,
         p = "backoff" => r < TransientRetries,
         phase' = [phase EXCEPT ![a] = p], repair' = [repair EXCEPT ![a] = v],
         retry' = [retry EXCEPT ![a] = r], out' = [out EXCEPT ![a] = o],
         UNCHANGED <<attempt, executions, session>>
  PROVE  ActOK'
<1>1. o \in Outputs \cup {None}
  BY Constants DEF Accepts
<1>2. p \in Phases /\ p \notin {"scheduled", "retrying"}
  BY DEF InFlight, Phases, InLoop
<1>3. Fits(a, p, attempt[a], executions[a], session[a], v, r, o)
  BY <1>2, Values DEF Fits
<1>4. /\ attempt' = [attempt EXCEPT ![a] = attempt[a]]
      /\ executions' = [executions EXCEPT ![a] = executions[a]]
      /\ session' = [session EXCEPT ![a] = session[a]]
  BY SameValue DEF ActOK, ActTypeOK
<1> QED
  BY <1>1, <1>2, <1>3, <1>4, Values, Moves

LEMMA RejectsKeeps ==
  ASSUME ActOK, NEW a \in Activities, NEW error, phase[a] \in InFlight,
         Rejects(a, error), UNCHANGED attempt
  PROVE  ActOK'
<1>1. attempt' = [attempt EXCEPT ![a] = attempt[a]]
  BY SameValue DEF ActOK, ActTypeOK
<1>2. Session[a] \in Sessions /\ "none" \in Sessions
  BY Constants DEF Sessions
<1>3. CASE error = "session_gone" /\ session[a] = "reference"
  <2>1. Execute(a, "none")
    BY <1>3 DEF Rejects, Uncached
  <2>2. executions[a] + 1 <= 2 * attempt[a]
    BY <1>3, Values DEF Fits
  <2>3. Fits(a, "preparing", attempt[a], executions[a] + 1, "none", 0, 0, None)
    <3>1. None \in Accepts(a, "preparing")
      BY AcceptsNothing
    <3> QED
      BY <2>2, <3>1, Values, Constants DEF Fits
  <2>4. "preparing" \in Phases /\ None \in Outputs \cup {None} /\ 0 \in Nat
    BY DEF Phases
  <2>5. attempt[a] \in Nat /\ executions[a] + 1 \in Nat
    BY Values
  <2>6. executions' = [executions EXCEPT ![a] = executions[a] + 1]
    BY <2>1 DEF Execute
  <2> QED
    BY <1>1, <1>2, <2>1, <2>3, <2>4, <2>5, <2>6, Moves DEF Execute, Locals, Go
<1>4. CASE ~(error = "session_gone" /\ session[a] = "reference")
  <2> DEFINE p == IF error = "cancelled" THEN "cancelled"
                  ELSE IF error \in Terminal \/ attempt[a] = MaxAttempts[a] THEN "failed"
                  ELSE "retrying"
  <2>1. phase' = [phase EXCEPT ![a] = p] /\ Locals(a, Session[a], None) /\ UNCHANGED executions
    BY <1>4 DEF Rejects, Go
  <2>2. p \in Phases /\ p \notin InFlight /\ p # "scheduled"
    BY DEF Phases, Settled, InFlight, InLoop
  <2>3. p = "retrying" => attempt[a] < MaxAttempts[a]
    BY Values, Constants DEF Fits
  <2>4. None \in Accepts(a, p)
    <3>1. p \notin {"serving", "finalizing", "storing", "completed"}
      OBVIOUS
    <3> HIDE DEF p
    <3> QED
      BY <3>1, AcceptsNothing
  <2>5. Fits(a, p, attempt[a], executions[a], Session[a], 0, 0, None)
    <3>1. p # "backoff"
      BY <2>2 DEF InFlight, InLoop
    <3> HIDE DEF p
    <3> QED
      BY <2>2, <2>3, <2>4, <3>1, Values, Constants DEF Fits
  <2>6. executions' = [executions EXCEPT ![a] = executions[a]]
    BY <2>1, SameValue DEF ActOK, ActTypeOK
  <2> HIDE DEF p
  <2> QED
    BY <1>1, <1>2, <2>1, <2>2, <2>5, <2>6, Values, Moves DEF Locals
<1> QED
  BY <1>3, <1>4

LEMMA ReturnKeeps ==
  ASSUME ActOK, NEW a \in Activities, NEW o \in Accepts(a, "completed"), phase[a] \in InFlight,
         Return(a, o)
  PROVE  ActOK'
<1>1. Session[a] \in Sessions /\ o \in Outputs
  BY Constants DEF Accepts
<1>2. Fits(a, "completed", attempt[a], executions[a], Session[a], 0, 0, o)
  BY Values, Constants DEF Fits, InFlight, InLoop
<1>3. /\ attempt' = [attempt EXCEPT ![a] = attempt[a]]
      /\ executions' = [executions EXCEPT ![a] = executions[a]]
  BY SameValue DEF ActOK, ActTypeOK, Return
<1>4. "completed" \in Phases
  BY DEF Phases, Settled
<1> QED
  BY <1>1, <1>2, <1>3, <1>4, Values, Moves DEF Return, Locals, Go

LEMMA StartKeeps ==
  ASSUME ActOK, NEW a \in Activities, Start(a)
  PROVE  ActOK'
<1>1. /\ attempt[a] + 1 <= MaxAttempts[a]
      /\ executions[a] + 1 < 2 * (attempt[a] + 1)
  BY Values, Constants DEF Fits, Start
<1>2. Fits(a, "preparing", attempt[a] + 1, executions[a] + 1, Session[a], 0, 0, None)
  <2>1. None \in Accepts(a, "preparing")
    BY AcceptsNothing
  <2> QED
    BY <1>1, <2>1, Values, Constants DEF Fits
<1>3. "preparing" \in Phases /\ None \in Outputs \cup {None} /\ 0 \in Nat
  BY DEF Phases
<1>4. Session[a] \in Sessions /\ attempt[a] + 1 \in Nat /\ executions[a] + 1 \in Nat
  BY Values, Constants
<1>5. /\ attempt' = [attempt EXCEPT ![a] = attempt[a] + 1]
      /\ executions' = [executions EXCEPT ![a] = executions[a] + 1]
  BY DEF Start, Execute
<1> QED
  BY <1>2, <1>3, <1>4, <1>5, Moves DEF Start, Execute, Locals, Go

LEMMA GiveUpKeeps ==
  ASSUME ActOK, NEW a \in Activities, GiveUp(a)
  PROVE  ActOK'
<1>1. Fits(a, "cancelled", attempt[a], executions[a], session[a], repair[a], retry[a], out[a])
  <2>1. out[a] \in Accepts(a, "cancelled")
    BY Values, AcceptsNothing
  <2> QED
    BY <2>1, Values DEF GiveUp, Fits, InFlight, InLoop
<1>2. /\ attempt' = [attempt EXCEPT ![a] = attempt[a]]
      /\ executions' = [executions EXCEPT ![a] = executions[a]]
      /\ session' = [session EXCEPT ![a] = session[a]]
      /\ repair' = [repair EXCEPT ![a] = repair[a]]
      /\ retry' = [retry EXCEPT ![a] = retry[a]]
      /\ out' = [out EXCEPT ![a] = out[a]]
  BY SameValue DEF ActOK, ActTypeOK, GiveUp
<1>3. "cancelled" \in Phases
  BY DEF Phases, Settled
<1>4. phase' = [phase EXCEPT ![a] = "cancelled"]
  BY DEF GiveUp, Go
<1> QED
  BY <1>1, <1>2, <1>3, <1>4, Values, Moves
-----------------------------------------------------------------------------
(* The actions *)

LEMMA CacheStays == ASSUME CacheOK, UNCHANGED cache PROVE CacheOK'
BY DEF CacheOK

\* An execution that throws keeps the invariant if what it leaves in the
\* cache does.
LEMMA FailKeeps ==
  ASSUME IInv, NEW a \in Activities, NEW error, phase[a] \in InFlight, Fail(a, error), CacheOK'
  PROVE  IInv'
BY RejectsKeeps, TraceEndsKeeps DEF IInv, Fail

LEMMA ThrowKeeps ==
  ASSUME IInv, NEW a \in Activities, NEW error, phase[a] \in InFlight, Throw(a, error)
  PROVE  IInv'
BY FailKeeps, CacheStays DEF IInv, Throw

\* An action that goes on unless the activity has been cancelled.
LEMMA UnlessKeeps ==
  ASSUME IInv, NEW a \in Activities, phase[a] \in InFlight, NEW ACTION rest, Unless(a, rest), rest => IInv'
  PROVE  IInv'
BY ThrowKeeps DEF Unless

LEMMA GoesOnKeeps ==
  ASSUME IInv, NEW a \in Activities, NEW p \in InFlight, phase[a] \in InFlight,
         NEW v \in Nat, NEW r \in Nat, NEW o \in Accepts(a, p),
         v <= ValidationRetries[a], r <= TransientRetries,
         p = "backoff" => r < TransientRetries,
         phase' = [phase EXCEPT ![a] = p], repair' = [repair EXCEPT ![a] = v],
         retry' = [retry EXCEPT ![a] = r], out' = [out EXCEPT ![a] = o],
         UNCHANGED <<attempt, executions, session, cancelled, cache, traceVars>>
  PROVE  IInv'
BY GoesOn, CacheStays, TraceStays DEF IInv

\* The activity goes on to p and nothing else changes.
LEMMA OnlyGoes ==
  ASSUME IInv, NEW a \in Activities, NEW p \in InFlight, phase[a] \in InFlight,
         out[a] \in Accepts(a, p), p = "backoff" => retry[a] < TransientRetries,
         Go(a, p), UNCHANGED <<attempt, executions, session, repair, retry, out, cancelled, cache, traceVars>>
  PROVE  IInv'
<1>1. /\ repair' = [repair EXCEPT ![a] = repair[a]]
      /\ retry' = [retry EXCEPT ![a] = retry[a]]
      /\ out' = [out EXCEPT ![a] = out[a]]
  BY SameValue DEF IInv, ActOK, ActTypeOK
<1>2. repair[a] \in Nat /\ retry[a] \in Nat /\ repair[a] <= ValidationRetries[a] /\ retry[a] <= TransientRetries
  BY Values DEF IInv, Fits
<1> QED
  BY <1>1, <1>2, GoesOnKeeps DEF Go

LEMMA MissKeeps ==
  ASSUME IInv, NEW a \in Activities, phase[a] \in InFlight, Miss(a)
  PROVE  IInv'
<1>1. out[a] \in Accepts(a, "queued")
  BY Values, AcceptsNothing DEF IInv
<1> QED
  BY <1>1, OnlyGoes DEF Miss, InFlight

LEMMA CallsKeeps ==
  ASSUME IInv, NEW a \in Activities, phase[a] \in InFlight,
         NEW v \in Nat, NEW r \in Nat, v <= ValidationRetries[a], r <= TransientRetries, Calls(a, v, r)
  PROVE  IInv'
<1>1. out[a] \in Accepts(a, "calling") /\ out' = [out EXCEPT ![a] = out[a]]
  BY Values, AcceptsNothing, SameValue DEF IInv, ActOK, ActTypeOK, Calls
<1> QED
  BY <1>1, GoesOnKeeps DEF Calls, Go, InFlight, InLoop

LEMMA LookupKeeps ==
  ASSUME IInv, NEW a \in Activities, Lookup(a)
  PROVE  IInv'
<1>1. phase[a] \in InFlight
  BY DEF Lookup, InFlight
<1>2. CASE ~Found(a)
  BY <1>1, <1>2, MissKeeps DEF Lookup
<1>3. CASE Found(a)
  <2> DEFINE rest == IF Cached(a).output \notin Parses[a] THEN Throw(a, "error")
                     ELSE IF Cached(a).output \notin Checked[a] THEN Miss(a)
                     ELSE Serves(a)
  <2>1. Unless(a, rest)
    BY <1>3 DEF Lookup
  <2>2. ASSUME Cached(a).output \in Parses[a], Cached(a).output \in Checked[a], Serves(a) PROVE IInv'
    <3>1. Cached(a).output \in Accepts(a, "serving")
      BY <2>2 DEF Accepts
    <3>2. /\ repair' = [repair EXCEPT ![a] = repair[a]]
          /\ retry' = [retry EXCEPT ![a] = retry[a]]
      BY <2>2, SameValue DEF IInv, ActOK, ActTypeOK, Serves
    <3>3. repair[a] \in Nat /\ retry[a] \in Nat /\ repair[a] <= ValidationRetries[a] /\ retry[a] <= TransientRetries
      BY Values DEF IInv, Fits
    <3> QED
      BY <1>1, <2>2, <3>1, <3>2, <3>3, GoesOnKeeps DEF Go, InFlight, Serves
  <2>3. rest => IInv'
    BY <1>1, <2>2, MissKeeps, ThrowKeeps
  <2> HIDE DEF rest
  <2> QED
    BY <1>1, <2>1, <2>3, UnlessKeeps
<1> QED
  BY <1>2, <1>3

LEMMA AnswerKeeps ==
  ASSUME IInv, NEW a \in Activities, NEW o \in Outputs, Answer(a, o)
  PROVE  IInv'
<1>1. phase[a] \in InFlight
  BY DEF Answer, InFlight, InLoop
<1> DEFINE rest ==
       IF o \in Parses[a] \cap Checked[a]
       THEN /\ Go(a, "finalizing")
            /\ out' = [out EXCEPT ![a] = o]
            /\ UNCHANGED <<attempt, executions, session, repair, retry, cancelled, cache, traceVars>>
       ELSE IF Repairable(a) THEN Calls(a, repair[a] + 1, 0)
       ELSE Throw(a, "terminal")
<1>2. Unless(a, rest)
  BY DEF Answer
<1>3. repair[a] \in Nat /\ retry[a] \in Nat /\ repair[a] <= ValidationRetries[a] /\ retry[a] <= TransientRetries
  BY Values DEF IInv, Fits
<1>4. ASSUME o \in Parses[a] \cap Checked[a], rest PROVE IInv'
  <2>1. o \in Accepts(a, "finalizing")
    BY <1>4 DEF Accepts
  <2>2. /\ repair' = [repair EXCEPT ![a] = repair[a]]
        /\ retry' = [retry EXCEPT ![a] = retry[a]]
    BY <1>4, SameValue DEF IInv, ActOK, ActTypeOK
  <2> QED
    BY <1>1, <1>3, <1>4, <2>1, <2>2, GoesOnKeeps DEF Go, InFlight, InLoop
<1>5. ASSUME o \notin Parses[a] \cap Checked[a], Repairable(a), rest PROVE IInv'
  <2>1. repair[a] + 1 \in Nat /\ repair[a] + 1 <= ValidationRetries[a] /\ 0 \in Nat /\ 0 <= TransientRetries
    BY <1>3, <1>5, Constants DEF Repairable
  <2>2. Calls(a, repair[a] + 1, 0)
    BY <1>5
  <2> QED
    BY <1>1, <2>1, <2>2, CallsKeeps
<1>6. rest => IInv'
  BY <1>1, <1>4, <1>5, ThrowKeeps
<1> HIDE DEF rest
<1> QED
  BY <1>1, <1>2, <1>6, UnlessKeeps

LEMMA CallFailsKeeps ==
  ASSUME IInv, NEW a \in Activities, NEW error, CallFails(a, error)
  PROVE  IInv'
<1>1. phase[a] \in InFlight
  BY DEF CallFails, InFlight, InLoop
<1> DEFINE rest ==
       IF error \in Retried /\ retry[a] < TransientRetries
       THEN /\ Go(a, "backoff")
            /\ UNCHANGED <<attempt, executions, session, repair, retry, out, cancelled, cache, traceVars>>
       ELSE Throw(a, error)
<1>2. Unless(a, rest)
  BY DEF CallFails
<1>3. ASSUME error \in Retried, retry[a] < TransientRetries, rest PROVE IInv'
  <2>1. out[a] \in Accepts(a, "backoff")
    BY Values, AcceptsNothing DEF IInv
  <2> QED
    BY <1>1, <1>3, <2>1, OnlyGoes DEF InFlight, InLoop
<1>4. rest => IInv'
  BY <1>1, <1>3, ThrowKeeps
<1> HIDE DEF rest
<1> QED
  BY <1>1, <1>2, <1>4, UnlessKeeps

LEMMA WakeKeeps ==
  ASSUME IInv, NEW a \in Activities, Wake(a)
  PROVE  IInv'
<1>1. phase[a] \in InFlight /\ phase[a] = "backoff"
  BY DEF Wake, SleepEnds, InFlight, InLoop
<1>2. /\ repair[a] \in Nat /\ repair[a] <= ValidationRetries[a]
      /\ retry[a] + 1 \in Nat /\ retry[a] + 1 <= TransientRetries
  BY <1>1, Values, Constants DEF IInv, Fits
<1>3. Calls(a, repair[a], retry[a] + 1) => IInv'
  BY <1>1, <1>2, CallsKeeps
<1> QED
  BY <1>1, <1>3, UnlessKeeps DEF Wake

LEMMA AdmitKeeps ==
  ASSUME IInv, NEW a \in Activities, Admit(a)
  PROVE  IInv'
<1>1. phase[a] \in InFlight
  BY DEF Admit, InFlight
<1>2. 0 \in Nat /\ 0 <= ValidationRetries[a] /\ 0 <= TransientRetries
  BY Constants
<1>3. Calls(a, 0, 0) => IInv'
  BY <1>1, <1>2, CallsKeeps
<1> QED
  BY <1>1, <1>3, UnlessKeeps DEF Admit

LEMMA PreparedKeeps ==
  ASSUME IInv, NEW a \in Activities, Prepared(a)
  PROVE  IInv'
<1>1. phase[a] \in InFlight
  BY DEF Prepared, InFlight
<1>2. out[a] \in Accepts(a, "lookup")
  BY Values, AcceptsNothing DEF IInv
<1> DEFINE rest == /\ Go(a, "lookup")
                   /\ UNCHANGED <<attempt, executions, session, repair, retry, out, cancelled, cache, traceVars>>
<1>3. rest => IInv'
  BY <1>1, <1>2, OnlyGoes DEF InFlight
<1>4. Unless(a, rest)
  BY DEF Prepared
<1> HIDE DEF rest
<1> QED
  BY <1>1, <1>3, <1>4, UnlessKeeps

LEMMA ServeKeeps ==
  ASSUME IInv, NEW a \in Activities, Serve(a)
  PROVE  IInv'
<1>1. phase[a] \in InFlight /\ phase[a] = "serving"
  BY DEF Serve, InFlight
<1>2. CASE out[a] \in Finalized[a]
  <2>1. Return(a, out[a]) /\ UNCHANGED cache
    BY <1>2 DEF Serve
  <2>2. out[a] \in Accepts(a, "completed")
    BY <1>1, <1>2, Values DEF IInv, Fits, Accepts
  <2>3. ActOK'
    BY <1>1, <2>1, <2>2, ReturnKeeps DEF IInv
  <2> QED
    BY <2>1, <2>3, TraceEndsKeeps, CacheStays DEF IInv, Return
<1>3. CASE out[a] \notin Finalized[a]
  BY <1>1, <1>3, ThrowKeeps DEF Serve
<1> QED
  BY <1>2, <1>3

LEMMA FinalizeKeeps ==
  ASSUME IInv, NEW a \in Activities, Finalize(a)
  PROVE  IInv'
<1>1. phase[a] \in InFlight /\ phase[a] = "finalizing"
  BY DEF Finalize, InFlight, InLoop
<1>2. CASE out[a] \in Finalized[a]
  <2>1. out[a] \in Accepts(a, "storing")
    BY <1>1, <1>2, Values DEF IInv, Fits, Accepts
  <2> QED
    BY <1>1, <1>2, <2>1, OnlyGoes DEF Finalize, InFlight, InLoop
<1>3. CASE out[a] \notin Finalized[a]
  BY <1>1, <1>3, ThrowKeeps DEF Finalize
<1> QED
  BY <1>2, <1>3

\* What an activity that has come to its write writes.
LEMMA RememberedKeeps ==
  ASSUME IInv, NEW a \in Activities, phase[a] = "storing", Remembered(a)
  PROVE  CacheOK'
<1>1. out[a] \in Parses[a] \cap Checked[a] \cap Finalized[a]
  BY Values DEF IInv, Fits, Accepts
<1> DEFINE record == [output |-> out[a], schema |-> SchemaHash[a], by |-> a]
<1>2. record \in Records
  BY <1>1, Constants DEF Records
<1>3. cache' = [cache EXCEPT ![session[a]] = record] /\ session[a] \in Sessions
  BY Values DEF Remembered, IInv
<1>4. record.schema = SchemaHash[a] /\ record.by = a /\ record.output = out[a]
  OBVIOUS
<1> HIDE DEF record
<1>5. \A s \in Sessions : cache'[s] = IF s = session[a] THEN record ELSE cache[s]
  BY <1>3 DEF IInv, CacheOK
<1>6. cache' \in [Sessions -> {NoRecord} \cup Records]
  BY <1>2, <1>3 DEF IInv, CacheOK
<1>7. ASSUME NEW s \in Sessions, cache'[s] # NoRecord
      PROVE  /\ cache'[s].schema = SchemaHash[cache'[s].by]
             /\ cache'[s].output \in
                  Parses[cache'[s].by] \cap Checked[cache'[s].by] \cap Finalized[cache'[s].by]
  <2>1. CASE s = session[a]
    BY <1>1, <1>4, <1>5, <2>1
  <2>2. CASE s # session[a]
    BY <1>5, <1>7, <2>2 DEF IInv, CacheOK
  <2> QED
    BY <2>1, <2>2
<1> QED
  BY <1>6, <1>7 DEF CacheOK

LEMMA StoreKeeps ==
  ASSUME IInv, NEW a \in Activities, Store(a)
  PROVE  IInv'
<1>1. phase[a] \in InFlight /\ phase[a] = "storing"
  BY DEF Store, InFlight, InLoop
<1>2. out[a] \in Accepts(a, "completed")
  BY <1>1, Values DEF IInv, Fits, Accepts
<1>3. ActOK'
  BY <1>1, <1>2, ReturnKeeps DEF Store, IInv
<1> QED
  BY <1>1, <1>3, RememberedKeeps, TraceEndsKeeps DEF IInv, Store, Return

LEMMA StoreFailsKeeps ==
  ASSUME IInv, NEW a \in Activities, StoreFails(a)
  PROVE  IInv'
<1>1. phase[a] \in InFlight /\ phase[a] = "storing"
  BY DEF StoreFails, InFlight, InLoop
<1>2. CacheOK'
  BY <1>1, RememberedKeeps, CacheStays DEF StoreFails, IInv
<1> QED
  BY <1>1, <1>2, FailKeeps DEF StoreFails

LEMMA ActivityKeeps ==
  ASSUME IInv, NEW a \in Activities, ActivityStep(a) \/ ActivityFault(a)
  PROVE  IInv'
<1>1. CASE Start(a)
  BY <1>1, StartKeeps, CacheStays, TraceStays DEF IInv, Start
<1>2. CASE GiveUp(a)
  BY <1>2, GiveUpKeeps, CacheStays, TraceStays DEF IInv, GiveUp
<1>3. CASE \E error \in {"terminal", "error"} : PrepareFails(a, error)
  BY <1>3, RejectsKeeps, CacheStays, TraceStays DEF IInv, PrepareFails, InFlight
<1>4. CASE LookupFails(a)
  BY <1>4, ThrowKeeps DEF LookupFails, InFlight, InLoop
<1>5. CASE Cancel(a)
  BY <1>5, CacheStays, TraceStays DEF IInv, Cancel, actVars, ActOK, ActTypeOK
<1> QED
  BY <1>1, <1>2, <1>3, <1>4, <1>5, PreparedKeeps, LookupKeeps, ServeKeeps, AdmitKeeps,
     WakeKeeps, FinalizeKeeps, StoreKeeps, StoreFailsKeeps, AnswerKeeps, CallFailsKeeps
  DEF ActivityStep, ActivityFault
-----------------------------------------------------------------------------
(* The theorems *)

LEMMA InitIInv == Init => IInv
<1> SUFFICES ASSUME Init PROVE IInv
  OBVIOUS
<1>1. TraceOK
  BY TraceAssumption
  DEF Init, TraceInit, TraceOK, TraceTypeOK, TracesConserved, DrainOwes, DrainCovers
<1>2. ActTypeOK
  BY ActivityAssumption DEF Init, ActTypeOK, Phases, ActivityAssumption
<1>3. ASSUME NEW a \in Activities
      PROVE  Fits(a, phase[a], attempt[a], executions[a], session[a], repair[a], retry[a], out[a])
  <2>1. None \in Accepts(a, "scheduled")
    BY AcceptsNothing
  <2> QED
    BY <2>1, Constants DEF Init, Fits, InFlight, InLoop
<1>4. CacheOK
  BY DEF Init, CacheOK
<1> QED
  BY <1>1, <1>2, <1>3, <1>4 DEF IInv, ActOK, Init

LEMMA NextIInv == IInv /\ [Next]_vars => IInv'
<1> SUFFICES ASSUME IInv, [Next]_vars PROVE IInv'
  OBVIOUS
<1>1. CASE \E a \in Activities : ActivityStep(a) \/ ActivityFault(a)
  BY <1>1, ActivityKeeps
<1>2. CASE TraceNext /\ UNCHANGED <<actVars, cancelled, cache>>
  BY <1>2, TraceNextKeeps, CacheStays DEF IInv, actVars, ActOK, ActTypeOK
<1>3. CASE UNCHANGED vars
  BY <1>3, TraceStays, CacheStays DEF IInv, vars, actVars, ActOK, ActTypeOK
<1> QED
  BY <1>1, <1>2, <1>3 DEF Next

LEMMA Invariant == Spec => []IInv
BY InitIInv, NextIInv, PTL DEF Spec

\* Every variable keeps its type, and no retry its bound: an activity is
\* attempted, executed, repaired and retried as often as it may be, at most.
THEOREM TypeCorrect == Spec => []TypeOK
<1>1. IInv => TypeOK
  <2> SUFFICES ASSUME IInv PROVE TypeOK
    OBVIOUS
  <2>1. \A a \in Activities :
          /\ attempt[a] <= MaxAttempts[a] /\ executions[a] <= 2 * attempt[a]
          /\ repair[a] <= ValidationRetries[a] /\ retry[a] <= TransientRetries
    BY DEF IInv, ActOK, Fits
  <2> QED
    BY <2>1 DEF IInv, TraceOK, ActOK, ActTypeOK, CacheOK, TypeOK, Phases, Records
<1> QED
  BY <1>1, Invariant, PTL

\* An activity returns only what its own schema, check, hook and moderation
\* accept, whoever generated it and whatever was cached in between.
THEOREM AcceptedReturned == Spec => []ReturnedAccepted
<1>1. IInv => ReturnedAccepted
  BY Values DEF IInv, ReturnedAccepted, Fits, Accepts
<1> QED
  BY <1>1, Invariant, PTL

\* The cache holds nothing that the activity which wrote it had rejected.
THEOREM AcceptedCached == Spec => []CachedAccepted
<1>1. IInv => CachedAccepted
  BY DEF IInv, CacheOK, CachedAccepted
<1> QED
  BY <1>1, Invariant, PTL

\* No trace that has ended is lost before the transport is closed.
THEOREM NoTraceLost == Spec => []TracesConserved
<1>1. IInv => TracesConserved
  BY DEF IInv, TraceOK
<1> QED
  BY <1>1, Invariant, PTL

\* shutdown() closes the transport behind every trace that had ended.
THEOREM ShutdownCovers == Spec => []DrainCovers
<1>1. IInv => DrainCovers
  BY DEF IInv, TraceOK
<1> QED
  BY <1>1, Invariant, PTL
-----------------------------------------------------------------------------
(* Cancellation *)

Work == {"calling", "serving", "finalizing"}

\* What a step of b leaves alone: the others, and b itself off its work.
Quiet(b) ==
  /\ \A c \in Activities \ {b} : UNCHANGED <<phase[c], repair[c], retry[c]>>
  /\ b \in cancelled => phase'[b] \notin Work

LEMMA QuietThrow ==
  ASSUME IInv, NEW b \in Activities, NEW error, Rejects(b, error)
  PROVE  Quiet(b)
<1>1. phase'[b] \in {"preparing", "cancelled", "failed", "retrying"}
  BY DEF IInv, ActOK, ActTypeOK, Rejects, Uncached, Execute, Go
<1>2. \A c \in Activities \ {b} : UNCHANGED <<phase[c], repair[c], retry[c]>>
  BY DEF IInv, ActOK, ActTypeOK, Rejects, Uncached, Execute, Go, Locals
<1> QED
  BY <1>1, <1>2 DEF Quiet, Work

LEMMA QuietUnless ==
  ASSUME IInv, NEW b \in Activities, NEW ACTION rest, Unless(b, rest), rest /\ b \notin cancelled => Quiet(b)
  PROVE  Quiet(b)
BY QuietThrow DEF Unless, Throw, Fail

LEMMA QuietCalls ==
  ASSUME IInv, NEW b \in Activities \ cancelled, NEW v, NEW r, Calls(b, v, r)
  PROVE  Quiet(b)
BY DEF IInv, ActOK, ActTypeOK, Calls, Go, Quiet

LEMMA QuietGoes ==
  ASSUME IInv, NEW b \in Activities, NEW p, p \notin Work \/ b \notin cancelled,
         Go(b, p), UNCHANGED <<repair, retry>>
  PROVE  Quiet(b)
BY DEF IInv, ActOK, ActTypeOK, Go, Quiet

LEMMA QuietStep ==
  ASSUME IInv, NEW b \in Activities, ActivityStep(b) \/ ActivityFault(b), ~Cancel(b)
  PROVE  Quiet(b)
<1>1. CASE Start(b)
  BY <1>1 DEF IInv, ActOK, ActTypeOK, Start, Execute, Go, Locals, Quiet, Work
<1>2. CASE GiveUp(b)
  BY <1>2, QuietGoes DEF GiveUp, Work
<1>3. CASE Prepared(b)
  <2> DEFINE rest == /\ Go(b, "lookup")
                     /\ UNCHANGED <<attempt, executions, session, repair, retry, out, cancelled, cache, traceVars>>
  <2>1. Unless(b, rest)
    BY <1>3 DEF Prepared
  <2>2. rest => Quiet(b)
    BY QuietGoes DEF Work
  <2> HIDE DEF rest
  <2> QED
    BY <2>1, <2>2, QuietUnless
<1>4. CASE Lookup(b)
  <2>1. Miss(b) => Quiet(b)
    BY QuietGoes DEF Miss, Work
  <2> DEFINE rest == IF Cached(b).output \notin Parses[b] THEN Throw(b, "error")
                     ELSE IF Cached(b).output \notin Checked[b] THEN Miss(b)
                     ELSE Serves(b)
  <2>2. rest /\ b \notin cancelled => Quiet(b)
    BY <2>1, QuietGoes, QuietThrow DEF Serves, Throw, Fail
  <2>3. CASE Found(b)
    <3>1. Unless(b, rest)
      BY <1>4, <2>3 DEF Lookup
    <3> HIDE DEF rest
    <3> QED
      BY <2>2, <3>1, QuietUnless
  <2>4. CASE ~Found(b)
    BY <1>4, <2>1, <2>4 DEF Lookup
  <2> QED
    BY <2>3, <2>4
<1>5. CASE Serve(b)
  <2>1. CASE out[b] \in Finalized[b]
    <3>1. Return(b, out[b])
      BY <1>5, <2>1 DEF Serve
    <3> QED
      BY <3>1 DEF IInv, ActOK, ActTypeOK, Return, Go, Locals, Quiet, Work
  <2>2. CASE out[b] \notin Finalized[b]
    BY <1>5, <2>2, QuietThrow DEF Serve, Throw, Fail
  <2> QED
    BY <2>1, <2>2
<1>6. CASE Admit(b)
  BY <1>6, QuietCalls, QuietUnless DEF Admit
<1>7. CASE Wake(b)
  BY <1>7, QuietCalls, QuietUnless DEF Wake
<1>8. CASE Finalize(b)
  <2>1. CASE out[b] \in Finalized[b]
    BY <1>8, <2>1, QuietGoes DEF Finalize, Work
  <2>2. CASE out[b] \notin Finalized[b]
    BY <1>8, <2>2, QuietThrow DEF Finalize, Throw, Fail
  <2> QED
    BY <2>1, <2>2
<1>9. CASE Store(b)
  BY <1>9 DEF IInv, ActOK, ActTypeOK, Store, Return, Go, Locals, Quiet, Work
<1>10. CASE \E o \in Outputs : Answer(b, o)
  <2>1. PICK o \in Outputs : Answer(b, o)
    BY <1>10
  <2> DEFINE rest ==
         IF o \in Parses[b] \cap Checked[b]
         THEN /\ Go(b, "finalizing")
              /\ out' = [out EXCEPT ![b] = o]
              /\ UNCHANGED <<attempt, executions, session, repair, retry, cancelled, cache, traceVars>>
         ELSE IF Repairable(b) THEN Calls(b, repair[b] + 1, 0)
         ELSE Throw(b, "terminal")
  <2>2. Unless(b, rest)
    BY <2>1 DEF Answer
  <2>3. rest /\ b \notin cancelled => Quiet(b)
    BY QuietGoes, QuietCalls, QuietThrow DEF Throw, Fail
  <2> HIDE DEF rest
  <2> QED
    BY <2>2, <2>3, QuietUnless
<1>11. CASE \E error \in Errors : CallFails(b, error)
  <2>1. PICK error \in Errors : CallFails(b, error)
    BY <1>11
  <2> DEFINE rest ==
         IF error \in Retried /\ retry[b] < TransientRetries
         THEN /\ Go(b, "backoff")
              /\ UNCHANGED <<attempt, executions, session, repair, retry, out, cancelled, cache, traceVars>>
         ELSE Throw(b, error)
  <2>2. Unless(b, rest)
    BY <2>1 DEF CallFails
  <2>3. rest => Quiet(b)
    BY QuietGoes, QuietThrow DEF Throw, Fail, Work
  <2> HIDE DEF rest
  <2> QED
    BY <2>2, <2>3, QuietUnless
<1>12. CASE \E error \in {"terminal", "error"} : PrepareFails(b, error)
  BY <1>12, QuietThrow DEF PrepareFails
<1>13. CASE LookupFails(b) \/ StoreFails(b)
  BY <1>13, QuietThrow DEF LookupFails, StoreFails, Throw, Fail
<1> QED
  BY <1>1, <1>2, <1>3, <1>4, <1>5, <1>6, <1>7, <1>8, <1>9, <1>10, <1>11, <1>12, <1>13
  DEF ActivityStep, ActivityFault

\* Once its signal has aborted, an activity begins no call, no hook and
\* serves no hit, and makes no further repair or retry.
THEOREM CancelledIsQuiet == Spec => NoWorkAfterCancel
<1>1. ASSUME IInv, [Next]_vars, NEW a \in cancelled, phase'[a] \in Work
      PROVE  UNCHANGED <<phase[a], repair[a], retry[a]>>
  <2>0. a \in Activities
    BY <1>1 DEF IInv
  <2>1. CASE \E b \in Activities : ActivityStep(b) \/ ActivityFault(b)
    <3>1. PICK b \in Activities : ActivityStep(b) \/ ActivityFault(b)
      BY <2>1
    <3>2. CASE Cancel(b)
      BY <3>2 DEF Cancel, actVars
    <3>3. CASE ~Cancel(b)
      <4>1. Quiet(b)
        BY <1>1, <3>1, <3>3, QuietStep
      <4> QED
        BY <1>1, <2>0, <4>1 DEF Quiet
    <3> QED
      BY <3>2, <3>3
  <2>2. CASE UNCHANGED actVars
    BY <2>2 DEF actVars
  <2> QED
    BY <1>1, <2>1, <2>2 DEF Next, vars
<1>2. IInv /\ [Next]_vars =>
        [\A a \in cancelled : phase'[a] \in {"calling", "serving", "finalizing"} =>
           UNCHANGED <<phase[a], repair[a], retry[a]>>]_vars
  BY <1>1 DEF Work
<1> QED
  BY <1>2, Invariant, PTL DEF Spec, NoWorkAfterCancel
=============================================================================
