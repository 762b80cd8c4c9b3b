---------------------------- MODULE ActivityRun ----------------------------
(***************************************************************************)
(* The AI activities of one worker (temporal/src/execute.ts), with the     *)
(* wrapper Temporal calls (temporal-worker/src/build-temporal-activity.ts) *)
(* and the trace writer that observes them.                                *)
(*                                                                         *)
(* The activities ask the same question, but they may be of different      *)
(* versions: each has its own output schema, output check, and hook with   *)
(* moderation, none of which is in the cache key, so those that run with   *)
(* the same session meet in one record of the cross-run cache.  A model's  *)
(* answer is a member of Outputs.  The limiter is ProviderLimits; here it  *)
(* is a number of slots and who is in one.                                 *)
(*                                                                         *)
(* An action is the code between two awaits.  Temporal retries an activity *)
(* whose failure is not marked non-retryable, up to MaxAttempts.           *)
(* Operators marked "Bug:" validate the properties and are used nowhere.   *)
(***************************************************************************)
EXTENDS TraceStream, FiniteSets

CONSTANTS
  Activities,        \* activity tasks, each for the same input
  Outputs,           \* what the model may answer
  SchemaHash,        \* activity -> the hash of its output's JSON schema
  Parses,            \* activity -> the outputs its schema takes, refinements included
  Checked,           \* activity -> the outputs its output check takes
  Finalized,         \* activity -> the outputs its hook and moderation take
  Session,           \* activity -> its session cache: none, prefix or reference
  ValidationRetries, \* activity -> answers that are repaired
  TransientRetries,
  Retried,           \* the classes of transient errors that are retried
  Slots,             \* concurrent generation loops the limiter allows
  MaxAttempts,       \* activity -> attempts of its Temporal retry policy
  Cancellable        \* bound: activities whose workflow may cancel them

Sessions == {"none", "prefix", "reference"}
Transients == {"rate_limit", "transient"}

ASSUME ActivityAssumption ==
  /\ "none" \notin Outputs
  /\ \A f \in {Parses, Checked, Finalized} : f \in [Activities -> SUBSET Outputs]
  /\ Session \in [Activities -> Sessions]
  /\ ValidationRetries \in [Activities -> Nat] /\ TransientRetries \in Nat
  /\ Retried \subseteq Transients
  /\ Slots \in Nat \ {0} /\ MaxAttempts \in [Activities -> Nat \ {0}]

VARIABLES
  phase,        \* activity -> what its execution awaits, or how it ended
  attempt,      \* activity -> attempts Temporal has made
  executions,   \* activity -> calls of executeActivity, each a trace
  session,      \* activity -> the session handle of this execution
  repair,       \* activity -> validation retries used
  retry,        \* activity -> transient retries used for this generation
  out,          \* activity -> the output accepted so far, or None
  cancelled,    \* activities whose signal has aborted
  cache         \* session -> the record under the key it is part of, or NoRecord

actVars == <<phase, attempt, executions, session, repair, retry, out>>
vars == <<actVars, cancelled, cache, traceVars>>

None == "none"
NoRecord == [output |-> None, schema |-> None, by |-> None]
InLoop == {"calling", "backoff", "finalizing", "storing"}
Settled == {"completed", "failed", "cancelled"}

Init ==
  /\ TraceInit
  /\ phase = [a \in Activities |-> "scheduled"]
  /\ attempt = [a \in Activities |-> 0]
  /\ executions = [a \in Activities |-> 0]
  /\ session = Session
  /\ repair = [a \in Activities |-> 0]
  /\ retry = [a \in Activities |-> 0]
  /\ out = [a \in Activities |-> None]
  /\ cancelled = {}
  /\ cache = [s \in Sessions |-> NoRecord]

Go(a, p) == phase' = [phase EXCEPT ![a] = p]
-----------------------------------------------------------------------------
\* The locals of executeActivity, o the output it has accepted.
Locals(a, s, o) ==
  /\ session' = [session EXCEPT ![a] = s]
  /\ repair' = [repair EXCEPT ![a] = 0]
  /\ retry' = [retry EXCEPT ![a] = 0]
  /\ out' = [out EXCEPT ![a] = o]

\* A call of executeActivity begins with the prompt and the artifacts.
Execute(a, s) ==
  /\ Go(a, "preparing")
  /\ executions' = [executions EXCEPT ![a] = @ + 1]
  /\ Locals(a, s, None)

\* A worker takes the task; the server gives no task of a cancelled activity.
Start(a) ==
  /\ phase[a] = "scheduled" \/ (phase[a] = "retrying" /\ a \notin cancelled)
  /\ attempt' = [attempt EXCEPT ![a] = @ + 1]
  /\ Execute(a, Session[a])
  /\ UNCHANGED <<cancelled, cache, traceVars>>

GiveUp(a) ==
  /\ phase[a] = "retrying" /\ a \in cancelled
  /\ Go(a, "cancelled")
  /\ UNCHANGED <<attempt, executions, session, repair, retry, out, cancelled, cache, traceVars>>

\* The run without the session cache that has vanished.
Uncached(a) == Execute(a, "none")

Terminal == {"terminal", "session_gone"}

\* The wrapper's verdict on an error: a vanished reference cache is done
\* without, a terminal error is not retried, the rest is Temporal's to retry.
Rejects(a, error) ==
  IF error = "session_gone" /\ session[a] = "reference"
  THEN Uncached(a)
  ELSE /\ Go(a, IF error = "cancelled" THEN "cancelled"
                ELSE IF error \in Terminal \/ attempt[a] = MaxAttempts[a] THEN "failed"
                ELSE "retrying")
       /\ Locals(a, Session[a], None)
       /\ UNCHANGED executions

\* executeActivity throws: its trace ends in the finally block.
Fail(a, error) ==
  /\ TraceEnds(<<a, executions[a]>>)
  /\ Rejects(a, error)
  /\ UNCHANGED <<attempt, cancelled>>

Throw(a, error) == Fail(a, error) /\ UNCHANGED cache

\* executeActivity returns o.
Return(a, o) ==
  /\ TraceEnds(<<a, executions[a]>>)
  /\ Go(a, "completed")
  /\ Locals(a, Session[a], o)
  /\ UNCHANGED <<attempt, executions, cancelled>>

\* Bug: nobody looks at the signal.
UnlessUnheeded(a, rest) == rest

\* throwIfCancelled, and otherwise the rest.
Unless(a, rest) == IF a \in cancelled THEN Throw(a, "cancelled") ELSE rest
-----------------------------------------------------------------------------
\* The prompt does not resolve or the policy refuses the model: no trace yet.
PrepareFails(a, error) ==
  /\ phase[a] = "preparing"
  /\ error \in {"terminal", "error"}
  /\ Rejects(a, error)
  /\ UNCHANGED <<attempt, cancelled, cache, traceVars>>

Prepared(a) ==
  /\ phase[a] = "preparing"
  /\ Unless(a, /\ Go(a, "lookup")
               /\ UNCHANGED <<attempt, executions, session, repair, retry, out, cancelled, cache, traceVars>>)

Cached(a) == cache[session[a]]

\* A record of another schema is a miss.
Found(a) == Cached(a) # NoRecord /\ Cached(a).schema = SchemaHash[a]

Miss(a) ==
  /\ Go(a, "queued")
  /\ UNCHANGED <<attempt, executions, session, repair, retry, out, cancelled, cache, traceVars>>

Serves(a) ==
  /\ Go(a, "serving")
  /\ out' = [out EXCEPT ![a] = Cached(a).output]
  /\ UNCHANGED <<attempt, executions, session, repair, retry, cancelled, cache, traceVars>>

\* Bug: the output check has had its say when the record was written.
LookupWithoutCheck(a) ==
  /\ phase[a] = "lookup"
  /\ IF ~Found(a) THEN Miss(a)
     ELSE Unless(a,
            IF Cached(a).output \notin Parses[a] THEN Throw(a, "error")
            ELSE Serves(a))

\* A hit is parsed by the activity's own schema, which may take less than
\* another of the same hash: what does not parse is thrown.  A hit the output
\* check refuses is a miss, and a miss goes on to the limiter.
Lookup(a) ==
  /\ phase[a] = "lookup"
  /\ IF ~Found(a) THEN Miss(a)
     ELSE Unless(a,
            IF Cached(a).output \notin Parses[a] THEN Throw(a, "error")
            ELSE IF Cached(a).output \notin Checked[a] THEN Miss(a)
            ELSE Serves(a))

LookupFails(a) == phase[a] = "lookup" /\ Throw(a, "error")

\* The hook and the moderation, on a hit.
Serve(a) ==
  /\ phase[a] = "serving"
  /\ IF out[a] \in Finalized[a] THEN Return(a, out[a]) /\ UNCHANGED cache
     ELSE \E error \in {"terminal", "error"} : Throw(a, error)
-----------------------------------------------------------------------------
(* The generation loop, in a slot of the limiter.                          *)

Calls(a, v, t) ==
  /\ Go(a, "calling")
  /\ repair' = [repair EXCEPT ![a] = v]
  /\ retry' = [retry EXCEPT ![a] = t]
  /\ UNCHANGED <<attempt, executions, session, out, cancelled, cache, traceVars>>

Admit(a) ==
  /\ phase[a] = "queued"
  /\ a \in cancelled \/ Cardinality({b \in Activities : phase[b] \in InLoop}) < Slots
  /\ Unless(a, Calls(a, 0, 0))

Repairable(a) == repair[a] < ValidationRetries[a]

Answer(a, o) ==
  /\ phase[a] = "calling"
  /\ Unless(a,
       IF o \in Parses[a] \cap Checked[a]
       THEN /\ Go(a, "finalizing")
            /\ out' = [out EXCEPT ![a] = o]
            /\ UNCHANGED <<attempt, executions, session, repair, retry, cancelled, cache, traceVars>>
       ELSE IF Repairable(a) THEN Calls(a, repair[a] + 1, 0)
       ELSE Throw(a, "terminal"))

\* A transient error of a class that is retried backs off first.
CallFails(a, error) ==
  /\ phase[a] = "calling"
  /\ error = "session_gone" => session[a] # "none"
  /\ Unless(a,
       IF error \in Retried /\ retry[a] < TransientRetries
       THEN /\ Go(a, "backoff")
            /\ UNCHANGED <<attempt, executions, session, repair, retry, out, cancelled, cache, traceVars>>
       ELSE Throw(a, error))

\* Bug: the abort clears the timer of the sleep and leaves it at that.
SleepEndsUnaborted(a) == phase[a] = "backoff" /\ a \notin cancelled

\* The timer fires, or the abort ends the sleep early.
SleepEnds(a) == phase[a] = "backoff"

Wake(a) ==
  /\ SleepEnds(a)
  /\ Unless(a, Calls(a, repair[a], retry[a] + 1))

Remembered(a) ==
  cache' = [cache EXCEPT ![session[a]] = [output |-> out[a], schema |-> SchemaHash[a], by |-> a]]

\* Bug: the output goes into the cache before the hook has seen it.
FinalizeAfterStore(a) ==
  /\ phase[a] = "finalizing"
  /\ Remembered(a)
  /\ Go(a, "storing")
  /\ UNCHANGED <<attempt, executions, session, repair, retry, out, cancelled, traceVars>>

\* The hook and the moderation, on a fresh output.
Finalize(a) ==
  /\ phase[a] = "finalizing"
  /\ IF out[a] \in Finalized[a]
     THEN /\ Go(a, "storing")
          /\ UNCHANGED <<attempt, executions, session, repair, retry, out, cancelled, cache, traceVars>>
     ELSE \E error \in {"terminal", "error"} : Throw(a, error)

\* The record of an accepted output replaces what was there.
Store(a) ==
  /\ phase[a] = "storing"
  /\ Remembered(a)
  /\ Return(a, out[a])

\* The store throws, before the record is in it or after.
StoreFails(a) ==
  /\ phase[a] = "storing"
  /\ Fail(a, "error")
  /\ UNCHANGED cache \/ Remembered(a)
-----------------------------------------------------------------------------
Cancel(a) ==
  /\ a \notin cancelled /\ phase[a] \notin Settled \cup {"scheduled"}
  /\ a \in Cancellable
  /\ cancelled' = cancelled \cup {a}
  /\ UNCHANGED <<actVars, cache, traceVars>>

Errors == Transients \cup Terminal \cup {"error"}

ActivityStep(a) ==
  \/ Start(a) \/ GiveUp(a) \/ Prepared(a) \/ Lookup(a) \/ Serve(a)
  \/ Admit(a) \/ Wake(a) \/ Finalize(a) \/ Store(a)
  \/ \E o \in Outputs : Answer(a, o)
  \/ \E error \in Errors : CallFails(a, error)

ActivityFault(a) ==
  \/ \E error \in {"terminal", "error"} : PrepareFails(a, error)
  \/ LookupFails(a) \/ StoreFails(a)
  \/ Cancel(a)

Next ==
  \/ \E a \in Activities : ActivityStep(a) \/ ActivityFault(a)
  \/ TraceNext /\ UNCHANGED <<actVars, cancelled, cache>>

Spec == Init /\ [][Next]_vars

\* Providers, hooks, stores and timers answer, and Temporal offers a task to
\* a worker: while an activity can go on, some activity does.
Fairness == WF_vars(\E a \in Activities : ActivityStep(a))

FairSpec == Spec /\ Fairness
-----------------------------------------------------------------------------
TypeOK ==
  /\ TraceTypeOK
  /\ phase \in [Activities -> Settled \cup InLoop \cup
       {"scheduled", "retrying", "preparing", "lookup", "serving", "queued"}]
  /\ \A f \in {attempt, executions, repair, retry} : f \in [Activities -> Nat]
  /\ \A a \in Activities :
       /\ attempt[a] <= MaxAttempts[a] /\ executions[a] <= 2 * attempt[a]
       /\ repair[a] <= ValidationRetries[a] /\ retry[a] <= TransientRetries
  /\ session \in [Activities -> Sessions]
  /\ out \in [Activities -> Outputs \cup {None}]
  /\ cancelled \subseteq Activities
  /\ cache \in [Sessions -> {NoRecord} \cup
       [output : Outputs, schema : {SchemaHash[a] : a \in Activities}, by : Activities]]

\* What an activity returns its own schema, check, hook and moderation have
\* accepted, also when an activity of another version generated and cached it.
ReturnedAccepted ==
  \A a \in Activities : phase[a] = "completed" =>
    out[a] \in Parses[a] \cap Checked[a] \cap Finalized[a]

\* A record in the cache has passed everything the activity that wrote it demands.
CachedAccepted ==
  \A s \in Sessions : cache[s] # NoRecord =>
    LET a == cache[s].by IN cache[s].output \in Parses[a] \cap Checked[a] \cap Finalized[a]

\* After its cancellation an activity serves no hit, asks the provider for
\* nothing more and begins no hook, wherever in its retries, repairs or
\* queues the cancellation found it.
NoWorkAfterCancel ==
  [][\A a \in cancelled : phase'[a] \in {"calling", "serving", "finalizing"} =>
       UNCHANGED <<phase[a], repair[a], retry[a]>>]_vars

\* Every activity a worker has taken ends, cancelled or not.
EveryActivitySettles ==
  \A a \in Activities : phase[a] # "scheduled" ~> phase[a] \in Settled
=============================================================================
