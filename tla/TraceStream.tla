---------------------------- MODULE TraceStream ----------------------------
(***************************************************************************)
(* A StreamingTraceWriter (yaml/src/streaming-trace-writer.ts) over a      *)
(* TraceWriter (temporal/src/trace-writer.ts).  Every trace that ends goes *)
(* into a buffer and chains one more flush behind those scheduled so far;  *)
(* a flush takes the whole buffer and submits it trace by trace, and puts  *)
(* what it could not submit back in front.  drain() awaits the chain as it *)
(* stands when it is called, then flushes once more, itself; shutdown() is *)
(* drain and then the transport's shutdown.                                *)
(*                                                                         *)
(* A flush submits its traces in the order they started, which nothing     *)
(* here depends on: the buffer and what a flush has taken are sets.  An    *)
(* action is the code between two awaits.  The flush that settles the      *)
(* promise drain() awaits resumes drain() before the next flush of the     *)
(* chain begins: its continuation was registered first.                    *)
(* Operators marked "Bug:" validate the properties and are used nowhere.   *)
(***************************************************************************)
EXTENDS Naturals

CONSTANT MaxOutages   \* bound: submissions that throw

ASSUME TraceAssumption == MaxOutages \in Nat

VARIABLES
  buffer,        \* traces that have ended
  jobs,          \* flushes chained and not settled, the one under way included
  flushing,      \* what the flush of the chain has taken and not submitted
  drain,         \* none, waiting, flushing, closing, closed or failed
  ahead,         \* flushes drain() still awaits
  draining,      \* what drain()'s own flush has taken and not submitted
  submitted,     \* traces the transport has taken
  ended,         \* ghost: traces that have ended
  owed,          \* ghost: traces that had ended when drain() was called
  outages        \* submissions that have thrown

drainVars == <<drain, ahead, draining, owed>>
traceVars == <<buffer, jobs, flushing, drainVars, submitted, ended, outages>>

TraceInit ==
  /\ buffer = {} /\ jobs = 0 /\ flushing = {}
  /\ drain = "none" /\ ahead = 0 /\ draining = {}
  /\ submitted = {} /\ ended = {} /\ owed = {} /\ outages = 0

\* Bug: a flush that failed is not put back.
RebufferedDropped(taken) == buffer

\* What could not be submitted goes back to what has ended since.
Rebuffered(taken) == taken \cup buffer

Outage == outages < MaxOutages /\ outages' = outages + 1

\* observation.end(): the trace is complete and one more flush is chained.
TraceEnds(trace) ==
  /\ buffer' = buffer \cup {trace}
  /\ jobs' = jobs + 1
  /\ ended' = ended \cup {trace}
  /\ UNCHANGED <<flushing, drainVars, submitted, outages>>
-----------------------------------------------------------------------------
\* drain() takes what is buffered, b, and flushes it; nothing to flush, and
\* it returns.
DrainTakes(b) ==
  /\ draining' = b
  /\ buffer' = {}
  /\ drain' = IF b = {} THEN "closing" ELSE "flushing"

\* Bug: drain() returns once the chain has settled.
FlushSettlesAlone(b) ==
  /\ jobs' = jobs - 1
  /\ flushing' = {}
  /\ buffer' = b
  /\ ahead' = IF drain = "waiting" THEN ahead - 1 ELSE ahead
  /\ drain' = IF drain = "waiting" /\ ahead = 1 THEN "closing" ELSE drain
  /\ UNCHANGED <<draining, owed>>

\* A flush of the chain settles and leaves b in the buffer; drain() goes on
\* when it was the last one it awaited.
FlushSettles(b) ==
  /\ jobs' = jobs - 1
  /\ flushing' = {}
  /\ IF drain = "waiting" /\ ahead = 1
     THEN DrainTakes(b) /\ ahead' = 0
     ELSE /\ buffer' = b
          /\ ahead' = IF drain = "waiting" THEN ahead - 1 ELSE ahead
          /\ UNCHANGED <<drain, draining>>
  /\ UNCHANGED owed

\* The next flush of the chain begins; an empty one settles at once.
FlushBegins ==
  /\ jobs > 0 /\ flushing = {}
  /\ IF buffer = {} THEN FlushSettles({})
     ELSE /\ flushing' = buffer
          /\ buffer' = {}
          /\ UNCHANGED <<jobs, drainVars>>
  /\ UNCHANGED <<submitted, outages>>

\* A transport that is shut down takes a trace and drops it.
Taken(trace) == IF drain = "closed" THEN submitted ELSE submitted \cup {trace}

Submit ==
  /\ \E trace \in flushing :
       /\ submitted' = Taken(trace)
       /\ IF flushing = {trace} THEN FlushSettles(buffer)
          ELSE /\ flushing' = flushing \ {trace}
               /\ UNCHANGED <<buffer, jobs, drainVars>>
  /\ UNCHANGED outages

\* The transport throws, perhaps after it has taken the trace.
SubmitThrows ==
  /\ Outage
  /\ \E trace \in flushing : submitted' \in {submitted, Taken(trace)}
  /\ FlushSettles(Rebuffered(flushing))
-----------------------------------------------------------------------------
BeginDrain ==
  /\ drain = "none"
  /\ owed' = ended
  /\ IF jobs = 0 THEN DrainTakes(buffer) /\ UNCHANGED ahead
     ELSE drain' = "waiting" /\ ahead' = jobs /\ UNCHANGED <<draining, buffer>>
  /\ UNCHANGED <<jobs, flushing, submitted, outages>>

DrainSubmit ==
  /\ drain = "flushing"
  /\ \E trace \in draining :
       /\ submitted' = submitted \cup {trace}
       /\ draining' = draining \ {trace}
  /\ drain' = IF draining' = {} THEN "closing" ELSE drain
  /\ UNCHANGED <<buffer, jobs, flushing, ahead, owed, outages>>

\* drain() throws and the transport is not shut down.
DrainThrows ==
  /\ drain = "flushing"
  /\ Outage
  /\ \E trace \in draining : submitted' \in {submitted, submitted \cup {trace}}
  /\ buffer' = Rebuffered(draining)
  /\ draining' = {}
  /\ drain' = "failed"
  /\ UNCHANGED <<jobs, flushing, ahead, owed>>

ShutDown ==
  /\ drain = "closing"
  /\ drain' = "closed"
  /\ UNCHANGED <<buffer, jobs, flushing, ahead, draining, submitted, owed, outages>>

TraceNext ==
  /\ \/ FlushBegins \/ Submit \/ SubmitThrows
     \/ BeginDrain \/ DrainSubmit \/ DrainThrows \/ ShutDown
  /\ UNCHANGED ended
-----------------------------------------------------------------------------
TraceTypeOK ==
  /\ jobs \in Nat /\ ahead \in 0 .. jobs
  /\ drain \in {"none", "waiting", "flushing", "closing", "closed", "failed"}
  /\ outages \in 0 .. MaxOutages
  /\ submitted \subseteq ended /\ owed \subseteq ended
  /\ buffer \cup flushing \cup draining \subseteq ended

\* Until the transport is closed a trace that has ended waits in the buffer,
\* is in the hands of one of the two flushes, or has been submitted, whatever
\* throws in between.
TracesConserved ==
  drain # "closed" =>
    ended \subseteq submitted \cup buffer \cup flushing \cup draining

\* shutdown() closes the transport only when every trace that had ended when
\* it was called has reached it, however many flushes failed before, and
\* although flushes chained since compete with drain() for the buffer.
DrainCovers == drain \in {"closing", "closed"} => owed \subseteq submitted
=============================================================================
