--------------------------- MODULE ProviderLimits ---------------------------
(***************************************************************************)
(* One ProviderCallLimiter (temporal/src/provider-limits.ts): the limiter  *)
(* all activity executions of a worker share for one policy key.  A call   *)
(* of limit() waits for a permit of the semaphore, reserves the next rate  *)
(* slot, sleeps until the slot is due, runs its function and gives the     *)
(* permit back; its abort signal may fire at any moment.                   *)
(*                                                                         *)
(* An action is the code between two awaits.  Time is a counter that moves *)
(* in an action of its own; a timer fires when it is due or up to Late     *)
(* units after that (an event loop that is busy).  The limiter modelled    *)
(* has a concurrency limit; without one limit() begins at Proceed.         *)
(* Operators marked "Bug:" validate the properties and are used nowhere.   *)
(***************************************************************************)
EXTENDS Integers, Sequences, FiniteSets

CONSTANTS
  Calls,           \* the calls of limit(), each made once
  MaxConcurrent,   \* permits of the semaphore
  MinInterval,     \* units between two rate slots, 0 when not configured
  Late,            \* how late a timer may fire
  LastCall         \* bound: calls are made until this time

ASSUME LimitsAssumption ==
  /\ IsFiniteSet(Calls)
  /\ MaxConcurrent \in Nat \ {0}
  /\ MinInterval \in Nat
  /\ Late \in Nat
  /\ LastCall \in Nat

Never == -1

VARIABLES
  available,       \* free permits
  waiters,         \* calls queued for a permit, in order
  phase,           \* call -> how far it has come
  aborted,         \* calls whose signal has fired
  nextCallAt,      \* the first moment no slot has been reserved for
  slot,            \* call -> the moment its slot is due
  startedAt,       \* call -> when its function started
  now              \* the monotonic clock

vars == <<available, waiters, phase, aborted, nextCallAt, slot, startedAt, now>>
-----------------------------------------------------------------------------
Later(a, b) == IF a > b THEN a ELSE b

Run(c) ==
  /\ phase' = [phase EXCEPT ![c] = "running"]
  /\ startedAt' = [startedAt EXCEPT ![c] = now]

\* Bug: the reservation is made when the sleep is over.
ProceedUnreserved(c) ==
  IF MinInterval > 0 /\ nextCallAt > now
  THEN /\ slot' = [slot EXCEPT ![c] = nextCallAt]
       /\ phase' = [phase EXCEPT ![c] = IF c \in aborted THEN "leaving" ELSE "sleeping"]
       /\ UNCHANGED <<nextCallAt, startedAt>>
  ELSE /\ nextCallAt' = now + MinInterval
       /\ slot' = [slot EXCEPT ![c] = now]
       /\ Run(c)

\* The code of limit() after acquire: the slot is reserved before the sleep,
\* and a call that need not sleep runs at once, aborted or not.
Proceed(c) ==
  IF MinInterval = 0
  THEN Run(c) /\ UNCHANGED <<nextCallAt, slot>>
  ELSE /\ slot' = [slot EXCEPT ![c] = Later(nextCallAt, now)]
       /\ nextCallAt' = Later(nextCallAt, now) + MinInterval
       /\ IF nextCallAt <= now THEN Run(c)
          ELSE /\ phase' = [phase EXCEPT ![c] = IF c \in aborted THEN "leaving" ELSE "sleeping"]
               /\ UNCHANGED startedAt
-----------------------------------------------------------------------------
Init ==
  /\ available = MaxConcurrent
  /\ waiters = <<>>
  /\ phase = [c \in Calls |-> "new"]
  /\ aborted = {}
  /\ nextCallAt = 0
  /\ slot = [c \in Calls |-> Never]
  /\ startedAt = [c \in Calls |-> Never]
  /\ now = 0

\* limit() up to its first await: an aborted call is rejected, a free permit is
\* taken, else the call queues.
Acquire(c) ==
  /\ phase[c] = "new" /\ now <= LastCall
  /\ IF c \in aborted
     THEN phase' = [phase EXCEPT ![c] = "done"] /\ UNCHANGED <<available, waiters>>
     ELSE IF available > 0
     THEN /\ available' = available - 1
          /\ phase' = [phase EXCEPT ![c] = "admitted"]
          /\ UNCHANGED waiters
     ELSE /\ waiters' = Append(waiters, c)
          /\ phase' = [phase EXCEPT ![c] = "queued"]
          /\ UNCHANGED available
  /\ UNCHANGED <<aborted, nextCallAt, slot, startedAt, now>>

\* The acquire of a call that holds a permit returns.
Admitted(c) ==
  /\ phase[c] = "admitted"
  /\ Proceed(c)
  /\ UNCHANGED <<available, waiters, aborted, now>>

\* The timer of the slot fires.
Wake(c) ==
  /\ phase[c] = "sleeping"
  /\ now >= slot[c]
  /\ Run(c)
  /\ UNCHANGED <<available, waiters, aborted, nextCallAt, slot, now>>

\* The function returns or throws.
FnSettles(c) ==
  /\ phase[c] = "running"
  /\ phase' = [phase EXCEPT ![c] = "leaving"]
  /\ UNCHANGED <<available, waiters, aborted, nextCallAt, slot, startedAt, now>>

\* Bug: a waiter is told to go on and the permit is counted as free as well.
ReleaseTwice(c) ==
  /\ phase[c] = "leaving"
  /\ available' = available + 1
  /\ IF waiters # <<>>
     THEN /\ waiters' = Tail(waiters)
          /\ phase' = [phase EXCEPT ![c] = "done", ![Head(waiters)] = "admitted"]
     ELSE phase' = [phase EXCEPT ![c] = "done"] /\ UNCHANGED waiters
  /\ UNCHANGED <<aborted, nextCallAt, slot, startedAt, now>>

\* Bug: the permit goes to the call that queued last.
ReleaseLifo(c) ==
  /\ phase[c] = "leaving"
  /\ IF waiters # <<>>
     THEN /\ waiters' = SubSeq(waiters, 1, Len(waiters) - 1)
          /\ phase' = [phase EXCEPT ![c] = "done", ![waiters[Len(waiters)]] = "admitted"]
          /\ UNCHANGED available
     ELSE /\ phase' = [phase EXCEPT ![c] = "done"]
          /\ available' = available + 1
          /\ UNCHANGED waiters
  /\ UNCHANGED <<aborted, nextCallAt, slot, startedAt, now>>

\* Bug: the permit goes back to the pool and the first waiter is left queued.
ReleaseUnannounced(c) ==
  /\ phase[c] = "leaving"
  /\ phase' = [phase EXCEPT ![c] = "done"]
  /\ available' = available + 1
  /\ UNCHANGED <<waiters, aborted, nextCallAt, slot, startedAt, now>>

\* The finally block: the permit goes to the first waiter, or is free again.
Release(c) ==
  /\ phase[c] = "leaving"
  /\ IF waiters # <<>>
     THEN /\ waiters' = Tail(waiters)
          /\ phase' = [phase EXCEPT ![c] = "done", ![Head(waiters)] = "admitted"]
          /\ UNCHANGED available
     ELSE /\ phase' = [phase EXCEPT ![c] = "done"]
          /\ available' = available + 1
          /\ UNCHANGED waiters
  /\ UNCHANGED <<aborted, nextCallAt, slot, startedAt, now>>

\* The signal fires: a queued call leaves the queue and is rejected without a
\* permit, a sleeping one is rejected and will give its permit back; in other
\* phases nothing listens.
Abort(c) ==
  /\ phase[c] # "done" /\ c \notin aborted
  /\ aborted' = aborted \cup {c}
  /\ \/ /\ phase[c] = "queued"
        /\ phase' = [phase EXCEPT ![c] = "done"]
        /\ \E i \in DOMAIN waiters :
             /\ waiters[i] = c
             /\ waiters' = SubSeq(waiters, 1, i - 1) \o SubSeq(waiters, i + 1, Len(waiters))
     \/ /\ phase[c] = "sleeping"
        /\ phase' = [phase EXCEPT ![c] = "leaving"]
        /\ UNCHANGED waiters
     \/ /\ phase[c] \notin {"queued", "sleeping"}
        /\ UNCHANGED <<phase, waiters>>
  /\ UNCHANGED <<available, nextCallAt, slot, startedAt, now>>

\* Time passes while calls may come or a timer runs; no timer is too late.
Tick ==
  /\ now < LastCall \/ \E c \in Calls : phase[c] = "sleeping"
  /\ \A c \in Calls : phase[c] = "sleeping" => now < slot[c] + Late
  /\ now' = now + 1
  /\ UNCHANGED <<available, waiters, phase, aborted, nextCallAt, slot, startedAt>>

Move(c) == Admitted(c) \/ Wake(c) \/ FnSettles(c) \/ Release(c)

Next ==
  \/ \E c \in Calls : Acquire(c) \/ Move(c) \/ Abort(c)
  \/ Tick

\* The event loop runs continuations and timers; a function settles because
\* the activity that called it has a timeout.
FairSpec ==
  /\ Init /\ [][Next]_vars
  /\ \A c \in Calls : WF_vars(Move(c))
  /\ WF_vars(Tick)

Spec == Init /\ [][Next]_vars
-----------------------------------------------------------------------------
Phases == {"new", "queued", "admitted", "sleeping", "running", "leaving", "done"}

\* Every variable has its type.
TypeOK ==
  /\ available \in 0..MaxConcurrent
  /\ waiters \in Seq(Calls)
  /\ phase \in [Calls -> Phases]
  /\ aborted \subseteq Calls
  /\ nextCallAt \in Nat
  /\ slot \in [Calls -> Nat \cup {Never}]
  /\ startedAt \in [Calls -> Nat \cup {Never}]
  /\ now \in Nat

Holders == {c \in Calls : phase[c] \in {"admitted", "sleeping", "running", "leaving"}}

\* However calls are queued, handed a permit and aborted, a permit is neither
\* lost nor held twice (provider-limits.ts:83-117).
PermitsConserved == available + Cardinality(Holders) = MaxConcurrent

\* A permit is free only when no call waits for one: a release hands it on, so
\* a call that comes later cannot take it first.
NoIdlePermit == available > 0 => waiters = <<>>

\* The calls in the queue are admitted in the order they came, none twice.
FirstComeFirstServed ==
  [][\A i, j \in DOMAIN waiters :
       i < j /\ phase[waiters[j]] = "queued" /\ phase'[waiters[j]] = "admitted"
         => phase'[waiters[i]] # "queued"]_vars

\* Two functions start at least the interval apart, less what a timer was late:
\* the slots are reserved, not the moments the timers happen to fire.
SpacedStarts ==
  \A c, d \in Calls :
    c # d /\ startedAt[c] # Never /\ startedAt[d] # Never /\ startedAt[c] <= startedAt[d] =>
      startedAt[d] - startedAt[c] + Late >= MinInterval

\* Every call that is made settles: no permit leaks, no waiter is forgotten.
EveryCallSettles == \A c \in Calls : phase[c] # "new" ~> phase[c] = "done"
=============================================================================
