------------------------ MODULE ProviderLimitsProofs ------------------------
(***************************************************************************)
(* Theorems about the provider call limiter, for every number of calls and *)
(* permits, every interval and every lateness of the timers.               *)
(***************************************************************************)
EXTENDS ProviderLimits, SequenceTheorems, FiniteSetTheorems, TLAPS

HolderPhases == {"admitted", "sleeping", "running", "leaving"}

\* The queue holds calls that wait, each once.
QueueOK ==
  /\ \A i \in DOMAIN waiters : phase[waiters[i]] = "queued"
  /\ \A i, j \in DOMAIN waiters : waiters[i] = waiters[j] => i = j

PermitsOK == TypeOK /\ QueueOK /\ PermitsConserved /\ NoIdlePermit

\* A call reserves its slot when it has a permit, and starts when it is due.
SlotOf(c) ==
  /\ phase[c] \in {"new", "queued", "admitted"} => slot[c] = Never /\ startedAt[c] = Never
  /\ phase[c] = "sleeping" => slot[c] # Never /\ now <= slot[c] + Late /\ startedAt[c] = Never
  /\ startedAt[c] # Never /\ MinInterval > 0 =>
       slot[c] # Never /\ slot[c] <= startedAt[c] /\ startedAt[c] <= slot[c] + Late
  /\ slot[c] # Never => slot[c] + MinInterval <= nextCallAt

SlotsApart(c, d) ==
  slot[c] # Never /\ slot[d] # Never =>
    slot[c] + MinInterval <= slot[d] \/ slot[d] + MinInterval <= slot[c]

SlotsOK ==
  /\ \A c \in Calls : SlotOf(c)
  /\ \A c, d \in Calls : c # d => SlotsApart(c, d)

IInv == PermitsOK /\ SlotsOK
-----------------------------------------------------------------------------
(* Counting the holders *)

LEMMA HoldersFinite ==
  ASSUME TypeOK
  PROVE  IsFiniteSet(Holders) /\ Cardinality(Holders) \in Nat
BY FS_Subset, FS_CardinalityType, LimitsAssumption DEF LimitsAssumption, Holders

\* A call that changes its phase joins the holders, leaves them or neither.
LEMMA HoldersMove ==
  ASSUME TypeOK, NEW c \in Calls, NEW p \in Phases,
         phase' = [phase EXCEPT ![c] = p]
  PROVE  Holders' = IF p \in HolderPhases THEN Holders \cup {c} ELSE Holders \ {c}
BY DEF TypeOK, Holders, HolderPhases, Phases

LEMMA HoldersCount ==
  ASSUME TypeOK, NEW c \in Calls, NEW p \in Phases,
         phase' = [phase EXCEPT ![c] = p]
  PROVE  Cardinality(Holders') =
           CASE p \in HolderPhases /\ c \notin Holders -> Cardinality(Holders) + 1
             [] p \notin HolderPhases /\ c \in Holders -> Cardinality(Holders) - 1
             [] OTHER -> Cardinality(Holders)
<1>1. IsFiniteSet(Holders)
  BY HoldersFinite
<1>2. CASE p \in HolderPhases
  BY <1>1, <1>2, HoldersMove, FS_AddElement
<1>3. CASE p \notin HolderPhases
  BY <1>1, <1>3, HoldersMove, FS_RemoveElement
<1> QED
  BY <1>2, <1>3
-----------------------------------------------------------------------------
(* Permits and the queue *)

\* A call in no queue changes its phase and keeps its permit, or has none.
LEMMA PhaseStep ==
  ASSUME PermitsOK, NEW c \in Calls, NEW p \in Phases \ {"queued"},
         phase[c] # "queued", c \in Holders <=> p \in HolderPhases,
         phase' = [phase EXCEPT ![c] = p],
         UNCHANGED <<available, waiters>>
  PROVE  QueueOK' /\ PermitsConserved' /\ NoIdlePermit' /\ phase' \in [Calls -> Phases]
<1>1. QueueOK'
  BY DEF PermitsOK, TypeOK, QueueOK
<1>2. Cardinality(Holders') = Cardinality(Holders)
  BY HoldersCount DEF PermitsOK
<1> QED
  BY <1>1, <1>2 DEF PermitsOK, TypeOK, PermitsConserved, NoIdlePermit

LEMMA ProceedType ==
  ASSUME TypeOK, NEW c \in Calls, Proceed(c)
  PROVE  /\ \E p \in {"running", "sleeping", "leaving"} : phase' = [phase EXCEPT ![c] = p]
         /\ nextCallAt' \in Nat
         /\ slot' \in [Calls -> Nat \cup {Never}]
         /\ startedAt' \in [Calls -> Nat \cup {Never}]
BY LimitsAssumption DEF LimitsAssumption, TypeOK, Proceed, Run, Later

LEMMA AcquirePermits == ASSUME PermitsOK, NEW c \in Calls, Acquire(c) PROVE PermitsOK'
<1> USE DEF PermitsOK
<1>1. c \notin Holders
  BY DEF Acquire, Holders
<1>2. CASE c \in aborted
  BY <1>1, <1>2, PhaseStep DEF Acquire, TypeOK, Phases, HolderPhases
<1>3. CASE c \notin aborted /\ available > 0
  <2>1. phase' = [phase EXCEPT ![c] = "admitted"] /\ available' = available - 1 /\ waiters' = <<>>
    BY <1>3 DEF Acquire, NoIdlePermit
  <2>2. Cardinality(Holders') = Cardinality(Holders) + 1
    BY <2>1, <1>1, HoldersCount DEF Phases, HolderPhases
  <2>3. TypeOK'
    BY <1>3, <2>1, LimitsAssumption, EmptySeq DEF LimitsAssumption, Acquire, TypeOK, Phases
  <2>4. PermitsConserved'
    BY <2>1, <2>2, HoldersFinite, LimitsAssumption
       DEF TypeOK, PermitsConserved, LimitsAssumption
  <2>5. QueueOK' /\ NoIdlePermit'
    BY <2>1 DEF QueueOK, NoIdlePermit
  <2> QED
    BY <2>3, <2>4, <2>5
<1>4. CASE c \notin aborted /\ ~(available > 0)
  <2>1. phase' = [phase EXCEPT ![c] = "queued"] /\ waiters' = Append(waiters, c)
        /\ available' = available /\ available = 0
    BY <1>4, LimitsAssumption DEF LimitsAssumption, Acquire, TypeOK
  <2>2. Cardinality(Holders') = Cardinality(Holders)
    BY <2>1, <1>1, HoldersCount DEF Phases, HolderPhases
  <2>3. /\ waiters' \in Seq(Calls) /\ Len(waiters') = Len(waiters) + 1
        /\ \A i \in 1..Len(waiters) : waiters'[i] = waiters[i]
        /\ waiters'[Len(waiters) + 1] = c
        /\ Len(waiters) \in Nat /\ DOMAIN waiters' = 1..(Len(waiters) + 1)
        /\ DOMAIN waiters = 1..Len(waiters)
    BY <2>1, AppendProperties, LenProperties DEF TypeOK
  <2>4. \A i \in DOMAIN waiters : waiters[i] # c /\ waiters[i] \in Calls
    BY DEF QueueOK, TypeOK, Acquire
  <2>5. QueueOK'
    BY <2>1, <2>3, <2>4 DEF QueueOK, TypeOK
  <2>6. TypeOK'
    BY <2>1, <2>3 DEF Acquire, TypeOK, Phases
  <2> QED
    BY <2>1, <2>2, <2>5, <2>6 DEF PermitsConserved, NoIdlePermit
<1> QED
  BY <1>2, <1>3, <1>4

LEMMA MovePermits ==
  ASSUME PermitsOK, NEW c \in Calls, Admitted(c) \/ Wake(c) \/ FnSettles(c)
  PROVE  PermitsOK'
<1>1. TypeOK'
  BY ProceedType DEF PermitsOK, TypeOK, Admitted, Wake, FnSettles, Run, Phases
<1>2. \E p \in {"running", "sleeping", "leaving"} : phase' = [phase EXCEPT ![c] = p]
  BY ProceedType DEF PermitsOK, Admitted, Wake, FnSettles, Run
<1>3. c \in Holders /\ phase[c] # "queued" /\ UNCHANGED <<available, waiters>>
  BY DEF Holders, Admitted, Wake, FnSettles
<1> QED
  BY <1>1, <1>2, <1>3, PhaseStep DEF PermitsOK, Phases, HolderPhases

LEMMA ReleasePermits == ASSUME PermitsOK, NEW c \in Calls, Release(c) PROVE PermitsOK'
<1> USE DEF PermitsOK
<1>1. c \in Holders
  BY DEF Release, Holders
<1>2. Cardinality(Holders) \in Nat /\ Cardinality(Holders) # 0 /\ IsFiniteSet(Holders)
  BY <1>1, HoldersFinite, FS_EmptySet
<1>3. CASE waiters # <<>>
  <2> DEFINE h == Head(waiters)
  <2>1. /\ h \in Calls /\ h = waiters[1] /\ Len(waiters) \in Nat \ {0}
        /\ DOMAIN waiters = 1..Len(waiters)
        /\ waiters' = Tail(waiters) /\ waiters' \in Seq(Calls)
        /\ Len(waiters') = Len(waiters) - 1
        /\ DOMAIN waiters' = 1..(Len(waiters) - 1)
        /\ \A i \in DOMAIN waiters' : waiters'[i] = waiters[i + 1]
    <3>1. waiters \in Seq(Calls) /\ waiters' = Tail(waiters) /\ Head(waiters) = waiters[1]
      BY <1>3 DEF Release, TypeOK
    <3>2. Len(waiters) \in Nat \ {0} /\ DOMAIN waiters = 1..Len(waiters)
      BY <1>3, <3>1, LenProperties, EmptySeq
    <3>3. /\ Head(waiters) \in Calls /\ waiters' \in Seq(Calls)
          /\ Len(waiters') = Len(waiters) - 1
          /\ \A i \in 1..Len(waiters') : waiters'[i] = waiters[i + 1]
      BY <1>3, <3>1, HeadTailProperties
    <3>4. DOMAIN waiters' = 1..Len(waiters')
      BY <3>3, LenProperties
    <3> QED
      BY <3>1, <3>2, <3>3, <3>4
  <2> HIDE DEF h
  <2>2. phase[h] = "queued" /\ h \notin Holders /\ h # c
    <3>1. 1 \in DOMAIN waiters
      BY <2>1
    <3>2. phase[h] = "queued"
      BY <2>1, <3>1 DEF QueueOK
    <3> QED
      BY <1>1, <3>2 DEF Holders
  <2>3. phase' = [phase EXCEPT ![c] = "done", ![h] = "admitted"] /\ available' = available
    BY <1>3 DEF Release, h
  <2>4. Holders' = (Holders \ {c}) \cup {h}
    BY <2>1, <2>2, <2>3 DEF TypeOK, Holders, Phases
  <2>5. Cardinality(Holders') = Cardinality(Holders)
    <3>1. IsFiniteSet(Holders \ {c}) /\ Cardinality(Holders \ {c}) = Cardinality(Holders) - 1
      BY <1>1, <1>2, FS_RemoveElement
    <3>2. Cardinality((Holders \ {c}) \cup {h}) = Cardinality(Holders \ {c}) + 1
      BY <2>2, <3>1, FS_AddElement
    <3> QED
      BY <1>2, <2>4, <3>1, <3>2
  <2>6. QueueOK'
    <3>1. \A i \in DOMAIN waiters' : waiters[i + 1] # h /\ waiters[i + 1] # c /\ waiters[i + 1] \in Calls
      <4> SUFFICES ASSUME NEW i \in 1..(Len(waiters) - 1)
                   PROVE  waiters[i + 1] # h /\ waiters[i + 1] # c /\ waiters[i + 1] \in Calls
        BY <2>1
      <4>1. i + 1 \in DOMAIN waiters /\ 1 \in DOMAIN waiters /\ i + 1 # 1
        BY <2>1
      <4>2. phase[waiters[i + 1]] = "queued" /\ waiters[i + 1] # waiters[1]
        BY <4>1 DEF QueueOK
      <4>3. waiters[i + 1] \in Calls
        BY <4>1 DEF TypeOK
      <4> QED
        BY <2>1, <4>2, <4>3 DEF Release
    <3> QED
      BY <2>1, <2>3, <3>1 DEF QueueOK, TypeOK
  <2>7. TypeOK'
    BY <2>1, <2>3 DEF Release, TypeOK, Phases
  <2>8. available = 0
    BY <1>3, LimitsAssumption DEF NoIdlePermit, TypeOK, LimitsAssumption
  <2> QED
    BY <2>3, <2>5, <2>6, <2>7, <2>8 DEF PermitsConserved, NoIdlePermit
<1>4. CASE waiters = <<>>
  <2>1. phase' = [phase EXCEPT ![c] = "done"] /\ available' = available + 1 /\ waiters' = <<>>
    BY <1>4 DEF Release
  <2>2. Cardinality(Holders') = Cardinality(Holders) - 1
    BY <1>1, <2>1, HoldersCount DEF Phases, HolderPhases
  <2>3. PermitsConserved' /\ available' \in 0..MaxConcurrent
    BY <1>2, <2>1, <2>2, LimitsAssumption DEF PermitsConserved, TypeOK, LimitsAssumption
  <2>4. TypeOK'
    BY <2>1, <2>3, EmptySeq DEF Release, TypeOK, Phases
  <2> QED
    BY <2>1, <2>3, <2>4 DEF QueueOK, NoIdlePermit
<1> QED
  BY <1>3, <1>4

LEMMA AbortPermits == ASSUME PermitsOK, NEW c \in Calls, Abort(c) PROVE PermitsOK'
<1> USE DEF PermitsOK
<1>1. aborted' \subseteq Calls /\ UNCHANGED <<available, nextCallAt, slot, startedAt, now>>
  BY DEF Abort, TypeOK
<1>2. CASE phase[c] = "queued"
  <2>1. PICK k \in DOMAIN waiters :
          /\ waiters[k] = c
          /\ waiters' = SubSeq(waiters, 1, k - 1) \o SubSeq(waiters, k + 1, Len(waiters))
    BY <1>2 DEF Abort
  <2>2. phase' = [phase EXCEPT ![c] = "done"]
    BY <1>2 DEF Abort
  <2>3. /\ Len(waiters) \in Nat /\ DOMAIN waiters = 1..Len(waiters)
        /\ \A i \in 1..Len(waiters) : waiters[i] \in Calls
    BY LenProperties DEF TypeOK
  <2> DEFINE pre == SubSeq(waiters, 1, k - 1)
  <2> DEFINE post == SubSeq(waiters, k + 1, Len(waiters))
  <2>4. /\ pre \in Seq(Calls) /\ Len(pre) = k - 1
        /\ \A i \in 1..(k - 1) : pre[i] = waiters[i]
    BY <2>3, SubSeqProperties
  <2>5. /\ post \in Seq(Calls) /\ Len(post) = Len(waiters) - k
        /\ \A i \in 1..(Len(waiters) - k) : post[i] = waiters[k + i]
    BY <2>3, SubSeqProperties
  <2> HIDE DEF pre, post
  <2>6. /\ waiters' \in Seq(Calls) /\ DOMAIN waiters' = 1..(Len(waiters) - 1)
        /\ \A i \in 1..(Len(waiters) - 1) :
             waiters'[i] = IF i < k THEN waiters[i] ELSE waiters[i + 1]
    <3>1. waiters' = pre \o post
      BY <2>1 DEF pre, post
    <3>2. /\ waiters' \in Seq(Calls) /\ Len(waiters') = Len(waiters) - 1
          /\ \A i \in 1..(Len(waiters) - 1) :
               waiters'[i] = IF i <= k - 1 THEN pre[i] ELSE post[i - (k - 1)]
      <4>1. /\ pre \o post \in Seq(Calls)
            /\ Len(pre \o post) = Len(pre) + Len(post)
            /\ \A i \in 1..(Len(pre) + Len(post)) :
                 (pre \o post)[i] = IF i <= Len(pre) THEN pre[i] ELSE post[i - Len(pre)]
        BY <2>4, <2>5, ConcatProperties
      <4>2. Len(pre) + Len(post) = Len(waiters) - 1 /\ Len(pre) = k - 1
        BY <2>3, <2>4, <2>5
      <4> QED
        BY <3>1, <4>1, <4>2
    <3>3. DOMAIN waiters' = 1..Len(waiters')
      BY <3>2, LenProperties
    <3>4. ASSUME NEW i \in 1..(Len(waiters) - 1)
          PROVE  waiters'[i] = IF i < k THEN waiters[i] ELSE waiters[i + 1]
      <4>1. CASE i < k
        BY <2>3, <2>4, <3>2, <4>1
      <4>2. CASE ~(i < k)
        <5>1. i - (k - 1) \in 1..(Len(waiters) - k) /\ k + (i - (k - 1)) = i + 1
          BY <2>3, <4>2
        <5>2. waiters'[i] = post[i - (k - 1)]
          BY <2>3, <3>2, <4>2
        <5> QED
          BY <2>5, <4>2, <5>1, <5>2
      <4> QED
        BY <4>1, <4>2
    <3> QED
      BY <3>2, <3>3, <3>4
  <2>7. QueueOK'
    <3>1. \A i \in DOMAIN waiters' : \E j \in DOMAIN waiters :
            waiters'[i] = waiters[j] /\ j # k /\ j = IF i < k THEN i ELSE i + 1
      BY <2>3, <2>6
    <3>2. \A j \in DOMAIN waiters : j # k => waiters[j] # c
      BY <2>1 DEF QueueOK
    <3>3. \A i \in DOMAIN waiters' : phase'[waiters'[i]] = "queued"
      BY <2>2, <2>3, <3>1, <3>2 DEF QueueOK, TypeOK
    <3>4. \A i, j \in DOMAIN waiters' : waiters'[i] = waiters'[j] => i = j
      BY <2>3, <2>6, <3>1 DEF QueueOK
    <3> QED
      BY <3>3, <3>4 DEF QueueOK
  <2>8. c \notin Holders
    BY <1>2 DEF Holders
  <2>9. Cardinality(Holders') = Cardinality(Holders)
    BY <2>2, <2>8, HoldersCount DEF Phases, HolderPhases
  <2>10. available = 0
    <3>1. waiters # <<>>
      BY <2>1
    <3> QED
      BY <3>1, LimitsAssumption DEF NoIdlePermit, TypeOK, LimitsAssumption
  <2>11. TypeOK'
    BY <1>1, <2>2, <2>6 DEF TypeOK, Phases
  <2> QED
    BY <1>1, <2>7, <2>9, <2>10, <2>11 DEF PermitsConserved, NoIdlePermit
<1>3. CASE phase[c] = "sleeping"
  <2>1. phase' = [phase EXCEPT ![c] = "leaving"] /\ waiters' = waiters
    BY <1>3 DEF Abort
  <2>2. QueueOK' /\ PermitsConserved' /\ NoIdlePermit' /\ phase' \in [Calls -> Phases]
    BY <1>1, <1>3, <2>1, PhaseStep DEF Phases, HolderPhases, Holders
  <2> QED
    BY <1>1, <2>1, <2>2 DEF TypeOK
<1>4. CASE phase[c] \notin {"queued", "sleeping"}
  <2>1. UNCHANGED <<phase, waiters>>
    BY <1>4 DEF Abort
  <2> QED
    BY <1>1, <2>1 DEF TypeOK, QueueOK, PermitsConserved, NoIdlePermit, Holders
<1> QED
  BY <1>2, <1>3, <1>4
LEMMA TickPermits == ASSUME PermitsOK, Tick PROVE PermitsOK'
BY DEF PermitsOK, Tick, TypeOK, QueueOK, PermitsConserved, NoIdlePermit, Holders

LEMMA PermitsStep == ASSUME PermitsOK, [Next]_vars PROVE PermitsOK'
<1>1. CASE Next
  <2>1. ASSUME NEW c \in Calls, Acquire(c) \/ Move(c) \/ Abort(c) PROVE PermitsOK'
    BY <2>1, AcquirePermits, MovePermits, ReleasePermits, AbortPermits DEF Move
  <2> QED
    BY <1>1, <2>1, TickPermits DEF Next
<1>2. CASE UNCHANGED vars
  BY <1>2 DEF vars, PermitsOK, TypeOK, QueueOK, PermitsConserved, NoIdlePermit, Holders
<1> QED
  BY <1>1, <1>2
-----------------------------------------------------------------------------
(* Slots *)

\* A step that only moves calls on, the sleeping ones to their end.
LEMMA QuietSlots ==
  ASSUME IInv, UNCHANGED <<nextCallAt, slot, startedAt, now>>,
         \A c \in Calls : /\ phase'[c] \in {"new", "queued", "admitted"} =>
                               phase[c] \in {"new", "queued", "admitted"}
                          /\ phase'[c] = "sleeping" => phase[c] = "sleeping"
  PROVE  SlotsOK'
BY DEF IInv, SlotsOK, SlotOf, SlotsApart

LEMMA AcquireSlots == ASSUME IInv, NEW c \in Calls, Acquire(c) PROVE SlotsOK'
BY QuietSlots DEF Acquire, IInv, PermitsOK, TypeOK

LEMMA SettleSlots == ASSUME IInv, NEW c \in Calls, FnSettles(c) PROVE SlotsOK'
BY QuietSlots DEF FnSettles, IInv, PermitsOK, TypeOK

LEMMA AbortSlots == ASSUME IInv, NEW c \in Calls, Abort(c) PROVE SlotsOK'
BY QuietSlots DEF Abort, IInv, PermitsOK, TypeOK

LEMMA ReleaseSlots == ASSUME IInv, NEW c \in Calls, Release(c) PROVE SlotsOK'
<1>1. waiters # <<>> => Head(waiters) \in Calls /\ phase[Head(waiters)] = "queued"
  <2> SUFFICES ASSUME waiters # <<>> PROVE Head(waiters) \in Calls /\ phase[Head(waiters)] = "queued"
    OBVIOUS
  <2>1. waiters \in Seq(Calls) /\ Head(waiters) = waiters[1]
    BY DEF IInv, PermitsOK, TypeOK
  <2>2. 1 \in DOMAIN waiters
    BY <2>1, EmptySeq, LenProperties
  <2> QED
    BY <2>1, <2>2, HeadTailProperties DEF IInv, PermitsOK, QueueOK
<1> QED
  BY <1>1, QuietSlots DEF Release, IInv, PermitsOK, TypeOK

LEMMA WakeSlots == ASSUME IInv, NEW c \in Calls, Wake(c) PROVE SlotsOK'
<1>1. \A d \in Calls : SlotOf(d)'
  <2> SUFFICES ASSUME NEW d \in Calls PROVE SlotOf(d)'
    OBVIOUS
  <2>1. SlotOf(d) /\ SlotOf(c)
    BY DEF IInv, SlotsOK
  <2>2. CASE d = c
    BY <2>1, <2>2, LimitsAssumption
       DEF LimitsAssumption, IInv, PermitsOK, TypeOK, Wake, Run, SlotOf
  <2>3. CASE d # c
    BY <2>1, <2>3 DEF IInv, PermitsOK, TypeOK, Wake, Run, SlotOf
  <2> QED
    BY <2>2, <2>3
<1> QED
  BY <1>1 DEF IInv, Wake, Run, SlotsOK, SlotsApart

LEMMA AdmittedSlots == ASSUME IInv, NEW c \in Calls, Admitted(c) PROVE SlotsOK'
<1> USE DEF IInv, PermitsOK, TypeOK
<1>1. SlotOf(c) /\ phase[c] = "admitted" /\ now' = now /\ Proceed(c)
  BY DEF SlotsOK, Admitted
<1>2. CASE MinInterval = 0
  <2>1. /\ phase' = [phase EXCEPT ![c] = "running"] /\ UNCHANGED <<nextCallAt, slot>>
        /\ startedAt' = [startedAt EXCEPT ![c] = now]
    BY <1>1, <1>2 DEF Proceed, Run
  <2>2. \A d \in Calls : SlotOf(d)'
    BY <1>1, <1>2, <2>1 DEF SlotsOK, SlotOf
  <2> QED
    BY <2>1, <2>2 DEF SlotsOK, SlotsApart
<1>3. CASE MinInterval # 0
  <2> DEFINE due == IF nextCallAt > now THEN nextCallAt ELSE now
  <2>1. /\ slot' = [slot EXCEPT ![c] = due]
        /\ nextCallAt' = due + MinInterval
        /\ \/ nextCallAt <= now /\ Run(c)
           \/ /\ nextCallAt > now /\ UNCHANGED startedAt
              /\ \E p \in {"leaving", "sleeping"} : phase' = [phase EXCEPT ![c] = p]
    BY <1>1, <1>3 DEF Proceed, Later
  <2>2. due \in Nat /\ due # Never /\ nextCallAt <= due /\ now <= due
        /\ (nextCallAt <= now => due = now)
    BY DEF Never
  <2> HIDE DEF due
  <2>3. \A d \in Calls : SlotOf(d)'
    <3> SUFFICES ASSUME NEW d \in Calls PROVE SlotOf(d)'
      OBVIOUS
    <3>1. CASE d = c
      <4>1. slot'[c] = due /\ nextCallAt' = due + MinInterval
        BY <2>1
      <4>2. CASE nextCallAt <= now /\ Run(c)
        BY <1>1, <2>2, <3>1, <4>1, <4>2, LimitsAssumption DEF LimitsAssumption, Run, SlotOf
      <4>3. CASE nextCallAt > now /\ UNCHANGED startedAt
                 /\ \E p \in {"leaving", "sleeping"} : phase' = [phase EXCEPT ![c] = p]
        BY <1>1, <2>2, <3>1, <4>1, <4>3, LimitsAssumption DEF LimitsAssumption, SlotOf
      <4> QED
        BY <2>1, <4>2, <4>3
    <3>2. CASE d # c
      <4>1. phase'[d] = phase[d] /\ slot'[d] = slot[d] /\ startedAt'[d] = startedAt[d]
        BY <2>1, <3>2 DEF Run
      <4>2. slot[d] # Never => slot[d] + MinInterval <= nextCallAt' /\ slot[d] \in Nat
        BY <2>1, <2>2, LimitsAssumption DEF LimitsAssumption, SlotsOK, SlotOf
      <4> QED
        BY <1>1, <4>1, <4>2 DEF SlotsOK, SlotOf
    <3> QED
      BY <3>1, <3>2
  <2>4. \A d \in Calls : d # c /\ slot[d] # Never => slot[d] + MinInterval <= due
    BY <2>2, LimitsAssumption DEF LimitsAssumption, SlotsOK, SlotOf
  <2>5. \A d, e \in Calls : d # e => SlotsApart(d, e)'
    BY <2>1, <2>4 DEF SlotsOK, SlotsApart
  <2> QED
    BY <2>3, <2>5 DEF SlotsOK
<1> QED
  BY <1>2, <1>3

LEMMA TickSlots == ASSUME IInv, Tick PROVE SlotsOK'
<1>1. \A c \in Calls : SlotOf(c)'
  <2> SUFFICES ASSUME NEW c \in Calls PROVE SlotOf(c)'
    OBVIOUS
  <2>1. SlotOf(c)
    BY DEF IInv, SlotsOK
  <2>2. phase[c] = "sleeping" => now + 1 <= slot[c] + Late
    BY <2>1, LimitsAssumption DEF LimitsAssumption, IInv, PermitsOK, TypeOK, Tick, SlotOf, Never
  <2> QED
    BY <2>1, <2>2 DEF Tick, SlotOf
<1> QED
  BY <1>1 DEF IInv, Tick, SlotsOK, SlotsApart

LEMMA SlotsStep == ASSUME IInv, [Next]_vars PROVE SlotsOK'
<1>1. CASE Next
  <2>1. ASSUME NEW c \in Calls, Acquire(c) \/ Move(c) \/ Abort(c) PROVE SlotsOK'
    BY <2>1, AcquireSlots, AdmittedSlots, WakeSlots, SettleSlots, ReleaseSlots, AbortSlots DEF Move
  <2> QED
    BY <1>1, <2>1, TickSlots DEF Next
<1>2. CASE UNCHANGED vars
  BY <1>2 DEF vars, IInv, SlotsOK, SlotOf, SlotsApart
<1> QED
  BY <1>1, <1>2
-----------------------------------------------------------------------------
(* The theorems *)

LEMMA InitInv == Init => IInv
<1> SUFFICES ASSUME Init PROVE IInv
  OBVIOUS
<1>1. TypeOK
  BY LimitsAssumption, EmptySeq DEF LimitsAssumption, Init, TypeOK, Phases
<1>2. Holders = {}
  BY DEF Init, Holders
<1>3. PermitsConserved
  BY <1>2, FS_EmptySet, LimitsAssumption DEF LimitsAssumption, Init, PermitsConserved
<1>4. QueueOK /\ NoIdlePermit
  BY DEF Init, QueueOK, NoIdlePermit
<1>5. SlotsOK
  BY DEF Init, SlotsOK, SlotOf, SlotsApart
<1> QED
  BY <1>1, <1>3, <1>4, <1>5 DEF IInv, PermitsOK

LEMMA InvHolds == Spec => []IInv
<1>1. IInv /\ [Next]_vars => IInv'
  BY PermitsStep, SlotsStep DEF IInv
<1> QED
  BY <1>1, InitInv, PTL DEF Spec

\* The variables of the limiter keep their types; the count of free permits
\* never leaves 0..maxConcurrent.
THEOREM TypeCorrect == Spec => []TypeOK
<1>1. IInv => TypeOK
  BY DEF IInv, PermitsOK
<1> QED
  BY <1>1, InvHolds, PTL

\* The semaphore neither loses nor duplicates a permit, for any number of calls
\* and any timing of aborts and releases.
THEOREM PermitsConservedHolds == Spec => []PermitsConserved
<1>1. IInv => PermitsConserved
  BY DEF IInv, PermitsOK
<1> QED
  BY <1>1, InvHolds, PTL

\* No permit is ever free while a call waits: release hands it on.
THEOREM NoIdlePermitHolds == Spec => []NoIdlePermit
<1>1. IInv => NoIdlePermit
  BY DEF IInv, PermitsOK
<1> QED
  BY <1>1, InvHolds, PTL

\* The starts of any two calls are an interval apart, less the lateness of a
\* timer: reserveRateSlot reserves before it sleeps.
THEOREM SpacedStartsHolds == Spec => []SpacedStarts
<1>1. IInv => SpacedStarts
  <2> SUFFICES ASSUME IInv, NEW c \in Calls, NEW d \in Calls, c # d,
                      startedAt[c] # Never, startedAt[d] # Never, startedAt[c] <= startedAt[d]
               PROVE  startedAt[d] - startedAt[c] + Late >= MinInterval
    BY DEF SpacedStarts
  <2>1. startedAt[c] \in Nat /\ startedAt[d] \in Nat /\ Late \in Nat /\ MinInterval \in Nat
    BY LimitsAssumption DEF LimitsAssumption, IInv, PermitsOK, TypeOK
  <2>2. CASE MinInterval = 0
    BY <2>1, <2>2
  <2>3. CASE MinInterval > 0
    <3>1. /\ slot[c] \in Nat /\ slot[c] <= startedAt[c] /\ startedAt[c] <= slot[c] + Late
          /\ slot[d] \in Nat /\ slot[d] <= startedAt[d] /\ startedAt[d] <= slot[d] + Late
      BY <2>3 DEF IInv, PermitsOK, TypeOK, SlotsOK, SlotOf
    <3>2. slot[c] + MinInterval <= slot[d] \/ slot[d] + MinInterval <= slot[c]
      BY <3>1 DEF IInv, SlotsOK, SlotsApart, Never
    <3> QED
      BY <2>1, <3>1, <3>2
  <2> QED
    BY <2>1, <2>2, <2>3
<1> QED
  BY <1>1, InvHolds, PTL

\* A queued call is never overtaken: release takes the head of the queue.
THEOREM FirstComeFirstServedHolds == Spec => FirstComeFirstServed
<1> DEFINE A == \A i, j \in DOMAIN waiters :
                  i < j /\ phase[waiters[j]] = "queued" /\ phase'[waiters[j]] = "admitted"
                    => phase'[waiters[i]] # "queued"
<1>1. IInv /\ [Next]_vars => [A]_vars
  <2> SUFFICES ASSUME IInv, Next, NEW i \in DOMAIN waiters, NEW j \in DOMAIN waiters,
                      i < j, phase[waiters[j]] = "queued", phase'[waiters[j]] = "admitted"
               PROVE  FALSE
    OBVIOUS
  <2>1. /\ waiters \in Seq(Calls) /\ DOMAIN waiters = 1..Len(waiters) /\ Len(waiters) \in Nat
        /\ waiters[j] \in Calls /\ phase \in [Calls -> Phases]
    BY LenProperties DEF IInv, PermitsOK, TypeOK
  <2>2. PICK c \in Calls : Release(c)
    <3>1. ~Tick
      BY DEF Tick
    <3>2. ASSUME NEW c \in Calls, Acquire(c) \/ Abort(c) \/ Admitted(c) \/ Wake(c) \/ FnSettles(c)
          PROVE  FALSE
      BY <2>1, <3>2 DEF Acquire, Abort, Admitted, Proceed, Wake, Run, FnSettles
    <3> QED
      BY <3>1, <3>2 DEF Next, Move
  <2>3. waiters # <<>> /\ Head(waiters) = waiters[1] /\ 1 \in DOMAIN waiters
    BY <2>1
  <2>4. waiters[j] # waiters[1]
    BY <2>1, <2>3 DEF IInv, PermitsOK, QueueOK
  <2> QED
    BY <2>1, <2>2, <2>3, <2>4 DEF Release
<1> QED
  BY <1>1, InvHolds, PTL DEF Spec, FirstComeFirstServed
=============================================================================
