----------------------------- MODULE SagaProofs -----------------------------
(***************************************************************************)
(* What the abstract compensation protocol guarantees for every plan.      *)
(***************************************************************************)
EXTENDS Saga, TLAPS

\* The strengthening: nothing is undone before the run turns back, and from
\* then on the undone operations are closed under what built on them.
SagaInv ==
  /\ TypeOK
  /\ AllOrNothing
  /\ UndoneFromTheEnd

LEMMA InitInv == Init => SagaInv
BY DEF Init, SagaInv, TypeOK, AllOrNothing, UndoneFromTheEnd

LEMMA StepInv == SagaInv /\ [Next]_vars => SagaInv'
<1> SUFFICES ASSUME SagaInv, [Next]_vars PROVE SagaInv'
  OBVIOUS
<1> USE DEF SagaInv, TypeOK, AllOrNothing, UndoneFromTheEnd
<1>1. CASE \E o \in Ops : Perform(o)
  BY <1>1 DEF Perform
<1>2. CASE \E o \in Ops : Undo(o)
  <2>1. PICK o \in Ops : Undo(o)
    BY <1>2
  <2>2. UndoneFromTheEnd'
    BY <2>1 DEF Undo
  <2> QED
    BY <2>1, <2>2 DEF Undo
<1>3. CASE TurnBack
  BY <1>3 DEF TurnBack
<1>4. CASE Commit
  BY <1>4 DEF Commit
<1>5. CASE Close
  BY <1>5 DEF Close
<1>6. CASE UNCHANGED vars
  BY <1>6 DEF vars
<1> QED
  BY <1>1, <1>2, <1>3, <1>4, <1>5, <1>6 DEF Next

LEMMA InvHolds == Spec => []SagaInv
BY InitInv, StepInv, PTL DEF Spec

\* Every variable keeps its type, and only what took effect is ever undone.
THEOREM TypeCorrect == Spec => []TypeOK
<1>1. SagaInv => TypeOK
  BY DEF SagaInv
<1> QED
  BY <1>1, InvHolds, PTL

\* At any point of the unwind everything that may have built on an undone
\* operation has been undone: the reverse walk of runCompensations.
THEOREM UndoneFromTheEndHolds == Spec => []UndoneFromTheEnd
<1>1. SagaInv => UndoneFromTheEnd
  BY DEF SagaInv
<1> QED
  BY <1>1, InvHolds, PTL

\* A run ends with everything kept or with everything undone.
THEOREM AllOrNothingHolds == Spec => []AllOrNothing
<1>1. SagaInv => AllOrNothing
  BY DEF SagaInv
<1> QED
  BY <1>1, InvHolds, PTL
=============================================================================
