---------------------------- MODULE PolicyClosure ----------------------------
(***************************************************************************)
(* resolveProjectPolicyClosure (project-resolve.ts): the policies a        *)
(* selection stands for, each after the ones it extends and once.  An      *)
(* unknown id, or an id met again below itself, refuses the selection.     *)
(*                                                                         *)
(* extends is a function from the declared ids to the sequences of their   *)
(* parents.                                                                *)
(***************************************************************************)
EXTENDS Naturals, Sequences, SequencesExt

Refused == [refused |-> TRUE, applied |-> <<>>]

RECURSIVE VisitAll(_, _, _, _)

\* visit: applied is what the walk has applied so far, visiting its path.
Visit(extends, id, visiting, applied) ==
  IF id \in ToSet(applied)
  THEN [refused |-> FALSE, applied |-> applied]
  ELSE IF id \in visiting \/ id \notin DOMAIN extends
  THEN Refused
  ELSE LET parents == VisitAll(extends, extends[id], visiting \cup {id}, applied)
       IN  IF parents.refused THEN Refused
           ELSE [parents EXCEPT !.applied = Append(@, id)]

VisitAll(extends, ids, visiting, applied) ==
  IF ids = <<>>
  THEN [refused |-> FALSE, applied |-> applied]
  ELSE LET first == Visit(extends, Head(ids), visiting, applied)
       IN  IF first.refused THEN Refused
           ELSE VisitAll(extends, Tail(ids), visiting, first.applied)

\* Empty when the selection is refused.
Closure(extends, selected) == VisitAll(extends, selected, {}, <<>>).applied
-----------------------------------------------------------------------------
(* What the walk must return. *)

Parents(extends, ids) ==
  UNION {ToSet(extends[i]) : i \in ids \cap DOMAIN extends}

\* The ids met from ids, in any number of steps.
Reached(extends, ids) ==
  LET step[n \in 0 .. Cardinality(DOMAIN extends) + 1] ==
        IF n = 0 THEN ids ELSE step[n - 1] \cup Parents(extends, step[n - 1])
  IN  step[Cardinality(DOMAIN extends) + 1]

Cyclic(extends, id) == id \in Reached(extends, Parents(extends, {id}))

IsClosure(extends, selected, applied) ==
  LET reached == Reached(extends, ToSet(selected))
  IN  IF \/ ~ reached \subseteq DOMAIN extends
         \/ \E id \in reached : Cyclic(extends, id)
      THEN applied = <<>>
      ELSE /\ ToSet(applied) = reached
           /\ IsInjective(applied)
           /\ \A i \in DOMAIN applied :
                ToSet(extends[applied[i]]) \subseteq ToSet(SubSeq(applied, 1, i - 1))
=============================================================================
