-------------------------------- MODULE Saga --------------------------------
(***************************************************************************)
(* What the compensation stack of a workflow run promises, with the        *)
(* interpreter left out: operations take effect while the run goes         *)
(* forward; once it turns back, no operation takes effect any more, every  *)
(* one that did is undone once, an operation only after all that may have  *)
(* built on it; a run that turned back ends with nothing left to undo.     *)
(***************************************************************************)
CONSTANTS
  Ops,      \* the operations of the plan that have a compensation
  Precedes  \* <<a, b>>: the plan may let b build on a

VARIABLES
  phase,    \* forward, backward, committed or compensated
  done,     \* the operations that took effect
  undone    \* those whose compensation has run

vars == <<phase, done, undone>>

TypeOK ==
  /\ phase \in {"forward", "backward", "committed", "compensated"}
  /\ done \subseteq Ops
  /\ undone \subseteq done

Init ==
  /\ phase = "forward"
  /\ done = {}
  /\ undone = {}

Perform(o) ==
  /\ phase = "forward"
  /\ done' = done \cup {o}
  /\ UNCHANGED <<phase, undone>>

TurnBack ==
  /\ phase = "forward"
  /\ phase' = "backward"
  /\ UNCHANGED <<done, undone>>

Commit ==
  /\ phase = "forward"
  /\ phase' = "committed"
  /\ UNCHANGED <<done, undone>>

Undo(o) ==
  /\ phase = "backward"
  /\ o \in done \ undone
  /\ \A p \in done \ undone : <<o, p>> \notin Precedes
  /\ undone' = undone \cup {o}
  /\ UNCHANGED <<phase, done>>

Close ==
  /\ phase = "backward"
  /\ undone = done
  /\ phase' = "compensated"
  /\ UNCHANGED <<done, undone>>

Next ==
  \/ \E o \in Ops : Perform(o) \/ Undo(o)
  \/ TurnBack \/ Commit \/ Close

Spec == Init /\ [][Next]_vars
-----------------------------------------------------------------------------
\* Whatever has been undone, everything that may have built on it has been
\* undone too: the reverse walk of the compensation stack (workflows.ts:501).
UndoneFromTheEnd ==
  \A o \in undone, p \in done : <<o, p>> \in Precedes => p \in undone

\* A run that succeeded undid nothing, one that finished its unwind left
\* nothing behind (workflows.ts:906-924).
AllOrNothing ==
  /\ phase \in {"forward", "committed"} => undone = {}
  /\ phase = "compensated" => undone = done
=============================================================================
