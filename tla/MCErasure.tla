----------------------------- MODULE MCErasure -----------------------------
(***************************************************************************)
(* Two runs of one workflow id, of one subject or of both, started by a    *)
(* process that is a worker as well; another worker knows no binding.  The *)
(* operator erases the first subject, and asks what erasing the keys and   *)
(* executions of both would do.  A listing returns one execution.          *)
(***************************************************************************)
EXTENDS Erasure

CONSTANTS home, s1, s2

MCCallerProc == [c \in Callers |-> home]

MCAttributions == {{s1}, {s1, s2}}

MCRequests ==
  {[subjects |-> {s1}, dry |-> FALSE, surfaces |-> Surfaces],
   [subjects |-> {s1, s2}, dry |-> TRUE, surfaces |-> {"keystore", "executions"}]}
=============================================================================
