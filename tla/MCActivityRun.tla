--------------------------- MODULE MCActivityRun ---------------------------
(***************************************************************************)
(* Two versions of an activity on one worker, whose output schemas have    *)
(* one hash.  A refinement of the newer one, which no hash shows, no       *)
(* longer takes the legacy output, and its output check no longer takes    *)
(* the uncited one; the hook and moderation of the older one let only      *)
(* these two pass.  The newer one repairs an answer and is tried twice,    *)
(* the older one uses a cached session.                                    *)
(***************************************************************************)
EXTENDS ActivityRun

CONSTANTS old, new

MCOutputs == {"legacy", "uncited", "current"}
MCSchemaHash == [a \in Activities |-> "object"]
MCParses == [a \in Activities |-> IF a = old THEN MCOutputs ELSE {"uncited", "current"}]
MCChecked == [a \in Activities |-> IF a = old THEN MCOutputs ELSE {"legacy", "current"}]
MCFinalized == [a \in Activities |-> IF a = old THEN {"legacy", "uncited"} ELSE MCOutputs]
MCSession == [a \in Activities |-> IF a = old THEN "reference" ELSE "none"]
MCValidationRetries == [a \in Activities |-> IF a = old THEN 0 ELSE 1]
MCMaxAttempts == [a \in Activities |-> IF a = old THEN 1 ELSE 2]
=============================================================================
