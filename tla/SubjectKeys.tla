---------------------------- MODULE SubjectKeys ----------------------------
(***************************************************************************)
(* Per-subject payload keys (temporal-yaml/src/subject-keystore.ts).       *)
(*                                                                         *)
(* The keystore, shared by the processes of a deployment, holds one data   *)
(* key per subject: none yet, a live one, or the tombstone that destroying *)
(* it leaves.  Every process has bindings of its own, workflow id ->       *)
(* subjects: what its start path registered, else what it once read from   *)
(* the visibility store.  A payload is sealed under the keys of all the    *)
(* subjects its binding names; its key id is that set of subjects, and     *)
(* the empty set stands for the key all executions share.                  *)
(*                                                                         *)
(* Key bytes are left out: a key, once destroyed, never comes back, so a   *)
(* payload can be read exactly when every key its id names is live.        *)
(* Operators marked "Bug:" validate the properties and are used nowhere.   *)
(***************************************************************************)
EXTENDS Naturals, FiniteSets

CONSTANTS
  Subjects,       \* subject ids
  WorkflowIds,    \* workflow ids, which may be used again
  Procs           \* processes with a codec: those that start runs, and workers

ASSUME KeysAssumption == WorkflowIds # {} /\ Procs # {}

VARIABLES
  keystore,       \* subject -> absent, live or destroyed
  known           \* process -> workflow id -> {} or {the subjects bound to it}

keyVars == <<keystore, known>>

KeysTypeOK ==
  /\ keystore \in [Subjects -> {"absent", "live", "destroyed"}]
  /\ known \in [Procs -> [WorkflowIds -> {{}} \cup {{S} : S \in SUBSET Subjects}]]

KeysInit ==
  /\ keystore = [s \in Subjects |-> "absent"]
  /\ known = [p \in Procs |-> [id \in WorkflowIds |-> {}]]
-----------------------------------------------------------------------------
(* The keystore.                                                           *)

Destroyed == {s \in Subjects : keystore[s] = "destroyed"}

\* Decoding asks for each key without creating it: all of them must be live.
Readable(kid) == \A s \in kid : keystore[s] = "live"

\* What the keystore holds once dataKey(create) has run for the subjects in S.
Minted(S) ==
  [s \in Subjects |-> IF s \in S /\ keystore[s] = "absent" THEN "live" ELSE keystore[s]]

\* The payload is sealed under the keys of S; a destroyed one among them throws.
Seal(S) ==
  /\ S \cap Destroyed = {}
  /\ keystore' = Minted(S)

\* The keys asked for before the destroyed one have been created by then.
SealThrows(S) ==
  /\ S \cap Destroyed # {}
  /\ \E before \in SUBSET (S \ Destroyed) : keystore' = Minted(before)

\* Bug: only a key that exists is worth a tombstone.
TombstoneForLive(S) ==
  [s \in Subjects |-> IF s \in S /\ keystore[s] = "live" THEN "destroyed" ELSE keystore[s]]

\* destroySubjectKey leaves its tombstone whether or not there was a key.
Shredded(S) ==
  [s \in Subjects |-> IF s \in S THEN "destroyed" ELSE keystore[s]]
-----------------------------------------------------------------------------
(* The bindings of process p.                                              *)

\* The start path pins the subjects before the execution exists.
Register(p, id, S) == known' = [known EXCEPT ![p][id] = {S}]

\* A process that restarts begins with no bindings.
Forget(p) == known' = [known EXCEPT ![p] = [id \in WorkflowIds |-> {}]]
=============================================================================
