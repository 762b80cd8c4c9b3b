---------------------------- MODULE SubjectCache ----------------------------
(***************************************************************************)
(* The reference cross-run cache store (InMemoryCacheStore in              *)
(* temporal/src/execute.ts): records by key, and an index from subject to  *)
(* the keys of the records written for it.  set and eraseSubject contain   *)
(* no await, so each is one step.                                          *)
(* Operators marked "Bug:" validate the properties and are used nowhere.   *)
(***************************************************************************)
CONSTANTS
  Subjects,
  CacheKeys       \* digests: what a record depends on, its subjects not included

VARIABLES
  stored,         \* the keys that have a record
  recordSubjects, \* key -> the subjects its record was written for
  subjectIndex    \* subject -> keys

CacheTypeOK ==
  /\ stored \subseteq CacheKeys
  /\ recordSubjects \in [CacheKeys -> SUBSET Subjects]
  /\ subjectIndex \in [Subjects -> SUBSET CacheKeys]

CacheInit ==
  /\ stored = {}
  /\ recordSubjects = [k \in CacheKeys |-> {}]
  /\ subjectIndex = [s \in Subjects |-> {}]

\* Bug: the entries of the record that is overwritten stay.
SetWithoutUnindex(k, S) ==
  /\ stored' = stored \cup {k}
  /\ recordSubjects' = [recordSubjects EXCEPT ![k] = S]
  /\ subjectIndex' = [s \in Subjects |-> IF s \in S THEN subjectIndex[s] \cup {k} ELSE subjectIndex[s]]

\* Bug: the prior record's entries are dropped after the new ones are made.
SetThenUnindex(k, S) ==
  /\ stored' = stored \cup {k}
  /\ recordSubjects' = [recordSubjects EXCEPT ![k] = S]
  /\ subjectIndex' = [s \in Subjects |->
       IF k \in stored /\ s \in recordSubjects[k] THEN subjectIndex[s] \ {k}
       ELSE IF s \in S THEN subjectIndex[s] \cup {k} ELSE subjectIndex[s]]

\* The prior record's entries are dropped before the new ones are made.
Set(k, S) ==
  /\ stored' = stored \cup {k}
  /\ recordSubjects' = [recordSubjects EXCEPT ![k] = S]
  /\ subjectIndex' = [s \in Subjects |->
       IF s \in S THEN subjectIndex[s] \cup {k}
       ELSE IF k \in stored /\ s \in recordSubjects[k] THEN subjectIndex[s] \ {k}
       ELSE subjectIndex[s]]

\* A record of several subjects goes with any of them, out of every index.
EraseFromCache(s) ==
  LET found == subjectIndex[s] \cap stored IN
  /\ stored' = stored \ found
  /\ recordSubjects' = [k \in CacheKeys |-> IF k \in found THEN {} ELSE recordSubjects[k]]
  /\ subjectIndex' = [t \in Subjects |-> subjectIndex[t] \ {k \in found : t \in recordSubjects[k]}]

\* The index finds every record of a subject and nothing else, through
\* overwrites by runs of other subjects and erasures of shared records
\* (InMemoryCacheStore's claim that a stale subject entry can never leak).
IndexExact ==
  /\ \A s \in Subjects : subjectIndex[s] = {k \in stored : s \in recordSubjects[k]}
  /\ \A k \in CacheKeys \ stored : recordSubjects[k] = {}
=============================================================================
