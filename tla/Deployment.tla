----------------------------- MODULE Deployment -----------------------------
(***************************************************************************)
(* The way of a governed workflow to a running worker: plan files and      *)
(* their promotion (deployment-plans.ts, the deploy verb of cli.ts), the   *)
(* admission of every step (deployment.ts, project-enforcement.ts), the    *)
(* boot of a worker from its image (worker-entry.ts, runtime-target.ts)    *)
(* and the guard it asks before and after each model call.                 *)
(*                                                                         *)
(* A checkout is one version of the project.  Authors, image builds,       *)
(* reviewers, operators and pods act on their own, so between any two      *)
(* steps of one the others may have moved.  Equal hashes are of equal      *)
(* contents: a hash is a fixed choice among the contents equal to its own. *)
(* Operators marked "Bug:" validate the properties and are used nowhere.   *)
(***************************************************************************)
EXTENDS Policies

CONSTANTS
  Checkouts,
  Project,        \* checkout -> workflow -> spec, of those it declares
  Ids, Layer,     \* policy ids; checkout -> id -> policy
  Selections,     \* sequences of ids, <<>> when a command names none
  Bound,          \* checkout -> what its targets bind to Root
  Applied,        \* checkout -> selection -> its closure, <<>> if refused
  Valid,          \* the checkouts that validateProjectBundle accepts
  Root,           \* the workflow deployed
  Images, Pinned, \* image references, and those pinned by digest
  Start,          \* the first checkout
  RequireMerged,  \* --require-merged-plan
  MaxPlans,       \* bound: plan files at a time
  None

ASSUME DeploymentAssumption ==
  /\ Pinned \subseteq Images
  /\ Valid \subseteq Checkouts
  /\ Start \in Checkouts
  /\ <<>> \in Selections /\ \A c \in Checkouts : Applied[c][<<>>] = <<>>
  /\ \A c \in Checkouts :
       /\ Bound[c] \in Selections
       /\ Root \in DOMAIN Project[c]
       /\ \A w \in DOMAIN Project[c] : Project[c][w] \in Specs
       /\ \A i \in Ids : Layer[c][i] \in Policy
       /\ \A s \in Selections : Applied[c][s] \in Seq(Ids)

VARIABLES
  checkout,   \* what the operator's working tree holds
  image,      \* image -> the checkout it was built from, or None
  files,      \* plan name -> the file in the working tree, or None
  merged,     \* plan name -> the file on the default branch, or None
  approved,   \* history: the contents merged with their own hash
  artifact,   \* the manifest last generated, or None
  worker      \* the running worker, or None

vars == <<checkout, image, files, merged, approved, artifact, worker>>
-----------------------------------------------------------------------------
(* Composition and admission. *)

Layers(c, selected) ==
  [k \in 1 .. Len(Applied[c][selected]) |-> Layer[c][Applied[c][selected][k]]]

\* selectProjectPolicyIdsForWorkflow: the ids a command names win outright.
Selected(c, named) == IF named # <<>> THEN named ELSE Bound[c]

IdsOf(s) == {s[i] : i \in DOMAIN s}

\* What the policy hash is taken of; None when the selection does not compose.
Payload == [c \in Checkouts |-> [s \in Selections |->
  IF Composable(Layers(c, s))
  THEN [policy   |-> Composed(Layers(c, s)),
        selected |-> IdsOf(s),
        applied  |-> IdsOf(Applied[c][s])]
  ELSE None]]

PolicyHash == [c \in Checkouts |-> [s \in Selections |->
  IF Payload[c][s] = None THEN None
  ELSE CHOOSE r \in Checkouts \X Selections : Payload[r[1]][r[2]] = Payload[c][s]]]

\* What runs, without the provider or the controls it runs under.
Graph == [c \in Checkouts |->
  [w \in ({Root} \cup Members(Project[c], Root)) \cap DOMAIN Project[c] |->
     [steps |-> Project[c][w].steps, children |-> Project[c][w].children]]]

SpecDigest == [c \in Checkouts |-> CHOOSE d \in Checkouts : Graph[d] = Graph[c]]

\* buildProjectPolicyRuntimeGuard does not throw.
Admits == [c \in Checkouts |-> [s \in Selections |->
  /\ Payload[c][s] # None
  /\ TreeComplies(Project[c], Root, Payload[c][s].policy)
  /\ BindingMet(Project[c], Root, Payload[c][s].policy)]]

ImageAccepted(i, mutable) == i \in Pinned \/ mutable

\* What buildProjectDeploymentPlan and writeDeploymentPlan both refuse without.
Deployable(c, named, i, mutable) ==
  /\ ImageAccepted(i, mutable)
  /\ c \in Valid
  /\ Admits[c][Selected(c, named)]
-----------------------------------------------------------------------------
(* Plan files: a name, which is the hash of what was first written, the    *)
(* content, and the hash the file says it has.                             *)

PlanOf(c, selected, i) ==
  [digest |-> SpecDigest[c], selected |-> selected,
   policyHash |-> PolicyHash[c][selected], image |-> i, pinned |-> i \in Pinned]

Names == {PlanOf(c, s, i) : c \in Checkouts, s \in Selections, i \in Images}

\* loadDeploymentPlan recomputes the hash.
Intact(f) == f.hash = f.body

Init ==
  /\ checkout = Start
  /\ image = [i \in Images |-> None]
  /\ files = [n \in Names |-> None]
  /\ merged = [n \in Names |-> None]
  /\ approved = {}
  /\ artifact = None
  /\ worker = None

\* An author commits, or the operator checks another version out.
Edit ==
  /\ checkout' \in Checkouts
  /\ UNCHANGED <<image, files, merged, approved, artifact, worker>>

\* A digest names one content for good; a tag moves.
BuildImage(i, c) ==
  /\ i \in Pinned => image[i] = None
  /\ image' = [image EXCEPT ![i] = c]
  /\ UNCHANGED <<checkout, files, merged, approved, artifact, worker>>

Room(n) ==
  Cardinality({m \in DOMAIN files : m = n \/ files[m] # None \/ merged[m] # None}) <= MaxPlans

\* writeDeploymentPlan.  A file of that name must load and have that hash.
WritePlan(named, i, mutable) ==
  LET plan == PlanOf(checkout, Selected(checkout, named), i)
  IN  /\ Deployable(checkout, named, i, mutable)
      /\ Room(plan)
      /\ files[plan] # None => Intact(files[plan]) /\ files[plan].hash = plan
      /\ files' = [files EXCEPT ![plan] = [body |-> plan, hash |-> plan]]
      /\ UNCHANGED <<checkout, image, merged, approved, artifact, worker>>

\* Somebody changes the image of a plan by hand, and its hash or not.
EditFile(n, i, rehash) ==
  /\ files[n] # None
  /\ LET body == [files[n].body EXCEPT !.image = i]
     IN  files' = [files EXCEPT ![n] =
                     [body |-> body, hash |-> IF rehash THEN body ELSE files[n].hash]]
  /\ UNCHANGED <<checkout, image, merged, approved, artifact, worker>>

MergePlan(n) ==
  /\ files[n] # None
  /\ merged' = [merged EXCEPT ![n] = files[n]]
  /\ approved' = approved \cup (IF Intact(files[n]) THEN {files[n].body} ELSE {})
  /\ UNCHANGED <<checkout, image, files, artifact, worker>>

Pull(n) ==
  /\ merged[n] # None
  /\ files' = [files EXCEPT ![n] = merged[n]]
  /\ UNCHANGED <<checkout, image, merged, approved, artifact, worker>>
-----------------------------------------------------------------------------
(* The deploy verb. *)

\* Bug: a plan of that name on the default branch will do.
MergedGateByName(n) == RequireMerged => merged[n] # None

\* verifyPlanMergedToDefaultBranch: the same bytes at the same path.
MergedGate(n) == RequireMerged => merged[n] = files[n]

\* verifyDeploymentPlan finds no mismatch.
Verified(plan) ==
  /\ plan.digest = SpecDigest[checkout]
  /\ plan.policyHash = PolicyHash[checkout][Selected(checkout, plan.selected)]
  /\ checkout \in Valid

Manifest(selected, i, plan) ==
  [image |-> i, selected |-> selected, expect |-> PolicyHash[checkout][selected],
   plan |-> plan]

\* deploy --apply, with --allow-mutable-image or without: a plan written for a
\* mutable image needs no flag.  The verb reads the file for the gate and again
\* to load it; nobody writes to the operator's tree in between.
Promote(n, mutable) ==
  /\ files[n] # None
  /\ MergedGate(n)
  /\ Intact(files[n])
  /\ LET plan == files[n].body
     IN  /\ Verified(plan)
         /\ Deployable(checkout, plan.selected, plan.image, mutable \/ ~ plan.pinned)
         /\ artifact' = Manifest(Selected(checkout, plan.selected), plan.image, TRUE)
  /\ UNCHANGED <<checkout, image, files, merged, approved, worker>>

\* deploy by flags
Deploy(named, i, mutable) ==
  /\ Deployable(checkout, named, i, mutable)
  /\ artifact' = Manifest(Selected(checkout, named), i, FALSE)
  /\ UNCHANGED <<checkout, image, files, merged, approved, worker>>
-----------------------------------------------------------------------------
(* The worker. *)

\* Bug: the hash the worker was deployed under is not compared.
HashOfAny(c, selected, expect) == PolicyHash[c][selected] # None

\* resolveRuntimeTarget, with --expect-policy-hash of the manifest.
HashExpected(c, selected, expect) ==
  PolicyHash[c][selected] # None /\ PolicyHash[c][selected] = expect

\* main of worker-entry.ts: a pod starts, or starts again after it stopped.
Boot ==
  /\ worker = None
  /\ artifact # None
  /\ LET c == image[artifact.image]
     IN  /\ c # None
         /\ HashExpected(c, artifact.selected, artifact.expect)
         /\ Admits[c][artifact.selected]
         /\ worker' = [checkout |-> c, selected |-> artifact.selected,
                       expect |-> artifact.expect, plan |-> artifact.plan]
  /\ UNCHANGED <<checkout, image, files, merged, approved, artifact>>

Stop ==
  /\ worker # None
  /\ worker' = None
  /\ UNCHANGED <<checkout, image, files, merged, approved, artifact>>

\* RuntimePolicyGuard: a call to model is made, its result is passed on.
GuardPasses(c, policy, model, verdict) ==
  /\ ProviderAllowed(policy.providers, Project[c][Root].provider, model)
  /\ ~ Blocked(policy, verdict)

Next ==
  \/ Edit
  \/ \E i \in Images, c \in Checkouts : BuildImage(i, c)
  \/ \E s \in Selections, i \in Images, m \in BOOLEAN : WritePlan(s, i, m) \/ Deploy(s, i, m)
  \/ \E n \in DOMAIN files, i \in Images, r \in BOOLEAN : EditFile(n, i, r)
  \/ \E n \in DOMAIN files : MergePlan(n) \/ Pull(n)
  \/ \E n \in DOMAIN files, m \in BOOLEAN : Promote(n, m)
  \/ Boot
  \/ Stop

Spec == Init /\ [][Next]_vars
-----------------------------------------------------------------------------
Plans == [digest : Checkouts, selected : Selections \ {<<>>},
          policyHash : (Checkouts \X Selections) \cup {None},
          image : Images, pinned : BOOLEAN]
Files == [body : Plans, hash : Plans]
Manifests == [image : Images, selected : Selections,
              expect : (Checkouts \X Selections) \cup {None}, plan : BOOLEAN]
Workers == [checkout : Checkouts, selected : Selections,
            expect : Checkouts \X Selections, plan : BOOLEAN]

TypeOK ==
  /\ checkout \in Checkouts
  /\ image \in [Images -> Checkouts \cup {None}]
  /\ files \in [Names -> Files \cup {None}]
  /\ merged \in [Names -> Files \cup {None}]
  /\ approved \subseteq Plans
  /\ artifact \in Manifests \cup {None}
  /\ worker \in Workers \cup {None}

(* Properties.  They look at every checkout with the hash a worker was     *)
(* deployed under: the one its plan was reviewed at is among them.         *)

\* Each layer of c holds of the tree of running on its own.
LayersHold == [running \in Checkouts |-> [c \in Checkouts |-> [s \in Selections |->
  \A k \in DOMAIN Layers(c, s) : TreeComplies(Project[running], Root, Layers(c, s)[k])]]]

\* Whatever was edited, rebuilt or re-tagged on its way, the tree a worker
\* runs meets each layer of the policy it was deployed under on its own: no
\* layer merged after another has loosened it (policy-composition.ts:4-5).
\* The code keeps that of layers which are Safe, and not of all: tiers, limits
\* and the regions of addresses may loosen.
EveryLayerHolds ==
  worker # None =>
    \A c \in Checkouts :
      PolicyHash[c][worker.selected] = worker.expect =>
        LayersHold[worker.checkout][c][worker.selected]

Verdicts == [categories : SUBSET Categories, score : -1 .. Top]

\* What the guard of running lets through, each layer of c lets through.
CallsCovered == [running \in Checkouts |-> [c \in Checkouts |-> [s \in Selections |->
  \A model \in Models, verdict \in Verdicts :
    GuardPasses(running, Payload[running][s].policy, model, verdict) =>
      \A k \in DOMAIN Layers(c, s) : GuardPasses(running, Layers(c, s)[k], model, verdict)]]]

\* No call a worker's guard lets through is one that some layer of the policy
\* it was deployed under forbids, by model or by the moderator's verdict.
CallsAllowed ==
  worker # None =>
    \A c \in Checkouts :
      PolicyHash[c][worker.selected] = worker.expect =>
        CallsCovered[worker.checkout][c][worker.selected]

\* What a plan deployed, and what a worker of it runs under, is what somebody
\* merged to the default branch: no edit made afterwards comes through.
ReviewedRuns ==
  RequireMerged =>
    /\ artifact # None /\ artifact.plan =>
         \E p \in approved : /\ p.image = artifact.image
                             /\ p.selected = artifact.selected
                             /\ p.policyHash = artifact.expect
    /\ worker # None /\ worker.plan =>
         \E p \in approved : /\ p.selected = worker.selected
                             /\ p.policyHash = PolicyHash[worker.checkout][worker.selected]
=============================================================================
