------------------------------ MODULE Policies ------------------------------
(***************************************************************************)
(* Project policies: the pairwise merge and its conflicts, the composition *)
(* of an applied closure (policy-composition.ts), the checks of a workflow *)
(* spec against a policy (policy-enforcement.ts) and of the tree of its    *)
(* sub-workflows (project-enforcement.ts).                                 *)
(*                                                                         *)
(* A policy is a record with one field per rule of merging, not one per    *)
(* field of the schema.  A dimension it leaves unset constrains nothing:   *)
(* an unset allow-list is the whole universe, an unset ceiling is Top,     *)
(* which no size exceeds.  An empty allow-list denies all.                 *)
(* Operators marked "Bug:" validate the properties and are used nowhere.   *)
(***************************************************************************)
EXTENDS Integers, Sequences, FiniteSets

CONSTANTS
  Providers, Models,
  Lists, Values,      \* flat allow-lists (hosts, addresses, sources, ...)
  Addresses, Regions, \* Temporal servers, and where they stand
  Scalars, Unset,     \* values without a stricter side (invalid_user_decision)
  Controls,           \* what a policy may require (require_*, *_required)
  Allowances,         \* what it may forbid (allow_*, retry_*)
  Ceilings, Top,      \* what it may bound, and a bound that bounds nothing
  Categories,         \* what a moderator may report
  Workflows, Steps

ASSUME PoliciesAssumption ==
  /\ Top \in Nat \ {0}
  /\ IsFiniteSet(Workflows)
  /\ IsFiniteSet(Steps)
  /\ Unset \notin Values \cup Regions

\* RISK_TIER_ORDER: safe, policy_gated, human_gated, prohibited.
Tiers == 0 .. 3
Prohibited == 3
NoTier == -1

Higher(a, b) == IF a >= b THEN a ELSE b
Lower(a, b) == IF a <= b THEN a ELSE b

\* providers.allowed and constrain_providers: provider -> its models.
Mappings == UNION {[S -> SUBSET Models] : S \in SUBSET Providers}
AnyProvider == [p \in Providers |-> Models]

\* address_regions, the one mapping that is no allow-list: none or empty
\* constrains nothing.
Places == UNION {[S -> Regions] : S \in SUBSET Addresses}

\* allowed_regions, if unset: also a process that attests no region passes.
AnyRegion == Regions \cup {Unset}

TierBlocks == [requires : SUBSET Controls, providers : Mappings]
Risks == [min : {NoTier} \cup Tiers, declare : BOOLEAN, block : [Tiers -> TierBlocks]]
Limits == [default : 0 .. Top, provider : [Providers -> 0 .. Top],
           model : [Providers \X Models -> 0 .. Top]]

Policy ==
  [providers : Mappings,
   lists     : [Lists -> SUBSET Values],
   scalars   : [Scalars -> Values \cup {Unset}],
   places    : Places,
   regions   : (SUBSET Regions) \cup {AnyRegion},
   requires  : SUBSET Controls,
   forbids   : SUBSET Allowances,
   ceiling   : [Ceilings -> 0 .. Top],
   total     : 0 .. Top,              \* steps of the whole tree
   depth     : 0 .. Top,              \* of the tree of sub-workflows
   limits    : Limits,                \* max_concurrent, by tier
   denies    : SUBSET Categories,     \* of a moderator's verdict
   threshold : 0 .. Top + 1,
   risk      : Risks]

EmptyBlock == [requires |-> {}, providers |-> AnyProvider]
NoRisk == [min |-> NoTier, declare |-> FALSE, block |-> [t \in Tiers |-> EmptyBlock]]
NoLimits == [default |-> Top, provider |-> [p \in Providers |-> Top],
             model |-> [pm \in Providers \X Models |-> Top]]

Unconstrained ==
  [providers |-> AnyProvider, lists |-> [l \in Lists |-> Values],
   scalars |-> [x \in Scalars |-> Unset], places |-> [a \in {} |-> Unset],
   regions |-> AnyRegion, requires |-> {}, forbids |-> {},
   ceiling |-> [c \in Ceilings |-> Top], total |-> Top, depth |-> Top,
   limits |-> NoLimits, denies |-> {}, threshold |-> Top + 1, risk |-> NoRisk]

\* What the checks read of a workflow's spec and, region, of the process.
Specs ==
  [provider  : Providers,
   model     : Models,              \* effectiveModelFor
   overrides : SUBSET Models,       \* collectOverrideModels
   open      : BOOLEAN,             \* a registry may override the model unseen
   uses      : [Lists -> SUBSET Values],
   meets     : [Scalars -> SUBSET Values],  \* the values it complies with
   address   : Addresses,
   region    : AnyRegion,           \* TYPEFLUX_TEMPORAL_REGION
   has       : SUBSET Controls,
   does      : SUBSET Allowances,
   size      : [Ceilings -> 0 .. Top],
   limit     : 0 .. Top,            \* the runtime's own max_concurrent
   tier      : {NoTier} \cup Tiers,
   steps     : SUBSET Steps,
   children  : SUBSET Workflows]
-----------------------------------------------------------------------------
(* The merge of two layers. *)

\* Two non-empty lists that share nothing contradict each other.
ListsAgree(a, b) == a = {} \/ b = {} \/ a \cap b # {}

MappingsAgree(a, b) ==
  LET shared == DOMAIN a \cap DOMAIN b
  IN  \/ DOMAIN a = {}
      \/ DOMAIN b = {}
      \/ shared # {} /\ \A p \in shared : ListsAgree(a[p], b[p])

\* Bug: the allow-list of the later layer replaces the other.
MergeMappingsLast(a, b) == b

MergeMappings(a, b) == [p \in DOMAIN a \cap DOMAIN b |-> a[p] \cap b[p]]

\* Two mappings must not place one address in two regions.
PlacesAgree(a, b) == \A x \in DOMAIN a \cap DOMAIN b : a[x] = b[x]

\* The keys of both layers: a later one may place an address it finds unplaced.
MergePlaces(a, b) ==
  [x \in DOMAIN a \cup DOMAIN b |-> IF x \in DOMAIN a THEN a[x] ELSE b[x]]

\* mergePolicyValue throws unless this holds.
Agree(l, r) ==
  /\ MappingsAgree(l.providers, r.providers)
  /\ \A x \in Lists : ListsAgree(l.lists[x], r.lists[x])
  /\ \A x \in Scalars : Unset \in {l.scalars[x], r.scalars[x]} \/ l.scalars[x] = r.scalars[x]
  /\ PlacesAgree(l.places, r.places)
  /\ ListsAgree(l.regions, r.regions)
  /\ \A t \in Tiers : MappingsAgree(l.risk.block[t].providers, r.risk.block[t].providers)

MergeBlocks(a, b) ==
  [requires  |-> a.requires \cup b.requires,
   providers |-> MergeMappings(a.providers, b.providers)]

MergeRisk(a, b) ==
  [min     |-> Higher(a.min, b.min),
   declare |-> a.declare \/ b.declare,
   block   |-> [t \in Tiers |-> MergeBlocks(a.block[t], b.block[t])]]

MergeLimits(a, b) ==
  [default  |-> Lower(a.default, b.default),
   provider |-> [p \in Providers |-> Lower(a.provider[p], b.provider[p])],
   model    |-> [pm \in Providers \X Models |-> Lower(a.model[pm], b.model[pm])]]

Merge(l, r) ==
  [providers |-> MergeMappings(l.providers, r.providers),
   lists     |-> [x \in Lists |-> l.lists[x] \cap r.lists[x]],
   scalars   |-> [x \in Scalars |-> IF l.scalars[x] = Unset THEN r.scalars[x] ELSE l.scalars[x]],
   places    |-> MergePlaces(l.places, r.places),
   regions   |-> l.regions \cap r.regions,
   requires  |-> l.requires \cup r.requires,
   forbids   |-> l.forbids \cup r.forbids,
   ceiling   |-> [c \in Ceilings |-> Lower(l.ceiling[c], r.ceiling[c])],
   total     |-> Lower(l.total, r.total),
   depth     |-> Lower(l.depth, r.depth),
   limits    |-> MergeLimits(l.limits, r.limits),
   denies    |-> l.denies \cup r.denies,
   threshold |-> Lower(l.threshold, r.threshold),
   risk      |-> MergeRisk(l.risk, r.risk)]

\* What has been merged after each layer.
Merged(layers) ==
  LET after[k \in 0 .. Len(layers)] ==
        IF k = 0 THEN Unconstrained ELSE Merge(after[k - 1], layers[k])
  IN  after

Composed(layers) == Merged(layers)[Len(layers)]

\* composeProjectPolicies does not throw: an empty closure is refused.
Composable(layers) ==
  layers # <<>> /\ \A k \in 1 .. Len(layers) : Agree(Merged(layers)[k - 1], layers[k])
-----------------------------------------------------------------------------
(* The checks of one spec. *)

\* providerModelPolicyFailure: also what the guard asks before each call.
ProviderAllowed(mapping, provider, model) ==
  provider \in DOMAIN mapping /\ model \in mapping[provider]

ProviderMet(s, p) ==
  /\ ProviderAllowed(p.providers, s.provider, s.model)
  /\ s.overrides \subseteq p.providers[s.provider]
  /\ s.open => p.providers[s.provider] = Models

\* The most specific tier that is set governs; the others are not looked at.
PolicyLimit(s, p) ==
  LET model == p.limits.model[<<s.provider, s.model>>]
      provider == p.limits.provider[s.provider]
  IN  IF model # Top THEN model ELSE IF provider # Top THEN provider ELSE p.limits.default

\* A mapping, once there is one, decides where the address stands; what the
\* process attests may only corroborate it.
RegionMet(s, p) ==
  IF DOMAIN p.places = {} THEN s.region \in p.regions
  ELSE /\ s.address \in DOMAIN p.places
       /\ p.places[s.address] \in p.regions
       /\ s.region \in {Unset, p.places[s.address]}

InPlay(p) == p.risk # NoRisk

Effective(s, p) == Higher(Higher(s.tier, 0), p.risk.min)

\* The requirements of the effective tier, and of no other.
TierMet(s, p, tier) ==
  /\ tier # Prohibited
  /\ p.risk.block[tier].requires \subseteq s.has
  /\ ProviderAllowed(p.risk.block[tier].providers, s.provider, s.model)

RiskMet(s, p) ==
  InPlay(p) => /\ p.risk.declare => s.tier # NoTier
               /\ TierMet(s, p, Effective(s, p))

\* validatePolicyCompliance has no failed check.
Complies(s, p) ==
  /\ ProviderMet(s, p)
  /\ \A x \in Lists : s.uses[x] \subseteq p.lists[x]
  /\ \A x \in Scalars : p.scalars[x] \in s.meets[x] \cup {Unset}
  /\ RegionMet(s, p)
  /\ p.requires \subseteq s.has
  /\ p.forbids \cap s.does = {}
  /\ \A c \in Ceilings : s.size[c] <= p.ceiling[c]
  /\ s.limit <= PolicyLimit(s, p)
  /\ RiskMet(s, p)

\* A moderator's verdict the guard turns into a block.
Blocked(p, verdict) ==
  verdict.categories \cap p.denies # {} \/ verdict.score >= p.threshold
-----------------------------------------------------------------------------
(* The checks of a tree.  specs is what a project resolves: a function on  *)
(* the workflows it declares.                                              *)

\* The paths along references, from a root and without a repetition.
Chains(specs, root) ==
  {c \in UNION {[1 .. n -> Workflows] : n \in 1 .. Cardinality(Workflows)} :
     /\ c[1] = root
     /\ \A i, j \in DOMAIN c : c[i] = c[j] => i = j
     /\ \A i \in 1 .. Len(c) - 1 :
          c[i] \in DOMAIN specs /\ c[i + 1] \in specs[c[i]].children}

Members(specs, root) == {c[Len(c)] : c \in Chains(specs, root)} \ {root}

TreeSteps(specs, root) ==
  {ws \in Workflows \X Steps :
     /\ ws[1] \in {root} \cup Members(specs, root)
     /\ ws[1] \in DOMAIN specs /\ ws[2] \in specs[ws[1]].steps}

\* The parent answers for the highest tier among its members.
CascadeMet(specs, root, p) ==
  \A m \in Members(specs, root) :
    /\ InPlay(p)
    /\ Effective(specs[m], p) > Effective(specs[root], p)
    /\ \A n \in Members(specs, root) : Effective(specs[n], p) <= Effective(specs[m], p)
    => TierMet(specs[root], p, Effective(specs[m], p))

\* validateSubworkflowClosurePolicy, and validateComposition of the root.
TreeComplies(specs, root, p) ==
  /\ Complies(specs[root], p)
  /\ \A m \in Members(specs, root) : m \in DOMAIN specs /\ Complies(specs[m], p)
  /\ Cardinality(TreeSteps(specs, root)) <= p.total
  /\ \A c \in Chains(specs, root) : Len(c) - 1 <= p.depth
  /\ CascadeMet(specs, root, p)

\* riskTierBindingCheck: a declared tier must mean something.
Declared(specs, root) ==
  {specs[w].tier : w \in ({root} \cup Members(specs, root)) \cap DOMAIN specs}

BindingMet(specs, root, p) ==
  \A d \in Declared(specs, root) :
    d > 0 /\ (\A e \in Declared(specs, root) : e <= d) =>
      LET tier == Higher(Effective(specs[root], p), d)
      IN  InPlay(p) /\ (tier = Prohibited \/ p.risk.block[tier] # EmptyBlock)
-----------------------------------------------------------------------------
(* What makes a set of layers safe to merge.                               *)

NoLooser(a, b) ==
  /\ a.requires \subseteq b.requires
  /\ DOMAIN b.providers \subseteq DOMAIN a.providers
  /\ \A p \in DOMAIN b.providers : b.providers[p] \subseteq a.providers[p]

\* A tier asks for what the tiers below it ask for.
Cumulative(p) ==
  \A t, u \in Tiers \ {Prohibited} : t <= u => NoLooser(p.risk.block[t], p.risk.block[u])

\* The tier of limits that governs a model: 0 none, 1 default, 2 provider, 3 model.
Governing(p, provider, model) ==
  IF p.limits.model[<<provider, model>>] # Top THEN 3
  ELSE IF p.limits.provider[provider] # Top THEN 2
  ELSE IF p.limits.default # Top THEN 1 ELSE 0

SameLevel(a, b) ==
  \A p \in Providers, m \in Models :
    \/ 0 \in {Governing(a, p, m), Governing(b, p, m)}
    \/ Governing(a, p, m) = Governing(b, p, m)

\* Layers that constrain where a server stands place the same addresses.
Placeless(p) == DOMAIN p.places = {} /\ p.regions = AnyRegion

SamePlaces(a, b) == Placeless(a) \/ Placeless(b) \/ a.places = b.places

Safe(layers) ==
  /\ \A l \in layers : Cumulative(l)
  /\ \A l, r \in layers : SameLevel(l, r) /\ SamePlaces(l, r)
=============================================================================
