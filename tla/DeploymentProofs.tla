-------------------------- MODULE DeploymentProofs --------------------------
(***************************************************************************)
(* Proofs about Policies and Deployment, for every project, every set of   *)
(* policies and selections, and any number of plans and images.            *)
(*                                                                         *)
(* Tighter(m, l) is the order of the merge: whatever m allows, l allows.   *)
(* A composition is tighter than each of its layers, by induction on their *)
(* number, and each check of a spec but three is monotone in that order.   *)
(* Those are the risk tiers, of which only the effective one is looked at, *)
(* the limits, of which only the most specific one is, and the regions of  *)
(* servers, since an address may be unplaced in one layer and placed in    *)
(* the merge: hence the assumption AllSafe of the last theorem.            *)
(***************************************************************************)
EXTENDS Deployment, FiniteSetTheorems, SequenceTheorems, WellFoundedInduction, TLAPS

TighterMapping(m, l) ==
  /\ DOMAIN m \subseteq DOMAIN l
  /\ \A p \in DOMAIN m : m[p] \subseteq l[p]

TighterPlaces(m, l) ==
  /\ DOMAIN l \subseteq DOMAIN m
  /\ \A x \in DOMAIN l : m[x] = l[x]

TighterLimits(m, l) ==
  /\ m.default <= l.default
  /\ \A p \in Providers : m.provider[p] <= l.provider[p]
  /\ \A pm \in Providers \X Models : m.model[pm] <= l.model[pm]

TighterRisk(m, l) ==
  /\ l.min <= m.min
  /\ l.declare => m.declare
  /\ \A t \in Tiers : NoLooser(l.block[t], m.block[t])

Tighter(m, l) ==
  /\ TighterMapping(m.providers, l.providers)
  /\ \A x \in Lists : m.lists[x] \subseteq l.lists[x]
  /\ \A x \in Scalars : l.scalars[x] \in {Unset, m.scalars[x]}
  /\ TighterPlaces(m.places, l.places)
  /\ m.regions \subseteq l.regions
  /\ l.requires \subseteq m.requires
  /\ l.forbids \subseteq m.forbids
  /\ \A c \in Ceilings : m.ceiling[c] <= l.ceiling[c]
  /\ m.total <= l.total
  /\ m.depth <= l.depth
  /\ TighterLimits(m.limits, l.limits)
  /\ l.denies \subseteq m.denies
  /\ m.threshold <= l.threshold
  /\ TighterRisk(m.risk, l.risk)

\* A limit of m is one of the limits of some layer.
Attained(m, layers, n) ==
  \A p \in Providers, model \in Models :
    /\ m.limits.provider[p] # Top =>
         \E k \in 1 .. n : layers[k].limits.provider[p] # Top
    /\ m.limits.model[<<p, model>>] # Top =>
         \E k \in 1 .. n : layers[k].limits.model[<<p, model>>] # Top

\* An address m places is placed by some layer.
Placed(m, layers, n) ==
  \A x \in DOMAIN m.places : \E k \in 1 .. n : x \in DOMAIN layers[k].places
-----------------------------------------------------------------------------
(* Types. *)

LEMMA MappingsType ==
  ASSUME NEW a, a \in Mappings
  PROVE  /\ DOMAIN a \subseteq Providers
         /\ \A p \in DOMAIN a : a[p] \subseteq Models
         /\ a = [p \in DOMAIN a |-> a[p]]
BY DEF Mappings

LEMMA MergeMappingsType ==
  ASSUME NEW a \in Mappings, NEW b \in Mappings
  PROVE  MergeMappings(a, b) \in Mappings
<1> DEFINE D == DOMAIN a \cap DOMAIN b
<1>1. D \in SUBSET Providers
  BY MappingsType
<1>2. MergeMappings(a, b) \in [D -> SUBSET Models]
  BY MappingsType DEF MergeMappings
<1> QED BY <1>1, <1>2 DEF Mappings

LEMMA AnyProviderType == AnyProvider \in Mappings
<1>1. AnyProvider \in [Providers -> SUBSET Models]
  BY DEF AnyProvider
<1> QED BY <1>1 DEF Mappings

LEMMA PlacesType ==
  ASSUME NEW a \in Places
  PROVE  /\ DOMAIN a \subseteq Addresses
         /\ \A x \in DOMAIN a : a[x] \in Regions
         /\ a = [x \in DOMAIN a |-> a[x]]
BY DEF Places

LEMMA NowhereType == [a \in {} |-> Unset] \in Places
<1>1. [a \in {} |-> Unset] \in [{} -> Regions]
  OBVIOUS
<1>2. {} \in SUBSET Addresses
  OBVIOUS
<1> QED BY <1>1, <1>2 DEF Places

LEMMA MergePlacesType ==
  ASSUME NEW a \in Places, NEW b \in Places
  PROVE  MergePlaces(a, b) \in Places
<1> DEFINE D == DOMAIN a \cup DOMAIN b
<1>1. D \in SUBSET Addresses
  BY PlacesType
<1>2. MergePlaces(a, b) \in [D -> Regions]
  BY PlacesType DEF MergePlaces
<1> QED BY <1>1, <1>2 DEF Places

LEMMA UnconstrainedType == Unconstrained \in Policy
<1>1. NoLimits \in Limits
  BY PoliciesAssumption DEF NoLimits, Limits
<1>2. EmptyBlock \in TierBlocks
  BY AnyProviderType DEF EmptyBlock, TierBlocks
<1>3. NoRisk \in Risks
  BY <1>2 DEF NoRisk, Risks, NoTier, Tiers
<1> HIDE DEF NoLimits, NoRisk
<1> QED
  BY <1>1, <1>3, AnyProviderType, NowhereType, PoliciesAssumption DEF Unconstrained, Policy

LEMMA MergeLimitsType ==
  ASSUME NEW a \in Limits, NEW b \in Limits
  PROVE  MergeLimits(a, b) \in Limits
BY PoliciesAssumption DEF MergeLimits, Limits, Lower

LEMMA MergeRiskType ==
  ASSUME NEW a \in Risks, NEW b \in Risks
  PROVE  MergeRisk(a, b) \in Risks
<1>1. \A t \in Tiers : MergeBlocks(a.block[t], b.block[t]) \in TierBlocks
  <2> TAKE t \in Tiers
  <2>1. a.block[t] \in TierBlocks /\ b.block[t] \in TierBlocks
    BY DEF Risks
  <2>2. MergeMappings(a.block[t].providers, b.block[t].providers) \in Mappings
    BY <2>1, MergeMappingsType DEF TierBlocks
  <2>3. a.block[t].requires \cup b.block[t].requires \in SUBSET Controls
    BY <2>1 DEF TierBlocks
  <2> QED BY <2>2, <2>3 DEF MergeBlocks, TierBlocks
<1>2. [t \in Tiers |-> MergeBlocks(a.block[t], b.block[t])] \in [Tiers -> TierBlocks]
  BY <1>1
<1>3. Higher(a.min, b.min) \in {NoTier} \cup Tiers
  BY DEF Risks, Higher
<1>4. (a.declare \/ b.declare) \in BOOLEAN
  OBVIOUS
<1> QED BY <1>2, <1>3, <1>4 DEF MergeRisk, Risks

LEMMA MergeType ==
  ASSUME NEW l \in Policy, NEW r \in Policy
  PROVE  Merge(l, r) \in Policy
<1>1. /\ l.providers \in Mappings /\ r.providers \in Mappings
      /\ l.limits \in Limits /\ r.limits \in Limits
      /\ l.risk \in Risks /\ r.risk \in Risks
  BY DEF Policy
<1>2. /\ MergeMappings(l.providers, r.providers) \in Mappings
      /\ MergeLimits(l.limits, r.limits) \in Limits
      /\ MergeRisk(l.risk, r.risk) \in Risks
  BY <1>1, MergeMappingsType, MergeLimitsType, MergeRiskType
<1>3. [x \in Lists |-> l.lists[x] \cap r.lists[x]] \in [Lists -> SUBSET Values]
  BY DEF Policy
<1>4. [x \in Scalars |-> IF l.scalars[x] = Unset THEN r.scalars[x] ELSE l.scalars[x]]
        \in [Scalars -> Values \cup {Unset}]
  BY DEF Policy
<1>5. [c \in Ceilings |-> Lower(l.ceiling[c], r.ceiling[c])] \in [Ceilings -> 0 .. Top]
  BY PoliciesAssumption DEF Policy, Lower
<1>6. /\ Lower(l.total, r.total) \in 0 .. Top
      /\ Lower(l.depth, r.depth) \in 0 .. Top
      /\ Lower(l.threshold, r.threshold) \in 0 .. Top + 1
      /\ l.requires \cup r.requires \in SUBSET Controls
      /\ l.forbids \cup r.forbids \in SUBSET Allowances
      /\ l.denies \cup r.denies \in SUBSET Categories
  BY PoliciesAssumption DEF Policy, Lower
<1>7. MergePlaces(l.places, r.places) \in Places
  BY MergePlacesType DEF Policy
<1>8. l.regions \cap r.regions \in (SUBSET Regions) \cup {AnyRegion}
  BY DEF Policy, AnyRegion
<1> QED
  BY <1>2, <1>3, <1>4, <1>5, <1>6, <1>7, <1>8 DEF Merge, Policy
-----------------------------------------------------------------------------
(* The order of the merge. *)

LEMMA NoLooserTransitive ==
  ASSUME NEW a, NEW b, NEW c, NoLooser(a, b), NoLooser(b, c)
  PROVE  NoLooser(a, c)
BY DEF NoLooser

LEMMA TighterTransitive ==
  ASSUME NEW a \in Policy, NEW b \in Policy, NEW c \in Policy,
         Tighter(a, b), Tighter(b, c)
  PROVE  Tighter(a, c)
<1>1. TighterMapping(a.providers, c.providers)
  BY DEF Tighter, TighterMapping
<1>2. TighterLimits(a.limits, c.limits)
  <2>1. /\ a.limits \in Limits /\ b.limits \in Limits /\ c.limits \in Limits
        /\ TighterLimits(a.limits, b.limits) /\ TighterLimits(b.limits, c.limits)
    BY DEF Policy, Tighter
  <2> QED BY <2>1, PoliciesAssumption DEF TighterLimits, Limits
<1>3. TighterRisk(a.risk, c.risk)
  <2>1. /\ a.risk \in Risks /\ b.risk \in Risks /\ c.risk \in Risks
        /\ TighterRisk(a.risk, b.risk) /\ TighterRisk(b.risk, c.risk)
    BY DEF Policy, Tighter
  <2>2. c.risk.min <= a.risk.min
    BY <2>1 DEF TighterRisk, Risks, NoTier, Tiers
  <2>3. \A t \in Tiers : NoLooser(c.risk.block[t], a.risk.block[t])
    BY <2>1, NoLooserTransitive DEF TighterRisk
  <2> QED BY <2>1, <2>2, <2>3 DEF TighterRisk
<1>4. \A c1 \in Ceilings : a.ceiling[c1] <= c.ceiling[c1]
  BY PoliciesAssumption DEF Policy, Tighter
<1>5. a.total <= c.total /\ a.depth <= c.depth /\ a.threshold <= c.threshold
  BY PoliciesAssumption DEF Policy, Tighter
<1>6. /\ \A x \in Lists : a.lists[x] \subseteq c.lists[x]
      /\ \A x \in Scalars : c.scalars[x] \in {Unset, a.scalars[x]}
      /\ c.requires \subseteq a.requires
      /\ c.forbids \subseteq a.forbids
      /\ c.denies \subseteq a.denies
  BY DEF Tighter
<1>7. TighterPlaces(a.places, c.places) /\ a.regions \subseteq c.regions
  BY DEF Tighter, TighterPlaces
<1> QED BY <1>1, <1>2, <1>3, <1>4, <1>5, <1>6, <1>7 DEF Tighter

LEMMA LowerBound ==
  ASSUME NEW a \in Int, NEW b \in Int
  PROVE  Lower(a, b) <= a /\ Lower(a, b) <= b /\ Lower(a, b) \in {a, b}
BY DEF Lower

LEMMA MergeLimitsTighter ==
  ASSUME NEW a \in Limits, NEW b \in Limits
  PROVE  TighterLimits(MergeLimits(a, b), a) /\ TighterLimits(MergeLimits(a, b), b)
BY PoliciesAssumption DEF MergeLimits, TighterLimits, Limits, Lower

LEMMA MergeRiskTighter ==
  ASSUME NEW a \in Risks, NEW b \in Risks
  PROVE  TighterRisk(MergeRisk(a, b), a) /\ TighterRisk(MergeRisk(a, b), b)
<1> DEFINE m == MergeRisk(a, b)
<1>1. a.min <= m.min /\ b.min <= m.min
  BY DEF MergeRisk, Risks, Higher, NoTier, Tiers
<1>2. \A t \in Tiers : NoLooser(a.block[t], m.block[t]) /\ NoLooser(b.block[t], m.block[t])
  <2> TAKE t \in Tiers
  <2>1. m.block[t] = MergeBlocks(a.block[t], b.block[t])
    BY DEF MergeRisk
  <2>2. /\ m.block[t].requires = a.block[t].requires \cup b.block[t].requires
        /\ m.block[t].providers = MergeMappings(a.block[t].providers, b.block[t].providers)
    BY <2>1 DEF MergeBlocks
  <2> QED BY <2>2 DEF NoLooser, MergeMappings
<1>3. (a.declare => m.declare) /\ (b.declare => m.declare)
  BY DEF MergeRisk
<1> QED BY <1>1, <1>2, <1>3 DEF TighterRisk

LEMMA MergeTighter ==
  ASSUME NEW l \in Policy, NEW r \in Policy, Agree(l, r)
  PROVE  Tighter(Merge(l, r), l) /\ Tighter(Merge(l, r), r)
<1> DEFINE m == Merge(l, r)
<1>1. /\ TighterMapping(m.providers, l.providers)
      /\ TighterMapping(m.providers, r.providers)
  BY DEF Merge, MergeMappings, TighterMapping
<1>2. \A x \in Scalars : /\ l.scalars[x] \in {Unset, m.scalars[x]}
                         /\ r.scalars[x] \in {Unset, m.scalars[x]}
  BY DEF Merge, Agree
<1>3. \A x \in Lists : m.lists[x] \subseteq l.lists[x] /\ m.lists[x] \subseteq r.lists[x]
  BY DEF Merge
<1>4. \A c \in Ceilings : m.ceiling[c] <= l.ceiling[c] /\ m.ceiling[c] <= r.ceiling[c]
  BY PoliciesAssumption DEF Merge, Policy, Lower
<1>5. /\ m.total <= l.total /\ m.total <= r.total
      /\ m.depth <= l.depth /\ m.depth <= r.depth
      /\ m.threshold <= l.threshold /\ m.threshold <= r.threshold
  BY PoliciesAssumption DEF Merge, Policy, Lower
<1>6. TighterLimits(m.limits, l.limits) /\ TighterLimits(m.limits, r.limits)
  <2>1. l.limits \in Limits /\ r.limits \in Limits /\ m.limits = MergeLimits(l.limits, r.limits)
    BY DEF Policy, Merge
  <2> QED BY <2>1, MergeLimitsTighter
<1>7. TighterRisk(m.risk, l.risk) /\ TighterRisk(m.risk, r.risk)
  <2>1. l.risk \in Risks /\ r.risk \in Risks /\ m.risk = MergeRisk(l.risk, r.risk)
    BY DEF Policy, Merge
  <2> QED BY <2>1, MergeRiskTighter
<1>8. /\ l.requires \cup r.requires = m.requires
      /\ l.forbids \cup r.forbids = m.forbids
      /\ l.denies \cup r.denies = m.denies
  BY DEF Merge
<1>9. /\ TighterPlaces(m.places, l.places)
      /\ TighterPlaces(m.places, r.places)
  <2>1. m.places = MergePlaces(l.places, r.places)
    BY DEF Merge
  <2>2. PlacesAgree(l.places, r.places)
    BY DEF Agree
  <2> QED BY <2>1, <2>2 DEF MergePlaces, PlacesAgree, TighterPlaces
<1>10. m.regions \subseteq l.regions /\ m.regions \subseteq r.regions
  BY DEF Merge
<1> HIDE DEF m
<1>11. Tighter(m, l) /\ Tighter(m, r)
  BY <1>1, <1>2, <1>3, <1>4, <1>5, <1>6, <1>7, <1>8, <1>9, <1>10 DEF Tighter
<1> QED BY <1>11 DEF m

\* A limit that is set was set in one of the two.
LEMMA MergeLimitsAttains ==
  ASSUME NEW a, NEW b, NEW p \in Providers, NEW model \in Models
  PROVE  /\ MergeLimits(a, b).provider[p] # Top => a.provider[p] # Top \/ b.provider[p] # Top
         /\ MergeLimits(a, b).model[<<p, model>>] # Top =>
              a.model[<<p, model>>] # Top \/ b.model[<<p, model>>] # Top
<1>1. MergeLimits(a, b).provider[p] = Lower(a.provider[p], b.provider[p])
  BY DEF MergeLimits
<1>2. MergeLimits(a, b).model[<<p, model>>] = Lower(a.model[<<p, model>>], b.model[<<p, model>>])
  <2>1. <<p, model>> \in Providers \X Models
    OBVIOUS
  <2> QED BY <2>1 DEF MergeLimits
<1> QED BY <1>1, <1>2 DEF Lower

LEMMA MergeAttains ==
  ASSUME NEW l, NEW r, NEW p \in Providers, NEW model \in Models
  PROVE  /\ Merge(l, r).limits.provider[p] # Top =>
              l.limits.provider[p] # Top \/ r.limits.provider[p] # Top
         /\ Merge(l, r).limits.model[<<p, model>>] # Top =>
              l.limits.model[<<p, model>>] # Top \/ r.limits.model[<<p, model>>] # Top
<1>1. Merge(l, r).limits = MergeLimits(l.limits, r.limits)
  BY DEF Merge
<1> QED BY <1>1, MergeLimitsAttains
-----------------------------------------------------------------------------
(* The composition of any number of layers. *)

LEMMA Least ==
  ASSUME NEW T, T \subseteq Nat, T # {}
  PROVE  \E n \in T : \A m \in T : ~ (m < n)
<1>1. \E x \in T : \A y \in T : ~ (<<y, x>> \in OpToRel(<, Nat))
  BY NatLessThanWellFounded, WFMin, Zenon
<1>2. PICK x \in T : \A y \in T : ~ (<<y, x>> \in OpToRel(<, Nat))
  BY <1>1
<1>3. \A y \in T : ~ (y < x)
  BY <1>2 DEF OpToRel
<1> QED BY <1>3

\* The recursive function exists: otherwise it would not for a least length.
LEMMA MergedUnfolds ==
  ASSUME NEW layers, Len(layers) \in Nat
  PROVE  Merged(layers) =
           [k \in 0 .. Len(layers) |->
              IF k = 0 THEN Unconstrained ELSE Merge(Merged(layers)[k - 1], layers[k])]
<1> DEFINE Upto(n) ==
      \E f : f = [k \in 0 .. n |->
                    IF k = 0 THEN Unconstrained ELSE Merge(f[k - 1], layers[k])]
    T == {n \in Nat : n <= Len(layers) /\ ~Upto(n)}
<1>1. T = {}
  <2>1. SUFFICES ASSUME T # {} PROVE FALSE
    OBVIOUS
  <2>2. PICK n \in T : \A m \in T : ~ (m < n)
    BY <2>1, Least
  <2>3. n # 0
    <3>1. [k \in 0 .. 0 |-> Unconstrained] =
            [k \in 0 .. 0 |-> IF k = 0 THEN Unconstrained
                              ELSE Merge([j \in 0 .. 0 |-> Unconstrained][k - 1], layers[k])]
      OBVIOUS
    <3> QED BY <3>1
  <2>4. n - 1 \in Nat /\ ~ (n - 1 \in T)
    BY <2>2, <2>3
  <2>5. Upto(n - 1)
    BY <2>4
  <2>6. PICK g : g = [k \in 0 .. n - 1 |->
                        IF k = 0 THEN Unconstrained ELSE Merge(g[k - 1], layers[k])]
    BY <2>5
  <2> DEFINE h == [k \in 0 .. n |-> IF k = n THEN Merge(g[n - 1], layers[n]) ELSE g[k]]
  <2>7. h = [k \in 0 .. n |-> IF k = 0 THEN Unconstrained ELSE Merge(h[k - 1], layers[k])]
    <3>1. \A k \in 0 .. n :
            h[k] = (IF k = 0 THEN Unconstrained ELSE Merge(h[k - 1], layers[k]))
      <4> TAKE k \in 0 .. n
      <4>1. CASE k = n
        <5>1. h[n - 1] = g[n - 1]
          BY <2>4
        <5> QED BY <5>1, <4>1, <2>3
      <4>2. CASE k # n
        <5>1. k \in 0 .. n - 1
          BY <4>2, <2>4
        <5>2. h[k] = g[k]
          BY <4>2
        <5>3. k # 0 => h[k - 1] = g[k - 1]
          BY <4>2, <5>1
        <5>4. g[k] = (IF k = 0 THEN Unconstrained ELSE Merge(g[k - 1], layers[k]))
          BY <5>1, <2>6
        <5> QED BY <5>2, <5>3, <5>4
      <4> QED BY <4>1, <4>2
    <3> QED BY <3>1
  <2>8. Upto(n)
    BY <2>7
  <2> QED BY <2>8
<1>2. Upto(Len(layers))
  BY <1>1
<1> HIDE DEF Upto
<1> QED BY <1>2 DEF Upto, Merged

LEMMA MergedStep ==
  ASSUME NEW layers \in Seq(Policy)
  PROVE  /\ Merged(layers)[0] = Unconstrained
         /\ \A k \in 1 .. Len(layers) :
              Merged(layers)[k] = Merge(Merged(layers)[k - 1], layers[k])
<1>1. Len(layers) \in Nat
  OBVIOUS
<1> QED BY <1>1, MergedUnfolds, Zenon, SMT

\* After n layers: a policy, tighter than all of them, that invents no limit
\* and no place.
Composes(layers, n) ==
  /\ Merged(layers)[n] \in Policy
  /\ \A k \in 1 .. n : Tighter(Merged(layers)[n], layers[k])
  /\ Attained(Merged(layers)[n], layers, n)
  /\ Placed(Merged(layers)[n], layers, n)

LEMMA ComposesFirst ==
  ASSUME NEW layers \in Seq(Policy)
  PROVE  Composes(layers, 0)
<1>1. Merged(layers)[0] = Unconstrained
  BY MergedStep
<1>2. Attained(Unconstrained, layers, 0)
  BY DEF Attained, Unconstrained, NoLimits
<1>3. Placed(Unconstrained, layers, 0)
  BY DEF Placed, Unconstrained
<1> QED BY <1>1, <1>2, <1>3, UnconstrainedType DEF Composes

LEMMA ComposesNext ==
  ASSUME NEW layers \in Seq(Policy), Composable(layers),
         NEW n \in 1 .. Len(layers), Composes(layers, n - 1)
  PROVE  Composes(layers, n)
<1> DEFINE before == Merged(layers)[n - 1]
           m == Merged(layers)[n]
<1>1. layers[n] \in Policy /\ before \in Policy
  BY DEF Composes
<1>2. m = Merge(before, layers[n])
  BY MergedStep
<1>3. Agree(before, layers[n])
  BY DEF Composable
<1>4. m \in Policy
  BY <1>1, <1>2, MergeType
<1>5. Tighter(m, before) /\ Tighter(m, layers[n])
  BY <1>1, <1>2, <1>3, MergeTighter
<1>6. \A k \in 1 .. n : Tighter(m, layers[k])
  <2> TAKE k \in 1 .. n
  <2>1. CASE k = n
    BY <2>1, <1>5
  <2>2. CASE k # n
    <3>1. k \in 1 .. n - 1
      BY <2>2
    <3>2. Tighter(before, layers[k])
      BY <3>1 DEF Composes
    <3>3. layers[k] \in Policy
      BY <3>1
    <3> QED BY <3>2, <3>3, <1>1, <1>4, <1>5, TighterTransitive
  <2> QED BY <2>1, <2>2
<1>7. Attained(m, layers, n)
  <2>1. Attained(before, layers, n - 1)
    BY DEF Composes
  <2>2. SUFFICES ASSUME NEW p \in Providers, NEW model \in Models
                 PROVE  /\ m.limits.provider[p] # Top =>
                             \E k \in 1 .. n : layers[k].limits.provider[p] # Top
                        /\ m.limits.model[<<p, model>>] # Top =>
                             \E k \in 1 .. n : layers[k].limits.model[<<p, model>>] # Top
    BY DEF Attained
  <2>3. /\ m.limits.provider[p] # Top =>
             before.limits.provider[p] # Top \/ layers[n].limits.provider[p] # Top
        /\ m.limits.model[<<p, model>>] # Top =>
             before.limits.model[<<p, model>>] # Top \/ layers[n].limits.model[<<p, model>>] # Top
    BY <1>2, MergeAttains
  <2>4. /\ before.limits.provider[p] # Top =>
             \E k \in 1 .. n - 1 : layers[k].limits.provider[p] # Top
        /\ before.limits.model[<<p, model>>] # Top =>
             \E k \in 1 .. n - 1 : layers[k].limits.model[<<p, model>>] # Top
    BY <2>1 DEF Attained
  <2>5. n \in 1 .. n /\ \A k \in 1 .. n - 1 : k \in 1 .. n
    OBVIOUS
  <2> HIDE DEF m, before
  <2> QED BY <2>3, <2>4, <2>5
<1>8. Placed(m, layers, n)
  <2>1. SUFFICES ASSUME NEW x \in DOMAIN m.places
                 PROVE  \E k \in 1 .. n : x \in DOMAIN layers[k].places
    BY DEF Placed
  <2>2. m.places = MergePlaces(before.places, layers[n].places)
    BY <1>2 DEF Merge
  <2>3. x \in DOMAIN before.places \/ x \in DOMAIN layers[n].places
    BY <2>2 DEF MergePlaces
  <2>4. x \in DOMAIN before.places => \E k \in 1 .. n - 1 : x \in DOMAIN layers[k].places
    BY DEF Composes, Placed
  <2>5. n \in 1 .. n /\ \A k \in 1 .. n - 1 : k \in 1 .. n
    OBVIOUS
  <2> HIDE DEF m, before
  <2> QED BY <2>3, <2>4, <2>5
<1> HIDE DEF m
<1> QED BY <1>4, <1>6, <1>7, <1>8 DEF Composes, m

LEMMA AllCompose ==
  ASSUME NEW layers \in Seq(Policy), Composable(layers)
  PROVE  Composes(layers, Len(layers))
<1> DEFINE T == {n \in Nat : n <= Len(layers) /\ ~Composes(layers, n)}
<1>1. T = {}
  <2>1. SUFFICES ASSUME T # {} PROVE FALSE
    OBVIOUS
  <2>2. PICK n \in T : \A m \in T : ~ (m < n)
    BY <2>1, Least
  <2>3. n # 0
    BY ComposesFirst
  <2>4. n \in 1 .. Len(layers) /\ n - 1 \in Nat /\ ~ (n - 1 \in T)
    BY <2>2, <2>3
  <2>5. Composes(layers, n - 1)
    BY <2>4
  <2>6. Composes(layers, n)
    BY <2>4, <2>5, ComposesNext
  <2> QED BY <2>6
<1>2. Len(layers) \in Nat
  OBVIOUS
<1> QED BY <1>1, <1>2
-----------------------------------------------------------------------------
(* The checks are monotone. *)

LEMMA ProviderMonotone ==
  ASSUME NEW a, NEW b, TighterMapping(a, b), NEW provider, NEW model,
         ProviderAllowed(a, provider, model)
  PROVE  ProviderAllowed(b, provider, model)
BY DEF TighterMapping, ProviderAllowed

LEMMA ProviderMetMonotone ==
  ASSUME NEW m \in Policy, NEW l \in Policy, NEW s \in Specs,
         Tighter(m, l), ProviderMet(s, m)
  PROVE  ProviderMet(s, l)
<1>1. TighterMapping(m.providers, l.providers)
  BY DEF Tighter
<1>2. ProviderAllowed(l.providers, s.provider, s.model)
  BY <1>1, ProviderMonotone DEF ProviderMet
<1>3. s.provider \in DOMAIN m.providers /\ s.provider \in DOMAIN l.providers
  BY <1>2 DEF ProviderMet, ProviderAllowed
<1>4. m.providers[s.provider] \subseteq l.providers[s.provider]
  BY <1>1, <1>3 DEF TighterMapping
<1>5. l.providers[s.provider] \subseteq Models
  <2>1. l.providers \in Mappings
    BY DEF Policy
  <2> QED BY <2>1, <1>3, MappingsType
<1>6. s.overrides \subseteq l.providers[s.provider]
  BY <1>4 DEF ProviderMet
<1>7. s.open => l.providers[s.provider] = Models
  BY <1>4, <1>5 DEF ProviderMet
<1> QED BY <1>2, <1>6, <1>7 DEF ProviderMet

\* The limit of the tier that governs l governs m too, and is no higher.
LEMMA LimitMonotone ==
  ASSUME NEW m \in Policy, NEW l \in Policy, NEW s \in Specs, NEW layers, NEW n,
         Tighter(m, l), Attained(m, layers, n),
         \A k \in 1 .. n : SameLevel(l, layers[k])
  PROVE  PolicyLimit(s, m) <= PolicyLimit(s, l)
<1> DEFINE p == s.provider
           model == s.model
<1>1. p \in Providers /\ model \in Models /\ <<p, model>> \in Providers \X Models
  BY DEF Specs
<1> HIDE DEF p, model
<1> DEFINE mm == m.limits.model[<<p, model>>]
           mp == m.limits.provider[p]
           md == m.limits.default
           lm == l.limits.model[<<p, model>>]
           lp == l.limits.provider[p]
           ld == l.limits.default
<1>2. /\ mm \in 0 .. Top /\ mp \in 0 .. Top /\ md \in 0 .. Top
      /\ lm \in 0 .. Top /\ lp \in 0 .. Top /\ ld \in 0 .. Top
  <2>1. m.limits \in Limits /\ l.limits \in Limits
    BY DEF Policy
  <2> QED BY <2>1, <1>1 DEF Limits
<1>3. mm <= lm /\ mp <= lp /\ md <= ld
  BY <1>1 DEF Tighter, TighterLimits
<1>4. /\ PolicyLimit(s, m) = IF mm # Top THEN mm ELSE IF mp # Top THEN mp ELSE md
      /\ PolicyLimit(s, l) = IF lm # Top THEN lm ELSE IF lp # Top THEN lp ELSE ld
  BY DEF PolicyLimit, p, model
<1>5. Governing(l, p, model) =
        IF lm # Top THEN 3 ELSE IF lp # Top THEN 2 ELSE IF ld # Top THEN 1 ELSE 0
  BY DEF Governing
<1>6. \A k \in 1 .. n : \/ Governing(l, p, model) = 0 \/ Governing(layers[k], p, model) = 0
                        \/ Governing(l, p, model) = Governing(layers[k], p, model)
  BY <1>1 DEF SameLevel
<1>7. mm # Top => Governing(l, p, model) \in {0, 3}
  <2> HAVE mm # Top
  <2>1. PICK k \in 1 .. n : layers[k].limits.model[<<p, model>>] # Top
    BY <1>1 DEF Attained
  <2>2. Governing(layers[k], p, model) = 3
    BY <2>1 DEF Governing
  <2> QED BY <2>2, <1>6
<1>8. mp # Top => Governing(l, p, model) \in {0, 2, 3}
  <2> HAVE mp # Top
  <2>1. PICK k \in 1 .. n : layers[k].limits.provider[p] # Top
    BY <1>1 DEF Attained
  <2>2. Governing(layers[k], p, model) \in {2, 3}
    BY <2>1 DEF Governing
  <2> QED BY <2>2, <1>6, <1>5
<1> HIDE DEF mm, mp, md, lm, lp, ld
<1> QED BY <1>2, <1>3, <1>4, <1>5, <1>7, <1>8, PoliciesAssumption

\* A layer that constrains where a server stands places what m places.
LEMMA RegionMonotone ==
  ASSUME NEW m \in Policy, NEW l \in Policy, NEW s \in Specs, NEW layers, NEW n,
         Tighter(m, l), Placed(m, layers, n),
         \A k \in 1 .. n : SamePlaces(l, layers[k]),
         RegionMet(s, m)
  PROVE  RegionMet(s, l)
<1>1. CASE Placeless(l)
  <2>1. s.region \in AnyRegion
    BY DEF Specs
  <2> QED BY <1>1, <2>1 DEF Placeless, RegionMet
<1>2. CASE ~Placeless(l)
  <2>1. DOMAIN m.places \subseteq DOMAIN l.places
    <3> SUFFICES ASSUME NEW x \in DOMAIN m.places PROVE x \in DOMAIN l.places
      OBVIOUS
    <3>1. PICK k \in 1 .. n : x \in DOMAIN layers[k].places
      BY DEF Placed
    <3>2. ~Placeless(layers[k])
      BY <3>1 DEF Placeless
    <3> QED BY <1>2, <3>1, <3>2 DEF SamePlaces
  <2>2. DOMAIN m.places = DOMAIN l.places /\ \A x \in DOMAIN l.places : m.places[x] = l.places[x]
    BY <2>1 DEF Tighter, TighterPlaces
  <2>3. m.regions \subseteq l.regions
    BY DEF Tighter
  <2> QED BY <2>2, <2>3 DEF RegionMet
<1> QED BY <1>1, <1>2

LEMMA EffectiveType ==
  ASSUME NEW m \in Policy, NEW s \in Specs
  PROVE  Effective(s, m) \in Tiers
<1>1. m.risk.min \in {NoTier} \cup Tiers
  BY DEF Policy, Risks
<1>2. s.tier \in {NoTier} \cup Tiers
  BY DEF Specs
<1> QED BY <1>1, <1>2 DEF Effective, Higher, Tiers, NoTier

LEMMA EffectiveMonotone ==
  ASSUME NEW m \in Policy, NEW l \in Policy, NEW s \in Specs, Tighter(m, l)
  PROVE  Effective(s, l) <= Effective(s, m)
<1>1. m.risk.min \in {NoTier} \cup Tiers /\ l.risk.min \in {NoTier} \cup Tiers
  BY DEF Policy, Risks
<1>2. s.tier \in {NoTier} \cup Tiers
  BY DEF Specs
<1>3. l.risk.min <= m.risk.min
  BY DEF Tighter, TighterRisk
<1> QED BY <1>1, <1>2, <1>3 DEF Effective, Higher, Tiers, NoTier

LEMMA InPlayMonotone ==
  ASSUME NEW m \in Policy, NEW l \in Policy, Tighter(m, l), InPlay(l)
  PROVE  InPlay(m)
<1> SUFFICES ASSUME m.risk = NoRisk
             PROVE  l.risk = NoRisk
  BY DEF InPlay
<1>1. l.risk \in Risks
  BY DEF Policy
<1>2. TighterRisk(NoRisk, l.risk)
  BY DEF Tighter
<1>3. l.risk.min = NoTier
  BY <1>1, <1>2 DEF Risks, TighterRisk, NoRisk, NoTier, Tiers
<1>4. l.risk.declare = FALSE
  BY <1>1, <1>2 DEF Risks, TighterRisk, NoRisk
<1>5. \A t \in Tiers : l.risk.block[t] = EmptyBlock
  <2> TAKE t \in Tiers
  <2>1. l.risk.block[t] \in TierBlocks
    BY <1>1 DEF Risks
  <2>2. NoLooser(l.risk.block[t], EmptyBlock)
    BY <1>2 DEF TighterRisk, NoRisk
  <2>3. l.risk.block[t].requires = {}
    BY <2>2 DEF NoLooser, EmptyBlock
  <2>4. l.risk.block[t].providers = AnyProvider
    <3>1. /\ DOMAIN AnyProvider \subseteq DOMAIN l.risk.block[t].providers
          /\ \A p \in DOMAIN AnyProvider : AnyProvider[p] \subseteq l.risk.block[t].providers[p]
      BY <2>2 DEF NoLooser, EmptyBlock
    <3>2. l.risk.block[t].providers \in Mappings
      BY <2>1 DEF TierBlocks
    <3> DEFINE a == l.risk.block[t].providers
    <3>3. a \in Mappings
      BY <3>2
    <3>4. DOMAIN AnyProvider = Providers /\ \A p \in Providers : AnyProvider[p] = Models
      BY DEF AnyProvider
    <3>5. DOMAIN a \subseteq Providers /\ (\A p \in DOMAIN a : a[p] \subseteq Models)
      BY <3>3, MappingsType
    <3>6. DOMAIN a = Providers
      BY <3>1, <3>4, <3>5
    <3>7. \A p \in Providers : a[p] = Models
      BY <3>1, <3>4, <3>5, <3>6
    <3>8. a = [p \in DOMAIN a |-> a[p]]
      BY <3>3, MappingsType
    <3> HIDE DEF a
    <3>9. a = AnyProvider
      BY <3>6, <3>7, <3>8 DEF AnyProvider
    <3> QED BY <3>9 DEF a
  <2> QED BY <2>1, <2>3, <2>4 DEF TierBlocks, EmptyBlock
<1>6. l.risk.block = [t \in Tiers |-> EmptyBlock]
  BY <1>1, <1>5 DEF Risks
<1> QED BY <1>1, <1>3, <1>4, <1>6 DEF Risks, NoRisk

\* What a higher tier of m asks for covers what a lower one of l asks for.
LEMMA TierMonotone ==
  ASSUME NEW m \in Policy, NEW l \in Policy, NEW s \in Specs, Tighter(m, l), Cumulative(l),
         NEW t \in Tiers, NEW u \in Tiers, t <= u, TierMet(s, m, u)
  PROVE  TierMet(s, l, t)
<1>1. u # Prohibited
  BY DEF TierMet
<1>2. t # Prohibited
  BY <1>1 DEF Tiers, Prohibited
<1>3. NoLooser(l.risk.block[t], l.risk.block[u])
  BY <1>1, <1>2 DEF Cumulative
<1>4. NoLooser(l.risk.block[u], m.risk.block[u])
  BY DEF Tighter, TighterRisk
<1>5. NoLooser(l.risk.block[t], m.risk.block[u])
  BY <1>3, <1>4, NoLooserTransitive
<1>6. /\ m.risk.block[u].requires \subseteq s.has
      /\ ProviderAllowed(m.risk.block[u].providers, s.provider, s.model)
  BY DEF TierMet
<1>7. TighterMapping(m.risk.block[u].providers, l.risk.block[t].providers)
  BY <1>5 DEF NoLooser, TighterMapping
<1>8. ProviderAllowed(l.risk.block[t].providers, s.provider, s.model)
  BY <1>6, <1>7, ProviderMonotone
<1>9. l.risk.block[t].requires \subseteq s.has
  BY <1>5, <1>6 DEF NoLooser
<1> QED BY <1>2, <1>8, <1>9 DEF TierMet

LEMMA RiskMonotone ==
  ASSUME NEW m \in Policy, NEW l \in Policy, NEW s \in Specs, Tighter(m, l), Cumulative(l),
         RiskMet(s, m)
  PROVE  RiskMet(s, l)
<1> SUFFICES ASSUME InPlay(l)
             PROVE  /\ l.risk.declare => s.tier # NoTier
                    /\ TierMet(s, l, Effective(s, l))
  BY DEF RiskMet
<1>1. InPlay(m)
  BY InPlayMonotone
<1>2. (m.risk.declare => s.tier # NoTier) /\ TierMet(s, m, Effective(s, m))
  BY <1>1 DEF RiskMet
<1>3. l.risk.declare => m.risk.declare
  BY DEF Tighter, TighterRisk
<1>4. TierMet(s, l, Effective(s, l))
  BY <1>2, EffectiveType, EffectiveMonotone, TierMonotone
<1> QED BY <1>2, <1>3, <1>4

LEMMA CompliesMonotone ==
  ASSUME NEW m \in Policy, NEW l \in Policy, NEW s \in Specs, NEW layers, NEW n,
         Tighter(m, l), Cumulative(l), Attained(m, layers, n), Placed(m, layers, n),
         \A k \in 1 .. n : SameLevel(l, layers[k]) /\ SamePlaces(l, layers[k]),
         Complies(s, m)
  PROVE  Complies(s, l)
<1>1. ProviderMet(s, l)
  BY ProviderMetMonotone DEF Complies
<1>2. RiskMet(s, l)
  BY RiskMonotone DEF Complies
<1>3. s.limit <= PolicyLimit(s, l)
  <2>1. PolicyLimit(s, m) <= PolicyLimit(s, l)
    BY LimitMonotone
  <2>2. PolicyLimit(s, m) \in Int /\ PolicyLimit(s, l) \in Int /\ s.limit \in Int
    <3>1. m.limits \in Limits /\ l.limits \in Limits
      BY DEF Policy
    <3>2. <<s.provider, s.model>> \in Providers \X Models /\ s.provider \in Providers /\ s.limit \in Int
      BY PoliciesAssumption DEF Specs
    <3> QED BY <3>1, <3>2, PoliciesAssumption DEF PolicyLimit, Limits
  <2>3. s.limit <= PolicyLimit(s, m)
    BY DEF Complies
  <2> QED BY <2>1, <2>2, <2>3
<1>4. \A x \in Lists : s.uses[x] \subseteq l.lists[x]
  BY DEF Complies, Tighter
<1>5. \A x \in Scalars : l.scalars[x] \in s.meets[x] \cup {Unset}
  BY DEF Complies, Tighter
<1>6. l.requires \subseteq s.has /\ l.forbids \cap s.does = {}
  BY DEF Complies, Tighter
<1>7. \A c \in Ceilings : s.size[c] <= l.ceiling[c]
  <2> TAKE c \in Ceilings
  <2>1. s.size[c] \in Int /\ m.ceiling[c] \in Int /\ l.ceiling[c] \in Int
    BY PoliciesAssumption DEF Specs, Policy
  <2>2. s.size[c] <= m.ceiling[c] /\ m.ceiling[c] <= l.ceiling[c]
    BY DEF Complies, Tighter
  <2> QED BY <2>1, <2>2
<1>8. RegionMet(s, l)
  BY RegionMonotone DEF Complies
<1> QED BY <1>1, <1>2, <1>3, <1>4, <1>5, <1>6, <1>7, <1>8 DEF Complies
-----------------------------------------------------------------------------
(* The tree of a workflow. *)

LEMMA ChainLength ==
  ASSUME NEW specs, NEW root, NEW c \in Chains(specs, root)
  PROVE  Len(c) \in Nat
<1>1. Cardinality(Workflows) \in Nat
  BY PoliciesAssumption, FS_CardinalityType
<1>2. PICK n \in 1 .. Cardinality(Workflows) : c \in [1 .. n -> Workflows]
  BY DEF Chains
<1>3. n \in Nat
  BY <1>1
<1>4. c \in Seq(Workflows)
  BY <1>2, <1>3, SeqDef
<1> QED BY <1>4

LEMMA TreeStepsCount ==
  ASSUME NEW specs, NEW root
  PROVE  Cardinality(TreeSteps(specs, root)) \in Nat
<1>1. IsFiniteSet(Workflows \X Steps)
  BY PoliciesAssumption, FS_Product
<1>2. TreeSteps(specs, root) \subseteq Workflows \X Steps
  BY DEF TreeSteps
<1>3. IsFiniteSet(TreeSteps(specs, root))
  BY <1>1, <1>2, FS_Subset
<1> QED BY <1>3, FS_CardinalityType

\* The members have a highest tier.
LEMMA Highest ==
  ASSUME NEW S, NEW specs, NEW p, NEW x \in S,
         \A n \in S : Effective(specs[n], p) \in Tiers
  PROVE  \E h \in S : \A n \in S : Effective(specs[n], p) <= Effective(specs[h], p)
<1> DEFINE tier(n) == Effective(specs[n], p)
<1>1. \A n \in S : tier(n) \in 0 .. 3
  BY DEF Tiers
<1> HIDE DEF tier
<1>2. CASE \E h \in S : tier(h) = 3
  BY <1>1, <1>2 DEF tier
<1>3. CASE (\E h \in S : tier(h) = 2) /\ \A n \in S : tier(n) # 3
  BY <1>1, <1>3 DEF tier
<1>4. CASE (\E h \in S : tier(h) = 1) /\ \A n \in S : tier(n) \notin {2, 3}
  BY <1>1, <1>4 DEF tier
<1>5. CASE \A n \in S : tier(n) \notin {1, 2, 3}
  BY <1>1, <1>5 DEF tier
<1> QED BY <1>2, <1>3, <1>4, <1>5

LEMMA CascadeMonotone ==
  ASSUME NEW m \in Policy, NEW l \in Policy, Tighter(m, l), Cumulative(l),
         NEW specs, NEW root,
         specs[root] \in Specs,
         \A w \in Members(specs, root) : specs[w] \in Specs,
         RiskMet(specs[root], m),
         CascadeMet(specs, root, m)
  PROVE  CascadeMet(specs, root, l)
<1> DEFINE S == Members(specs, root)
           top == Effective(specs[root], m)
<1> SUFFICES ASSUME NEW w \in S, InPlay(l)
             PROVE  TierMet(specs[root], l, Effective(specs[w], l))
  BY DEF CascadeMet
<1>1. InPlay(m)
  BY InPlayMonotone
<1>2. \A n \in S : Effective(specs[n], m) \in Tiers
  BY EffectiveType
<1>3. PICK h \in S : \A n \in S : Effective(specs[n], m) <= Effective(specs[h], m)
  BY <1>2, Highest
<1> DEFINE t == Effective(specs[w], l)
           u == Effective(specs[h], m)
<1>4. t \in Tiers /\ u \in Tiers /\ top \in Tiers
  BY EffectiveType
<1>5. t <= u
  <2>1. t <= Effective(specs[w], m)
    BY EffectiveMonotone
  <2>2. Effective(specs[w], m) \in Tiers
    BY <1>2
  <2> QED BY <2>1, <2>2, <1>3, <1>4 DEF Tiers
<1>6. CASE top < u
  <2>1. TierMet(specs[root], m, u)
    BY <1>1, <1>3, <1>6 DEF CascadeMet
  <2> HIDE DEF t, u
  <2>2. TierMet(specs[root], l, t)
    BY <2>1, <1>4, <1>5, TierMonotone
  <2> QED BY <2>2 DEF t
<1>7. CASE ~ (top < u)
  <2>1. TierMet(specs[root], m, top)
    BY <1>1 DEF RiskMet
  <2>2. t <= top
    BY <1>4, <1>5, <1>7 DEF Tiers
  <2> HIDE DEF t, top
  <2>3. TierMet(specs[root], l, t)
    BY <2>1, <2>2, <1>4, TierMonotone
  <2> QED BY <2>3 DEF t
<1> QED BY <1>6, <1>7

LEMMA TreeMonotone ==
  ASSUME NEW m \in Policy, NEW l \in Policy, NEW layers, NEW n,
         Tighter(m, l), Cumulative(l), Attained(m, layers, n), Placed(m, layers, n),
         \A k \in 1 .. n : SameLevel(l, layers[k]) /\ SamePlaces(l, layers[k]),
         NEW specs, NEW root, root \in DOMAIN specs,
         \A w \in DOMAIN specs : specs[w] \in Specs,
         TreeComplies(specs, root, m)
  PROVE  TreeComplies(specs, root, l)
<1>1. specs[root] \in Specs
  OBVIOUS
<1>2. \A w \in Members(specs, root) : w \in DOMAIN specs /\ specs[w] \in Specs
  BY DEF TreeComplies
<1>3. Complies(specs[root], l)
  BY <1>1, CompliesMonotone DEF TreeComplies
<1>4. \A w \in Members(specs, root) : w \in DOMAIN specs /\ Complies(specs[w], l)
  <2> TAKE w \in Members(specs, root)
  <2>1. Complies(specs[w], m)
    BY DEF TreeComplies
  <2> QED BY <2>1, <1>2, CompliesMonotone
<1>5. Cardinality(TreeSteps(specs, root)) <= l.total
  <2>1. Cardinality(TreeSteps(specs, root)) <= m.total /\ m.total <= l.total
    BY DEF TreeComplies, Tighter
  <2>2. m.total \in Int /\ l.total \in Int
    BY PoliciesAssumption DEF Policy
  <2> QED BY <2>1, <2>2, TreeStepsCount
<1>6. \A c \in Chains(specs, root) : Len(c) - 1 <= l.depth
  <2> TAKE c \in Chains(specs, root)
  <2>1. Len(c) - 1 <= m.depth /\ m.depth <= l.depth
    BY DEF TreeComplies, Tighter
  <2>2. m.depth \in Int /\ l.depth \in Int
    BY PoliciesAssumption DEF Policy
  <2> QED BY <2>1, <2>2, ChainLength
<1>7. CascadeMet(specs, root, l)
  <2>1. RiskMet(specs[root], m) /\ CascadeMet(specs, root, m)
    BY DEF TreeComplies, Complies
  <2> QED BY <2>1, <1>1, <1>2, CascadeMonotone
<1> QED BY <1>3, <1>4, <1>5, <1>6, <1>7 DEF TreeComplies
-----------------------------------------------------------------------------
(* Composition and hashes. *)

LEMMA LayersType ==
  ASSUME NEW c \in Checkouts, NEW s \in Selections
  PROVE  /\ Layers(c, s) \in Seq(Policy)
         /\ Len(Layers(c, s)) = Len(Applied[c][s])
         /\ \A k \in 1 .. Len(Layers(c, s)) :
              \E i \in Ids : Layers(c, s)[k] = Layer[c][i]
<1>1. Applied[c][s] \in Seq(Ids) /\ Len(Applied[c][s]) \in Nat
  BY DeploymentAssumption
<1>2. \A k \in 1 .. Len(Applied[c][s]) : Applied[c][s][k] \in Ids
  BY <1>1
<1>3. \A i \in Ids : Layer[c][i] \in Policy
  BY DeploymentAssumption
<1>4. Layers(c, s) \in [1 .. Len(Applied[c][s]) -> Policy]
  BY <1>2, <1>3 DEF Layers
<1>5. Layers(c, s) \in Seq(Policy) /\ Len(Layers(c, s)) = Len(Applied[c][s])
  BY <1>1, <1>4, SeqDef, LenProperties DEF Layers
<1>6. \A k \in 1 .. Len(Layers(c, s)) : Layers(c, s)[k] = Layer[c][Applied[c][s][k]]
  BY <1>5 DEF Layers
<1> QED BY <1>2, <1>5, <1>6

LEMMA PayloadComposes ==
  ASSUME NEW c \in Checkouts, NEW s \in Selections, Payload[c][s] # None
  PROVE  /\ Composable(Layers(c, s))
         /\ Payload[c][s].policy = Composed(Layers(c, s))
<1>2. Payload[c][s] = IF Composable(Layers(c, s))
                      THEN [policy   |-> Composed(Layers(c, s)),
                            selected |-> IdsOf(s),
                            applied  |-> IdsOf(Applied[c][s])]
                      ELSE None
  BY DEF Payload
<1>3. Composable(Layers(c, s))
  BY <1>2
<1>4. Payload[c][s] = [policy   |-> Composed(Layers(c, s)),
                       selected |-> IdsOf(s),
                       applied  |-> IdsOf(Applied[c][s])]
  BY <1>2, <1>3
<1> QED BY <1>3, <1>4

LEMMA HashType ==
  ASSUME NEW c \in Checkouts, NEW s \in Selections
  PROVE  /\ PolicyHash[c][s] \in (Checkouts \X Selections) \cup {None}
         /\ PolicyHash[c][s] # None =>
              Payload[c][s] # None /\ Payload[PolicyHash[c][s][1]][PolicyHash[c][s][2]] = Payload[c][s]
<1>1. <<c, s>> \in Checkouts \X Selections
  OBVIOUS
<1>2. PolicyHash[c][s] =
        IF Payload[c][s] = None THEN None
        ELSE CHOOSE r \in Checkouts \X Selections : Payload[r[1]][r[2]] = Payload[c][s]
  BY DEF PolicyHash
<1>3. CASE Payload[c][s] = None
  BY <1>2, <1>3
<1>4. CASE Payload[c][s] # None
  <2>1. PolicyHash[c][s] = CHOOSE r \in Checkouts \X Selections : Payload[r[1]][r[2]] = Payload[c][s]
    BY <1>2, <1>4
  <2>2. \E r \in Checkouts \X Selections : Payload[r[1]][r[2]] = Payload[c][s]
    BY <1>1, Zenon
  <2>3. PolicyHash[c][s] \in Checkouts \X Selections /\ Payload[PolicyHash[c][s][1]][PolicyHash[c][s][2]] = Payload[c][s]
    BY <2>1, <2>2, Zenon
  <2> QED BY <1>4, <2>3
<1> QED BY <1>3, <1>4

\* Equal hashes are of equal contents.
LEMMA HashFaithful ==
  ASSUME NEW c \in Checkouts, NEW s \in Selections, NEW d \in Checkouts, NEW r \in Selections,
         PolicyHash[c][s] # None, PolicyHash[c][s] = PolicyHash[d][r]
  PROVE  Payload[c][s] = Payload[d][r] /\ Payload[c][s] # None
<1>1. /\ Payload[c][s] # None
      /\ Payload[PolicyHash[c][s][1]][PolicyHash[c][s][2]] = Payload[c][s]
  BY HashType
<1>2. PolicyHash[d][r] # None
  OBVIOUS
<1>3. Payload[PolicyHash[d][r][1]][PolicyHash[d][r][2]] = Payload[d][r]
  BY <1>2, HashType
<1> QED BY <1>1, <1>3

LEMMA DigestType ==
  ASSUME NEW c \in Checkouts
  PROVE  SpecDigest[c] \in Checkouts
BY DEF SpecDigest

LEMMA SelectedType ==
  ASSUME NEW c \in Checkouts, NEW named \in Selections
  PROVE  Selected(c, named) \in Selections
BY DeploymentAssumption DEF Selected

\* Only what composes is admitted, and the empty selection does not.
LEMMA AdmitsComposed ==
  ASSUME NEW c \in Checkouts, NEW s \in Selections, Admits[c][s]
  PROVE  /\ Payload[c][s] # None
         /\ s # <<>>
         /\ TreeComplies(Project[c], Root, Payload[c][s].policy)
<1>2. /\ Payload[c][s] # None
      /\ TreeComplies(Project[c], Root, Payload[c][s].policy)
  BY DEF Admits
<1>3. Composable(Layers(c, s))
  BY <1>2, PayloadComposes
<1>4. Layers(c, s) # <<>>
  BY <1>3 DEF Composable
<1>5. Len(Layers(c, s)) # 0
  BY <1>4, LayersType, EmptySeq
<1>6. s # <<>>
  BY <1>5, LayersType, DeploymentAssumption
<1> QED BY <1>2, <1>6
-----------------------------------------------------------------------------
(* Types. *)

LEMMA PlanType ==
  ASSUME NEW c \in Checkouts, NEW s \in Selections \ {<<>>}, NEW i \in Images
  PROVE  PlanOf(c, s, i) \in Plans /\ PlanOf(c, s, i) \in Names
<1>1. PolicyHash[c][s] \in (Checkouts \X Selections) \cup {None}
  BY HashType
<1>2. SpecDigest[c] \in Checkouts
  BY DigestType
<1> QED BY <1>1, <1>2 DEF PlanOf, Plans, Names

LEMMA ManifestType ==
  ASSUME NEW c \in Checkouts, checkout = c, NEW s \in Selections, NEW i \in Images,
         NEW b \in BOOLEAN
  PROVE  Manifest(s, i, b) \in Manifests
BY HashType DEF Manifest, Manifests

LEMMA InitTypeOK == Init => TypeOK
BY DeploymentAssumption DEF Init, TypeOK

LEMMA StepTypeOK == TypeOK /\ [Next]_vars => TypeOK'
<1> SUFFICES ASSUME TypeOK, [Next]_vars PROVE TypeOK'
  OBVIOUS
<1> USE DEF TypeOK
<1>1. CASE Edit
  BY <1>1 DEF Edit
<1>2. ASSUME NEW i \in Images, NEW c \in Checkouts, BuildImage(i, c) PROVE TypeOK'
  BY <1>2 DEF BuildImage
<1>3. ASSUME NEW s \in Selections, NEW i \in Images, NEW m \in BOOLEAN, WritePlan(s, i, m)
      PROVE TypeOK'
  <2> DEFINE selected == Selected(checkout, s)
             plan == PlanOf(checkout, selected, i)
  <2>1. selected \in Selections
    BY SelectedType
  <2>2. Admits[checkout][selected]
    BY <1>3 DEF WritePlan, Deployable
  <2>3. selected # <<>>
    BY <2>1, <2>2, AdmitsComposed
  <2>4. plan \in Plans
    BY <2>1, <2>3, PlanType
  <2>5. files' = [files EXCEPT ![plan] = [body |-> plan, hash |-> plan]]
    BY <1>3 DEF WritePlan
  <2> HIDE DEF plan
  <2>6. [body |-> plan, hash |-> plan] \in Files
    BY <2>4 DEF Files
  <2>7. files' \in [Names -> Files \cup {None}]
    BY <2>5, <2>6
  <2> QED BY <2>7, <1>3 DEF WritePlan
<1>4. ASSUME NEW s \in Selections, NEW i \in Images, NEW m \in BOOLEAN, Deploy(s, i, m)
      PROVE TypeOK'
  <2>1. Selected(checkout, s) \in Selections
    BY SelectedType
  <2>2. artifact' \in Manifests
    BY <1>4, <2>1, ManifestType DEF Deploy
  <2> QED BY <1>4, <2>2 DEF Deploy
<1>5. ASSUME NEW n \in DOMAIN files, NEW i \in Images, NEW r \in BOOLEAN, EditFile(n, i, r)
      PROVE TypeOK'
  <2> DEFINE body == [files[n].body EXCEPT !.image = i]
             file == [body |-> body, hash |-> IF r THEN body ELSE files[n].hash]
  <2>1. files[n] \in Files
    BY <1>5 DEF EditFile
  <2>2. body \in Plans
    BY <2>1 DEF Files, Plans
  <2>3. files' = [files EXCEPT ![n] = file]
    BY <1>5 DEF EditFile
  <2> HIDE DEF body
  <2>4. file \in Files
    BY <2>1, <2>2 DEF Files
  <2> HIDE DEF file
  <2>5. files' \in [Names -> Files \cup {None}]
    BY <2>3, <2>4
  <2> QED BY <2>5, <1>5 DEF EditFile
<1>6. ASSUME NEW n \in DOMAIN files, MergePlan(n) PROVE TypeOK'
  <2>1. files[n] \in Files
    BY <1>6 DEF MergePlan
  <2>2. merged' \in [Names -> Files \cup {None}]
    BY <1>6, <2>1 DEF MergePlan
  <2>3. approved' \subseteq Plans
    BY <1>6, <2>1 DEF MergePlan, Files
  <2> QED BY <1>6, <2>2, <2>3 DEF MergePlan
<1>7. ASSUME NEW n \in DOMAIN files, Pull(n) PROVE TypeOK'
  BY <1>7 DEF Pull
<1>8. ASSUME NEW n \in DOMAIN files, NEW m \in BOOLEAN, Promote(n, m) PROVE TypeOK'
  <2> DEFINE plan == files[n].body
  <2>1. files[n] \in Files
    BY <1>8 DEF Promote
  <2>2. plan.selected \in Selections /\ plan.image \in Images
    BY <2>1 DEF Files, Plans
  <2>3. Selected(checkout, plan.selected) \in Selections
    BY <2>2, SelectedType
  <2>4. artifact' \in Manifests
    BY <1>8, <2>2, <2>3, ManifestType DEF Promote
  <2> QED BY <1>8, <2>4 DEF Promote
<1>9. CASE Boot
  <2> DEFINE c == image[artifact.image]
  <2>1. artifact \in Manifests
    BY <1>9 DEF Boot
  <2>2. c \in Checkouts
    BY <1>9, <2>1 DEF Boot, Manifests
  <2>3. artifact.expect \in Checkouts \X Selections
    BY <1>9, <2>1 DEF Boot, HashExpected, Manifests
  <2>4. worker' = [checkout |-> c, selected |-> artifact.selected,
                   expect |-> artifact.expect, plan |-> artifact.plan]
    BY <1>9 DEF Boot
  <2> HIDE DEF c
  <2>5. worker' \in Workers
    BY <2>1, <2>2, <2>3, <2>4 DEF Workers, Manifests
  <2> QED BY <1>9, <2>5 DEF Boot
<1>10. CASE Stop
  BY <1>10 DEF Stop
<1>11. CASE UNCHANGED vars
  BY <1>11 DEF vars
<1> QED
  BY <1>1, <1>2, <1>3, <1>4, <1>5, <1>6, <1>7, <1>8, <1>9, <1>10, <1>11 DEF Next

\* Whatever is written, merged, deployed and booted, every variable of the
\* way to a worker keeps its type.
THEOREM TypeCorrect == Spec => []TypeOK
BY InitTypeOK, StepTypeOK, PTL DEF Spec
-----------------------------------------------------------------------------
(* What a plan deployed was merged. *)

ApprovedMerges ==
  \A n \in Names : merged[n] # None /\ Intact(merged[n]) => merged[n].body \in approved

ApprovedArtifact ==
  artifact # None /\ artifact.plan =>
    \E p \in approved : /\ p.image = artifact.image
                        /\ p.selected = artifact.selected
                        /\ p.policyHash = artifact.expect

ApprovedWorker ==
  worker # None /\ worker.plan =>
    \E p \in approved : p.selected = worker.selected /\ p.policyHash = worker.expect

\* A worker is admitted under the hash it was deployed with.
WorkerAdmitted ==
  worker # None =>
    /\ worker.expect # None
    /\ PolicyHash[worker.checkout][worker.selected] = worker.expect
    /\ Admits[worker.checkout][worker.selected]

DeploymentInv ==
  /\ TypeOK
  /\ WorkerAdmitted
  /\ ApprovedMerges
  /\ RequireMerged => ApprovedArtifact /\ ApprovedWorker

LEMMA InitInv == Init => DeploymentInv
<1> SUFFICES ASSUME Init PROVE DeploymentInv
  OBVIOUS
<1>1. TypeOK
  BY InitTypeOK
<1>2. WorkerAdmitted /\ ApprovedMerges /\ ApprovedArtifact /\ ApprovedWorker
  BY DEF Init, WorkerAdmitted, ApprovedMerges, ApprovedArtifact, ApprovedWorker
<1> QED BY <1>1, <1>2 DEF DeploymentInv

LEMMA StepWorkerAdmitted ==
  ASSUME DeploymentInv, [Next]_vars
  PROVE  WorkerAdmitted'
<1>1. CASE Boot
  <2> DEFINE c == image[artifact.image]
  <2>1. worker' = [checkout |-> c, selected |-> artifact.selected,
                   expect |-> artifact.expect, plan |-> artifact.plan]
    BY <1>1 DEF Boot
  <2>2. /\ PolicyHash[c][artifact.selected] # None
        /\ PolicyHash[c][artifact.selected] = artifact.expect
        /\ Admits[c][artifact.selected]
    BY <1>1 DEF Boot, HashExpected
  <2> HIDE DEF c
  <2> QED BY <2>1, <2>2 DEF WorkerAdmitted
<1>2. CASE worker' \in {worker, None}
  BY <1>2 DEF WorkerAdmitted, DeploymentInv
<1>3. Boot \/ worker' \in {worker, None}
  BY DEF Next, vars, Edit, BuildImage, WritePlan, Deploy, EditFile, MergePlan, Pull,
         Promote, Stop
<1> QED BY <1>1, <1>2, <1>3

LEMMA StepApprovedMerges ==
  ASSUME DeploymentInv, [Next]_vars
  PROVE  ApprovedMerges'
<1>1. ASSUME NEW m \in DOMAIN files, MergePlan(m) PROVE ApprovedMerges'
  <2>1. merged \in [Names -> Files \cup {None}] /\ files \in [Names -> Files \cup {None}]
    BY DEF DeploymentInv, TypeOK
  <2>2. merged' = [merged EXCEPT ![m] = files[m]]
    BY <1>1 DEF MergePlan
  <2>3. approved \subseteq approved'
    BY <1>1 DEF MergePlan
  <2>4. Intact(files[m]) => files[m].body \in approved'
    BY <1>1 DEF MergePlan
  <2>5. SUFFICES ASSUME NEW n \in Names, merged'[n] # None, Intact(merged'[n])
                 PROVE  merged'[n].body \in approved'
    BY DEF ApprovedMerges, Intact
  <2>6. CASE n = m
    BY <2>1, <2>2, <2>4, <2>5, <2>6
  <2>7. CASE n # m
    BY <2>1, <2>2, <2>3, <2>5, <2>7 DEF DeploymentInv, ApprovedMerges
  <2> QED BY <2>6, <2>7
<1>2. CASE UNCHANGED <<merged, approved>>
  BY <1>2 DEF ApprovedMerges, Intact, DeploymentInv
<1>3. (\E m \in DOMAIN files : MergePlan(m)) \/ UNCHANGED <<merged, approved>>
  BY DEF Next, vars, Edit, BuildImage, WritePlan, Deploy, EditFile, Pull, Promote, Boot, Stop
<1> QED BY <1>1, <1>2, <1>3

LEMMA ApprovedGrows ==
  ASSUME [Next]_vars
  PROVE  approved \subseteq approved'
BY DEF Next, vars, Edit, BuildImage, WritePlan, Deploy, EditFile, MergePlan, Pull, Promote,
       Boot, Stop

LEMMA StepApprovedArtifact ==
  ASSUME DeploymentInv, RequireMerged, [Next]_vars
  PROVE  ApprovedArtifact'
<1>1. ASSUME NEW n \in DOMAIN files, NEW m \in BOOLEAN, Promote(n, m) PROVE ApprovedArtifact'
  <2> DEFINE plan == files[n].body
  <2>1. files[n] # None /\ merged[n] = files[n] /\ Intact(files[n])
    BY <1>1 DEF Promote, MergedGate
  <2>2. n \in Names /\ files[n] \in Files
    BY <2>1 DEF DeploymentInv, TypeOK
  <2>3. plan \in approved
    BY <2>1, <2>2 DEF DeploymentInv, ApprovedMerges
  <2>4. plan.selected # <<>>
    BY <2>2 DEF Files, Plans
  <2>5. Selected(checkout, plan.selected) = plan.selected
    BY <2>4 DEF Selected
  <2>6. plan.policyHash = PolicyHash[checkout][plan.selected]
    BY <1>1, <2>5 DEF Promote, Verified
  <2>7. artifact' = [image |-> plan.image, selected |-> plan.selected,
                     expect |-> PolicyHash[checkout][plan.selected], plan |-> TRUE]
    BY <1>1, <2>5 DEF Promote, Manifest
  <2>8. plan \in approved'
    BY <2>3, ApprovedGrows
  <2> HIDE DEF plan
  <2> QED BY <2>6, <2>7, <2>8 DEF ApprovedArtifact
<1>2. ASSUME NEW s \in Selections, NEW i \in Images, NEW m \in BOOLEAN, Deploy(s, i, m)
      PROVE ApprovedArtifact'
  <2>1. artifact'.plan = FALSE
    BY <1>2 DEF Deploy, Manifest
  <2> QED BY <2>1 DEF ApprovedArtifact
<1>3. CASE UNCHANGED artifact
  BY <1>3, ApprovedGrows DEF ApprovedArtifact, DeploymentInv
<1>4. \/ \E n \in DOMAIN files, m \in BOOLEAN : Promote(n, m)
      \/ \E s \in Selections, i \in Images, m \in BOOLEAN : Deploy(s, i, m)
      \/ UNCHANGED artifact
  BY DEF Next, vars, Edit, BuildImage, WritePlan, EditFile, MergePlan, Pull, Boot, Stop
<1> QED BY <1>1, <1>2, <1>3, <1>4

LEMMA StepApprovedWorker ==
  ASSUME DeploymentInv, RequireMerged, [Next]_vars
  PROVE  ApprovedWorker'
<1>1. CASE Boot
  <2> DEFINE c == image[artifact.image]
  <2>1. artifact # None
    BY <1>1 DEF Boot
  <2>2. worker' = [checkout |-> c, selected |-> artifact.selected,
                   expect |-> artifact.expect, plan |-> artifact.plan]
    BY <1>1 DEF Boot
  <2>3. ApprovedArtifact
    BY DEF DeploymentInv
  <2> HIDE DEF c
  <2> QED BY <2>1, <2>2, <2>3, ApprovedGrows DEF ApprovedArtifact, ApprovedWorker
<1>2. CASE worker' \in {worker, None}
  BY <1>2, ApprovedGrows DEF ApprovedWorker, DeploymentInv
<1>3. Boot \/ worker' \in {worker, None}
  BY DEF Next, vars, Edit, BuildImage, WritePlan, Deploy, EditFile, MergePlan, Pull,
         Promote, Stop
<1> QED BY <1>1, <1>2, <1>3

LEMMA StepInv == DeploymentInv /\ [Next]_vars => DeploymentInv'
<1> SUFFICES ASSUME DeploymentInv, [Next]_vars PROVE DeploymentInv'
  OBVIOUS
<1>1. TypeOK'
  BY StepTypeOK DEF DeploymentInv
<1> QED
  BY <1>1, StepWorkerAdmitted, StepApprovedMerges, StepApprovedArtifact, StepApprovedWorker
  DEF DeploymentInv

LEMMA Inductive == Spec => []DeploymentInv
BY InitInv, StepInv, PTL DEF Spec

\* A plan that was deployed, and the plan a worker runs under, is one that
\* somebody merged, whatever happens to the file before and after.
THEOREM Reviewed == Spec => []ReviewedRuns
<1>1. DeploymentInv => ReviewedRuns
  BY DEF DeploymentInv, WorkerAdmitted, ApprovedArtifact, ApprovedWorker, ReviewedRuns
<1> QED BY <1>1, Inductive, PTL
-----------------------------------------------------------------------------
(* What a worker runs meets every layer. *)

LEMMA WorkerComposition ==
  ASSUME TypeOK, WorkerAdmitted, worker # None,
         NEW c \in Checkouts, PolicyHash[c][worker.selected] = worker.expect
  PROVE  /\ worker.checkout \in Checkouts /\ worker.selected \in Selections
         /\ Layers(c, worker.selected) \in Seq(Policy)
         /\ Composable(Layers(c, worker.selected))
         /\ Payload[worker.checkout][worker.selected].policy =
              Merged(Layers(c, worker.selected))[Len(Layers(c, worker.selected))]
         /\ Composes(Layers(c, worker.selected), Len(Layers(c, worker.selected)))
         /\ TreeComplies(Project[worker.checkout], Root,
                         Payload[worker.checkout][worker.selected].policy)
<1> DEFINE d == worker.checkout
           s == worker.selected
<1>1. d \in Checkouts /\ s \in Selections
  BY DEF TypeOK, Workers
<1>2. /\ PolicyHash[d][s] = PolicyHash[c][s]
      /\ PolicyHash[d][s] # None
      /\ Admits[d][s]
  BY DEF WorkerAdmitted
<1> HIDE DEF d, s
<1>3. Payload[d][s] = Payload[c][s] /\ Payload[c][s] # None
  BY <1>1, <1>2, HashFaithful
<1>4. Composable(Layers(c, s)) /\ Payload[c][s].policy = Composed(Layers(c, s))
  BY <1>1, <1>3, PayloadComposes
<1>5. Layers(c, s) \in Seq(Policy)
  BY <1>1, LayersType
<1>6. Composes(Layers(c, s), Len(Layers(c, s)))
  BY <1>4, <1>5, AllCompose
<1>7. TreeComplies(Project[d], Root, Payload[d][s].policy)
  BY <1>1, <1>2, AdmitsComposed
<1>8. Payload[d][s].policy = Merged(Layers(c, s))[Len(Layers(c, s))]
  BY <1>3, <1>4 DEF Composed
<1> QED BY <1>1, <1>4, <1>5, <1>6, <1>7, <1>8 DEF d, s

LEMMA GuardMonotone ==
  ASSUME NEW m \in Policy, NEW l \in Policy, Tighter(m, l), NEW d, NEW model,
         NEW verdict \in Verdicts, GuardPasses(d, m, model, verdict)
  PROVE  GuardPasses(d, l, model, verdict)
<1>1. TighterMapping(m.providers, l.providers)
  BY DEF Tighter
<1>2. ProviderAllowed(l.providers, Project[d][Root].provider, model)
  BY <1>1, ProviderMonotone DEF GuardPasses
<1>3. ~ Blocked(m, verdict)
  BY DEF GuardPasses
<1>4. verdict.categories \cap l.denies = {}
  BY <1>3 DEF Blocked, Tighter
<1>5. ~ (verdict.score >= l.threshold)
  <2>1. verdict.score \in Int /\ m.threshold \in Int /\ l.threshold \in Int
    BY PoliciesAssumption DEF Verdicts, Policy
  <2>2. ~ (verdict.score >= m.threshold) /\ m.threshold <= l.threshold
    BY <1>3 DEF Blocked, Tighter
  <2> QED BY <2>1, <2>2
<1> QED BY <1>2, <1>4, <1>5 DEF GuardPasses, Blocked

\* No call a worker's guard lets through is one a layer forbids, for any
\* policies: the guard reads only what merges into the stricter.
THEOREM CallsCoveredByLayers == Spec => []CallsAllowed
<1>1. DeploymentInv => CallsAllowed
  <2> SUFFICES ASSUME DeploymentInv, worker # None,
                      NEW c \in Checkouts, PolicyHash[c][worker.selected] = worker.expect
               PROVE  CallsCovered[worker.checkout][c][worker.selected]
    BY DEF CallsAllowed
  <2> DEFINE d == worker.checkout
             s == worker.selected
             layers == Layers(c, s)
             m == Payload[d][s].policy
  <2>1. /\ d \in Checkouts /\ s \in Selections
        /\ layers \in Seq(Policy)
        /\ m = Merged(layers)[Len(layers)]
        /\ Composes(layers, Len(layers))
    BY WorkerComposition DEF DeploymentInv
  <2> HIDE DEF d, s
  <2>2. CallsCovered[d][c][s] =
          \A model \in Models, verdict \in Verdicts :
            GuardPasses(d, m, model, verdict) =>
              \A k \in DOMAIN layers : GuardPasses(d, layers[k], model, verdict)
    BY <2>1 DEF CallsCovered
  <2>3. SUFFICES ASSUME NEW model \in Models, NEW verdict \in Verdicts,
                        GuardPasses(d, m, model, verdict), NEW k \in DOMAIN layers
                 PROVE  GuardPasses(d, layers[k], model, verdict)
    BY <2>2 DEF d, s
  <2> HIDE DEF layers, m
  <2>4. k \in 1 .. Len(layers) /\ layers[k] \in Policy
    BY <2>1, <2>3
  <2>5. m \in Policy /\ Tighter(m, layers[k])
    BY <2>1, <2>4 DEF Composes
  <2> QED BY <2>3, <2>4, <2>5, GuardMonotone
<1> QED BY <1>1, Inductive, PTL

\* What a project has to keep to: a tier asks for what the tiers below it
\* ask for, limits of one model are set at one level, and layers that speak of
\* regions place the same addresses.
AllSafe == \A c \in Checkouts : Safe({Layer[c][i] : i \in Ids})

\* Under safe layers the tree a worker runs meets each layer of the policy it
\* was deployed under on its own, for any number of layers.
THEOREM LayersHoldWhenSafe == AllSafe => (Spec => []EveryLayerHolds)
<1> SUFFICES ASSUME AllSafe PROVE Spec => []EveryLayerHolds
  OBVIOUS
<1>1. DeploymentInv => EveryLayerHolds
  <2> SUFFICES ASSUME DeploymentInv, worker # None,
                      NEW c \in Checkouts, PolicyHash[c][worker.selected] = worker.expect
               PROVE  LayersHold[worker.checkout][c][worker.selected]
    BY DEF EveryLayerHolds
  <2> DEFINE d == worker.checkout
             s == worker.selected
             layers == Layers(c, s)
             m == Payload[d][s].policy
  <2>1. /\ d \in Checkouts /\ s \in Selections
        /\ layers \in Seq(Policy)
        /\ m = Merged(layers)[Len(layers)]
        /\ Composes(layers, Len(layers))
        /\ TreeComplies(Project[d], Root, m)
    BY WorkerComposition DEF DeploymentInv
  <2> HIDE DEF d, s
  <2>2. LayersHold[d][c][s] = \A k \in DOMAIN layers : TreeComplies(Project[d], Root, layers[k])
    BY <2>1 DEF LayersHold
  <2>3. SUFFICES ASSUME NEW k \in DOMAIN layers
                 PROVE  TreeComplies(Project[d], Root, layers[k])
    BY <2>2 DEF d, s
  <2>4. \A j \in 1 .. Len(layers) : \E i \in Ids : layers[j] = Layer[c][i]
    BY <2>1, LayersType
  <2> HIDE DEF layers, m
  <2>5. k \in 1 .. Len(layers) /\ layers[k] \in Policy
    BY <2>1, <2>3
  <2>6. /\ m \in Policy
        /\ Tighter(m, layers[k])
        /\ Attained(m, layers, Len(layers))
        /\ Placed(m, layers, Len(layers))
    BY <2>1, <2>5 DEF Composes
  <2>7. /\ Cumulative(layers[k])
        /\ \A j \in 1 .. Len(layers) : SameLevel(layers[k], layers[j]) /\ SamePlaces(layers[k], layers[j])
    BY <2>1, <2>4, <2>5 DEF AllSafe, Safe
  <2>8. Root \in DOMAIN Project[d] /\ \A w \in DOMAIN Project[d] : Project[d][w] \in Specs
    BY <2>1, DeploymentAssumption
  <2> QED BY <2>1, <2>5, <2>6, <2>7, <2>8, TreeMonotone
<1> QED BY <1>1, Inductive, PTL
=============================================================================
