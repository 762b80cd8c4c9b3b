---------------------------- MODULE MCDeployment ----------------------------
(***************************************************************************)
(* A project of two workflows under two policies, prod extending org, in   *)
(* four versions; and the walk over what policies extend, over every way   *)
(* three policies can extend each other.                                   *)
(***************************************************************************)
EXTENDS Deployment, PolicyClosure

CONSTANTS p1, p2, m1, m2, parent, child, cloud, onprem, eu, us

MCSteps == {1, 2, 3}
MCValues == {1, 2}

GoodSpec ==
  [provider |-> p1, model |-> m1, overrides |-> {}, open |-> FALSE,
   uses |-> [l \in Lists |-> {1}], meets |-> [x \in Scalars |-> {1}],
   address |-> cloud, region |-> Unset, has |-> Controls, does |-> {}, size |-> [c \in Ceilings |-> 1],
   limit |-> 1, tier |-> 1, steps |-> {1}, children |-> {}]

GoodTree ==
  [w \in {parent, child} |->
     IF w = parent THEN [GoodSpec EXCEPT !.children = {child}]
     ELSE [GoodSpec EXCEPT !.steps = {2}, !.tier = NoTier]]

\* model: a call under another model, which no digest shows.  loose: another
\* step, and no moderation, which org does not ask for there.
MCProject ==
  [c \in Checkouts |->
     CASE c = "model" -> [GoodTree EXCEPT ![child].overrides = {m2}]
       [] c = "loose" -> [GoodTree EXCEPT ![parent].has = {"review"}, ![parent].steps = {1, 3}]
       [] OTHER -> GoodTree]

MCIds == {"org", "prod"}
MCSelections == {<<>>, <<"prod">>}
MCBound == [c \in Checkouts |-> <<"prod">>]
MCExtends == [i \in MCIds |-> IF i = "prod" THEN <<"org">> ELSE <<>>]
MCApplied == [c \in Checkouts |-> [s \in MCSelections |-> Closure(MCExtends, s)]]

OneModel == [p \in {p1} |-> {m1}]

\* Servers of org stand where its policy says; prod asks nothing of that.
CloudInEU == [a \in {cloud} |-> eu]

Reviewed ==
  [Unconstrained EXCEPT !.denies = Categories, !.places = CloudInEU, !.regions = {eu},
     !.risk.block[1].requires = {"review"}, !.risk.block[2].requires = {"review"}]
Moderated == [Reviewed EXCEPT !.requires = {"moderation"}]
Ceiled ==
  [Unconstrained EXCEPT !.lists = [l \in Lists |-> {1}], !.scalars = [x \in Scalars |-> 1],
     !.total = 3, !.threshold = 2, !.limits.default = 1, !.risk.min = 1]

\* The layers of prod: moved has in org what the others have in prod.
MCLayer ==
  [c \in Checkouts |->
     [i \in MCIds |->
        CASE i = "org" /\ c = "moved" -> [Moderated EXCEPT !.providers = OneModel]
          [] i = "org" /\ c = "loose" -> Reviewed
          [] i = "org" -> Moderated
          [] c = "moved" -> Ceiled
          [] OTHER -> [Ceiled EXCEPT !.providers = OneModel]]]

\* The same in tiers: org asks moderation of what is policy_gated, and prod
\* puts everything a tier higher without asking for it again.
TieredLayer ==
  [c \in Checkouts |->
     [i \in MCIds |->
        IF i = "org"
        THEN [Unconstrained EXCEPT !.risk.min = 1, !.risk.block[1].requires = Controls]
        ELSE [Unconstrained EXCEPT !.risk.min = 2,
                !.risk.block[2].providers = OneModel]]]
-----------------------------------------------------------------------------
(* resolveProjectPolicyClosure on every graph of three ids, one of them    *)
(* perhaps not declared, that extend at most two each.                     *)
Graph3 ==
  LET ids == {"a", "b", "c"}
      some == {<<>>} \cup {<<i>> : i \in ids} \cup {<<i, j>> : i, j \in ids}
  IN  UNION {[D -> some] : D \in {ids, {"a", "b"}}}

ASSUME ClosureIsRight ==
  \A g \in Graph3, s \in {<<"a">>, <<"b", "a">>, <<"a", "b", "a">>} :
    IsClosure(g, s, Closure(g, s))

\* The layers of the first run are safe to merge, those in tiers are not.
ASSUME SafeLayers ==
  \A c \in Checkouts :
    /\ Safe({MCLayer[c][i] : i \in MCIds})
    /\ ~Safe({TieredLayer[c][i] : i \in MCIds})

\* The merge admits a spec that one of its layers refuses.
Loosens(layers, s) ==
  /\ Composable(layers)
  /\ Complies(s, Composed(layers))
  /\ \E k \in 1 .. Len(layers) : ~Complies(s, layers[k])

\* Each hypothesis of Safe is needed.  One layer asks a control of a tier, and
\* the other lifts the spec above it; one bounds the default, the other the
\* model; one allows a region of what the process attests, and the other says
\* where the address stands; or one leaves an address unplaced.
ASSUME EachIsNeeded ==
  LET placed == [Unconstrained EXCEPT !.places = CloudInEU]
      two == <<[Unconstrained EXCEPT !.regions = {eu}], placed>>
      unplaced == <<[Unconstrained EXCEPT !.places = [a \in {onprem} |-> us]], placed>>
      levels == <<[Unconstrained EXCEPT !.limits.default = 0],
                  [Unconstrained EXCEPT !.limits.model[<<p1, m1>>] = 1]>>
      tiers == <<[Unconstrained EXCEPT !.risk.block[1].requires = {"review"}],
                 [Unconstrained EXCEPT !.risk.min = 2]>>
  IN  /\ \A layers \in {two, unplaced, levels} : Loosens(layers, GoodSpec)
      /\ Loosens(tiers, [GoodSpec EXCEPT !.has = {}])
=============================================================================
