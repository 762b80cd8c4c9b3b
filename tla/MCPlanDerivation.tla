-------------------------- MODULE MCPlanDerivation --------------------------
(***************************************************************************)
(* Specs of one shape, a block within a branch of a block, with every way  *)
(* two places of it can read a root and every set of gates listed here;    *)
(* and specs of the same shape with every way of giving a few steps one of *)
(* two schema refs.                                                        *)
(***************************************************************************)
EXTENDS PlanDerivation

MCIds == {"a", "b", "c", "d", "e", "f", "g", "h", "n"}
MCBranches == {"x", "y", "z"}

\* a, c; then b with the branches x: e, n and y: h, where n has the branch z: f;
\* then d, g.
Base ==
  [branches |-> MCBranches,
   body |-> [t \in {"main"} \cup MCBranches |->
               CASE t = "main" -> <<"a", "c", "b", "d", "g">> [] t = "x" -> <<"e", "n">>
                 [] t = "y" -> <<"h">> [] OTHER -> <<"f">>],
   kind |-> [i \in MCIds |-> IF i \in {"b", "n"} THEN "parallel" ELSE "atomic"],
   when |-> [i \in MCIds |-> {}],
   gate |-> [t \in {"main"} \cup MCBranches |-> {}],
   over |-> [i \in MCIds |-> "input"],
   from |-> [i \in MCIds |-> "none"],
   takes |-> [i \in MCIds |-> "A"],
   gives |-> [i \in MCIds |-> "A"],
   input |-> "A", output |-> "A",
   enabled |-> TRUE,
   gates |-> {},
   holder |-> [t \in MCBranches |-> IF t = "z" THEN <<"x", 2>> ELSE <<"main", 3>>],
   within |-> [t \in MCBranches |->
                 IF t = "z" THEN {<<"x", 2>>, <<"main", 3>>} ELSE {<<"main", 3>>}]]

\* Ways to read a root somewhere.
Readings ==
  {<<"when", i>> : i \in {"c", "b", "d", "e", "n", "f"}}
  \cup {<<"gate", t>> : t \in MCBranches}
  \cup {<<how, i>> : how \in {"over", "from", "both"}, i \in {"d", "f"}}

Reads(p, how, root) ==
  LET x == how[2]
  IN  CASE how[1] = "when" -> [p EXCEPT !.when[x] = {root}]
        [] how[1] = "gate" -> [p EXCEPT !.gate[x] = {root}]
        [] how[1] = "over" -> [p EXCEPT !.kind[x] = "map", !.over[x] = root]
        [] how[1] = "from" -> [p EXCEPT !.from[x] = root]
        [] OTHER -> [p EXCEPT !.kind[x] = "map", !.from[x] = root]

Gate(after, routes) == [after |-> after, routes |-> routes]

GateSets ==
  {{}, {Gate("a", {"b", "d"})}, {Gate("a", {"g"})}, {Gate("b", {"d", "g"})},
   {Gate("a", {"b"}), Gate("b", {"g"})}, {Gate("a", {"d"}), Gate("d", {"g"})}}

\* A disabled lifecycle is validated and never waits.
Lifecycles ==
  {<<gs, TRUE>> : gs \in GateSets} \cup {<<{Gate("a", {"g"})}, FALSE>>}

ReadingPlans ==
  {[Reads(Reads(Base, h1, r1), h2, r2) EXCEPT !.gates = lc[1], !.enabled = lc[2]] :
     h1 \in Readings, r1 \in {"b", "c", "e", "f", "n"},
     h2 \in {h \in Readings : h[2] \in {"d", "z"}} \cup {<<"gate", "x">>, <<"when", "n">>, <<"both", "f">>},
     r2 \in {"c", "e", "n"}, lc \in Lifecycles}

\* Ways to give the steps refs.  A map without collect yields an array, a
\* child workflow without a declared output a ref nobody knows.
MCRefs == {"A", "B"}
Signatures ==
  [kind : {"atomic", "map"}, takes : MCRefs, gives : MCRefs, when : {{}, {"input"}}]

First(p, ref) ==
  IF ref = "array" THEN [p EXCEPT !.kind["a"] = "map", !.gives["a"] = "array"]
  ELSE [p EXCEPT !.gives["a"] = ref]
Second(p, ref) == [p EXCEPT !.kind["c"] = "map", !.gives["c"] = ref]
InBranch(p, s) ==
  [p EXCEPT !.kind["e"] = s.kind, !.takes["e"] = s.takes, !.gives["n"] = s.gives,
            !.when["e"] = s.when, !.kind["h"] = s.kind, !.takes["h"] = s.takes]
AfterBlock(p, s) ==
  [p EXCEPT !.gives["b"] = s.takes, !.kind["d"] = s.kind, !.takes["d"] = s.takes,
            !.gives["d"] = s.gives, !.when["d"] = s.when, !.takes["g"] = s.gives]

TypePlans ==
  {[AfterBlock(InBranch(Second(First(Base, a), c), e), d) EXCEPT !.gates = lc[1], !.enabled = lc[2]] :
     a \in MCRefs \cup {"array", "none"}, c \in MCRefs, e \in Signatures,
     d \in {s \in Signatures : s.gives = "A"},
     lc \in Lifecycles}

\* Those of them that are accepted, since only they are run.
MCPlans == {p \in ReadingPlans : Accepted(p)} \cup {p \in TypePlans : Accepted(p)}
=============================================================================
