------------------------ MODULE PlanDerivationProofs ------------------------
(***************************************************************************)
(* Every path an accepted plan reads resolves, whatever gates turn out     *)
(* false and whatever routes are taken.                                    *)
(***************************************************************************)
EXTENDS PlanDerivation, TLAPS

(* Facts about plans. *)

LEMMA PlaceShape ==
  ASSUME NEW p, Written(p), NEW pl \in Places(p)
  PROVE  /\ pl = <<pl[1], pl[2]>>
         /\ pl[1] \in Seqs(p)
         /\ pl[2] \in DOMAIN p.body[pl[1]]
         /\ pl[2] \in Nat \ {0}
         /\ IdAt(p, pl) \in Ids
<1>1. PICK t \in Seqs(p) : pl \in {t} \X DOMAIN p.body[t]
  BY DEF Places
<1>2. p.body[t] \in Seq(Ids)
  BY <1>1 DEF Written
<1> QED
  BY <1>1, <1>2 DEF IdAt

LEMMA PlaceOf ==
  ASSUME NEW p, NEW t \in Seqs(p), NEW k \in DOMAIN p.body[t]
  PROVE  <<t, k>> \in Places(p)
BY DEF Places

LEMMA LineShape ==
  ASSUME NEW p, Written(p), Main \notin Branches, NEW pl \in Places(p)
  PROVE  /\ pl \in Line(p, pl)
         /\ Line(p, pl) \subseteq Places(p)
         /\ \A q \in Line(p, pl) : Line(p, q) \subseteq Line(p, pl)
         /\ \A q, r \in Line(p, pl) : q[1] = r[1] => q = r
<1>1. pl[1] # Main => /\ p.within[pl[1]] \subseteq Places(p)
                      /\ \A q \in p.within[pl[1]] : q[1] # pl[1]
                      /\ \A q \in p.within[pl[1]] : Line(p, q) \subseteq p.within[pl[1]]
                      /\ \A q, r \in p.within[pl[1]] : q[1] = r[1] => q = r
  BY PlaceShape DEF Written, Seqs
<1> QED
  BY <1>1 DEF Line

\* Between a place and a block around it lies a place of a branch of the block.
LEMMA NextInside ==
  ASSUME NEW p, Written(p), Main \notin Branches,
         NEW q \in Places(p), NEW pl \in Line(p, q), pl # q
  PROVE  \E s \in Line(p, q) :
           /\ s[1] \in p.branches /\ p.holder[s[1]] = pl
           /\ pl \in Line(p, s)
           /\ s \notin Line(p, pl)
<1>1. /\ q[1] \in p.branches
      /\ pl \in p.within[q[1]]
  BY PlaceShape DEF Line, Seqs
<1>2. PICK s \in Line(p, q) : s[1] \in p.branches /\ p.holder[s[1]] = pl
  <2>1. CASE pl = p.holder[q[1]]
    BY <2>1, <1>1 DEF Line
  <2>2. CASE pl # p.holder[q[1]]
    <3>1. PICK r \in p.within[q[1]] : r[1] # Main /\ p.holder[r[1]] = pl
      BY <2>2, <1>1 DEF Written
    <3>2. r \in Places(p)
      BY <1>1 DEF Written
    <3> QED
      BY <3>1, <3>2, <1>1, PlaceShape DEF Line, Seqs
  <2> QED
    BY <2>1, <2>2
<1>3. s[1] # Main
  BY <1>2 DEF Written
<1>4. /\ pl \in Places(p) /\ p.within[s[1]] = Line(p, pl)
      /\ \A r \in p.within[s[1]] : r[1] # s[1]
  BY <1>2 DEF Written
<1>5. pl \in Line(p, pl)
  BY DEF Line
<1> QED
  BY <1>2, <1>3, <1>4, <1>5 DEF Line

LEMMA GuaranteedShape ==
  ASSUME NEW p, Written(p), NEW pl \in Places(p)
  PROVE  Guaranteed(p, pl) \subseteq Ids
BY PlaceShape DEF Guaranteed

\* Nothing lies within a step that is not a block.
LEMMA GuaranteedOfStep ==
  ASSUME NEW p, Written(p), Main \notin Branches,
         NEW pl \in Places(p), p.kind[IdAt(p, pl)] # "parallel"
  PROVE  Guaranteed(p, pl) \subseteq {IdAt(p, pl)}
<1>1. ASSUME NEW q \in Places(p), pl \in Line(p, q), pl # q
      PROVE  FALSE
  <2>1. PICK s \in Line(p, q) : s[1] \in p.branches /\ p.holder[s[1]] = pl
    BY <1>1, NextInside
  <2> QED
    BY <2>1 DEF Written
<1> QED
  BY <1>1 DEF Guaranteed

\* Reading succeeds with more roots if it succeeds with fewer.
LEMMA ReadsMore ==
  ASSUME NEW p, NEW pl, NEW R, NEW S, R \subseteq S
  PROVE  /\ GatesRead(p, pl, R) => GatesRead(p, pl, S)
         /\ CompensationReads(p, pl, R) => CompensationReads(p, pl, S)
         /\ MapReads(p, pl, R) => MapReads(p, pl, S)
BY DEF GatesRead, CompensationReads, MapReads

\* What is read twice is read from what both have.
LEMMA ReadsBoth ==
  ASSUME NEW p, NEW pl, NEW R, NEW S, NEW T, R \cap S \subseteq T
  PROVE  /\ GatesRead(p, pl, R) /\ GatesRead(p, pl, S) => GatesRead(p, pl, T)
         /\ CompensationReads(p, pl, R) /\ CompensationReads(p, pl, S)
              => CompensationReads(p, pl, T)
         /\ MapReads(p, pl, R) /\ MapReads(p, pl, S) => MapReads(p, pl, T)
BY DEF GatesRead, CompensationReads, MapReads

LEMMA ReadsInRun ==
  ASSUME NEW p, NEW pl, NEW ran, NEW ran2, ran \subseteq ran2
  PROVE  RootsAt(p, pl, ran) \subseteq RootsAt(p, pl, ran2)
BY DEF RootsAt, Before
-----------------------------------------------------------------------------
(* The inductive invariant. *)

Active(t) == ctl[t] \in {"ready", "block"}

Typed ==
  /\ plan \in Plans /\ Accepted(plan)
  /\ at \in [Seqs(plan) -> Nat \ {0}]
  /\ ctl \in [Seqs(plan) -> {"idle", "ready", "block", "done", "skipped"}]
  /\ Input \in context
  /\ \A t \in Seqs(plan) : Active(t) => at[t] \in DOMAIN plan.body[t]
  /\ \A t \in Seqs(plan) : ctl[t] = "idle" => at[t] = 1

\* The blocks around a running branch are the ones their sequences are in.
InBlocks ==
  \A t \in plan.branches : Active(t) =>
    \A s \in plan.within[t] : ctl[s[1]] = "block" /\ at[s[1]] = s[2]

\* A branch does not start before its block.
Waits ==
  \A b \in plan.branches :
    LET h == plan.holder[b]
    IN  \/ ctl[h[1]] = "idle"
        \/ at[h[1]] < h[2]
        \/ at[h[1]] = h[2] /\ ctl[h[1]] = "ready"
        => ctl[b] = "idle"

\* What a branch has passed is recorded; what surely runs in it was passed
\* when it is done.
Recorded ==
  \A b \in plan.branches :
    /\ \A k \in DOMAIN plan.body[b] : k < at[b] => Guaranteed(plan, <<b, k>>) \subseteq context
    /\ ctl[b] = "done" => \A k \in DOMAIN plan.body[b] : Sure(plan, <<b, k>>) => k < at[b]
    /\ ctl[b] = "skipped" => plan.gate[b] # {}

\* What pl will find when the rest of the top level runs in order.
Avail(pl) == context \cup RootsAt(plan, pl, at[Main] .. Len(plan.body[Main]))

Ahead ==
  \A pl \in RouteTail(plan, at[Main]) :
    /\ GatesRead(plan, pl, Avail(pl))
    /\ CompensationReads(plan, pl, Avail(pl))
    /\ MapReads(plan, pl, RootsAt(plan, pl, All(plan))) => MapReads(plan, pl, Avail(pl))

IInv == Typed /\ InBlocks /\ Waits /\ Recorded /\ Ahead

LEMMA PlanFacts ==
  ASSUME Typed
  PROVE  /\ Written(plan) /\ Main \notin Branches
         /\ \A b \in plan.branches : b \in Seqs(plan) /\ b # Main
         /\ Main \in Seqs(plan)
         /\ \A t \in Seqs(plan) : t # Main => t \in plan.branches
         /\ \A t \in Seqs(plan) :
              /\ plan.body[t] \in Seq(Ids) /\ plan.body[t] # <<>>
              /\ DOMAIN plan.body[t] = 1 .. Len(plan.body[t])
              /\ Len(plan.body[t]) \in Nat /\ 1 \in DOMAIN plan.body[t]
<1>1. Written(plan) /\ Main \notin Branches
  BY PlansAssumption DEF Typed
<1>2. plan.branches \subseteq Branches
  BY <1>1 DEF Written
<1>3. ASSUME NEW t \in Seqs(plan)
      PROVE  /\ plan.body[t] \in Seq(Ids) /\ plan.body[t] # <<>>
             /\ DOMAIN plan.body[t] = 1 .. Len(plan.body[t])
             /\ Len(plan.body[t]) \in Nat /\ 1 \in DOMAIN plan.body[t]
  <2>1. plan.body[t] \in Seq(Ids) /\ plan.body[t] # <<>>
    BY <1>1 DEF Written
  <2>2. Len(plan.body[t]) \in Nat \ {0}
    BY <2>1
  <2> QED
    BY <2>1, <2>2
<1> QED
  BY <1>1, <1>2, <1>3 DEF Seqs

LEMMA HolderFacts ==
  ASSUME Typed, NEW b \in plan.branches
  PROVE  /\ plan.holder[b] \in Places(plan)
         /\ plan.holder[b] = <<plan.holder[b][1], plan.holder[b][2]>>
         /\ plan.holder[b][1] \in Seqs(plan)
         /\ plan.holder[b][1] # b
         /\ plan.holder[b][2] \in Nat \ {0}
         /\ plan.within[b] = Line(plan, plan.holder[b])
         /\ plan.within[b] \subseteq Places(plan)
         /\ \A s \in plan.within[b] : s[1] # b
<1>1. Written(plan)
  BY PlanFacts
<1>2. /\ plan.holder[b] \in Places(plan)
      /\ plan.within[b] = Line(plan, plan.holder[b])
      /\ plan.within[b] \subseteq Places(plan)
      /\ \A s \in plan.within[b] : s[1] # b
  BY <1>1 DEF Written
<1>3. plan.holder[b] \in Line(plan, plan.holder[b])
  BY DEF Line
<1> QED
  BY <1>1, <1>2, <1>3, PlaceShape

\* Where a running sequence stands, and what lies around it.
LEMMA HereFacts ==
  ASSUME IInv, NEW t \in Seqs(plan), Active(t)
  PROVE  /\ Here(t) \in Places(plan)
         /\ \A r \in Line(plan, Here(t)) :
              /\ r \in Places(plan) /\ r = <<r[1], r[2]>> /\ r[1] \in Seqs(plan)
              /\ r[2] = at[r[1]] /\ Active(r[1])
              /\ r # Here(t) => ctl[r[1]] = "block"
         /\ <<Main, at[Main]>> \in Line(plan, Here(t))
<1>1. Here(t) \in Places(plan) /\ Written(plan) /\ Main \notin Branches
  BY PlaceOf, PlanFacts DEF IInv, Typed, Here
<1>2. Line(plan, Here(t)) \subseteq Places(plan)
  BY <1>1, LineShape
<1>3. \A r \in Line(plan, Here(t)) :
        r \in Places(plan) /\ r = <<r[1], r[2]>> /\ r[1] \in Seqs(plan)
  BY <1>1, <1>2, PlaceShape
<1>4. \A r \in Line(plan, Here(t)) :
        r[2] = at[r[1]] /\ Active(r[1]) /\ (r # Here(t) => ctl[r[1]] = "block")
  BY PlanFacts DEF Line, Here, IInv, InBlocks, Active
<1>5. <<Main, at[Main]>> \in Line(plan, Here(t))
  <2>1. CASE t = Main
    BY <2>1 DEF Line, Here
  <2>2. CASE t # Main
    <3>1. PICK i \in DOMAIN plan.body[Main] : <<Main, i>> \in plan.within[t]
      BY <2>2, <1>1, PlanFacts DEF Written, IInv
    <3>2. at[Main] = i
      BY <3>1, <2>2, PlanFacts DEF IInv, InBlocks
    <3> QED
      BY <3>1, <3>2, <2>2 DEF Line, Here
  <2> QED
    BY <2>1, <2>2
<1> QED
  BY <1>1, <1>3, <1>4, <1>5

\* A step that is reached finds everything that was ahead of it.
LEMMA Reached ==
  ASSUME IInv, NEW t \in Seqs(plan), Active(t)
  PROVE  /\ Here(t) \in RouteTail(plan, at[Main])
         /\ Avail(Here(t)) \subseteq context
<1>1. at[Main] \in Nat /\ Main \in Seqs(plan) /\ at[Main] \in All(plan)
  <2>1. Active(Main)
    BY HereFacts
  <2> QED
    BY <2>1, PlanFacts DEF IInv, Typed, All
<1>2. Here(t) \in RouteTail(plan, at[Main])
  BY HereFacts, <1>1 DEF RouteTail
<1>3. ASSUME NEW q \in Before(plan, Here(t), at[Main] .. Len(plan.body[Main]))
      PROVE  Guaranteed(plan, q) \subseteq context
  <2>1. PICK r \in Line(plan, Here(t)) :
          /\ q[1] = r[1] /\ q[2] < r[2]
          /\ q[1] = Main => q[2] \in at[Main] .. Len(plan.body[Main])
    BY DEF Before
  <2>2. r[2] = at[q[1]]
    BY <2>1, HereFacts
  <2>3. /\ q = <<q[1], q[2]>> /\ q[1] \in Seqs(plan)
        /\ q[2] \in DOMAIN plan.body[q[1]] /\ q[2] \in Nat
    BY PlaceShape, PlanFacts DEF Before, IInv
  <2>4. q[1] # Main
    BY <2>1, <2>2, <2>3, <1>1
  <2>5. q[1] \in plan.branches
    BY <2>3, <2>4, PlanFacts DEF IInv
  <2> QED
    BY <2>1, <2>2, <2>3, <2>5 DEF IInv, Recorded
<1> QED
  BY <1>2, <1>3 DEF Avail, RootsAt, IInv, Typed
-----------------------------------------------------------------------------
(* The steps of a run. *)

LEMMA InitHolds == Init => IInv
<1> SUFFICES ASSUME Init PROVE IInv
  OBVIOUS
<1>1. Typed
  <2>1. plan \in Plans /\ Written(plan)
    BY PlansAssumption DEF Init
  <2>2. \A t \in Seqs(plan) : 1 \in DOMAIN plan.body[t]
    <3> SUFFICES ASSUME NEW t \in Seqs(plan) PROVE 1 \in DOMAIN plan.body[t]
      OBVIOUS
    <3>1. plan.body[t] \in Seq(Ids) /\ plan.body[t] # <<>>
      BY <2>1 DEF Written
    <3>2. Len(plan.body[t]) \in Nat \ {0}
      BY <3>1
    <3> QED
      BY <3>1, <3>2
  <2> QED
    BY <2>1, <2>2 DEF Init, Typed
<1>2. InBlocks
  BY <1>1, PlanFacts DEF Init, InBlocks, Active
<1>3. Waits
  BY <1>1, PlanFacts DEF Init, Waits
<1>4. Recorded
  <2> SUFFICES ASSUME NEW b \in plan.branches
               PROVE  at[b] = 1 /\ ctl[b] = "idle" /\ DOMAIN plan.body[b] \subseteq Nat \ {0}
    BY DEF Recorded
  <2> QED
    BY <1>1, PlanFacts DEF Init
<1>5. Ahead
  <2> SUFFICES ASSUME NEW pl \in RouteTail(plan, at[Main])
               PROVE  /\ GatesRead(plan, pl, Avail(pl))
                      /\ CompensationReads(plan, pl, Avail(pl))
                      /\ MapReads(plan, pl, RootsAt(plan, pl, All(plan)))
                           => MapReads(plan, pl, Avail(pl))
    BY DEF Ahead
  <2>1. pl \in Places(plan)
    BY DEF RouteTail
  <2>2. All(plan) = at[Main] .. Len(plan.body[Main])
    BY <1>1, PlanFacts DEF Init, All
  <2>3. RootsAt(plan, pl, All(plan)) \subseteq Avail(pl)
    BY <2>2 DEF Avail
  <2>4. /\ GatesRead(plan, pl, RootsAt(plan, pl, All(plan)))
        /\ CompensationReads(plan, pl, RootsAt(plan, pl, All(plan)))
    BY <1>1, <2>1 DEF Typed, Accepted
  <2> QED
    BY <2>3, <2>4, ReadsMore
<1> QED
  BY <1>1, <1>2, <1>3, <1>4, <1>5 DEF IInv

\* What a block surely leaves behind is recorded when it closes.
LEMMA CloseRecords ==
  ASSUME IInv, NEW t \in Seqs(plan), Close(t)
  PROVE  Guaranteed(plan, Here(t)) \subseteq context \cup {Step(t)}
<1>1. /\ Active(t) /\ Here(t) \in Places(plan)
      /\ Written(plan) /\ Main \notin Branches
  BY HereFacts, PlanFacts DEF Close, Active, IInv
<1> SUFFICES ASSUME NEW q \in Places(plan), Here(t) \in Line(plan, q), q # Here(t),
                    \A s \in Line(plan, q) \ Line(plan, Here(t)) : Sure(plan, s)
             PROVE  IdAt(plan, q) \in context
  BY DEF Guaranteed, Step
<1>2. PICK s \in Line(plan, q) :
        /\ s[1] \in plan.branches /\ plan.holder[s[1]] = Here(t)
        /\ Here(t) \in Line(plan, s)
        /\ s \notin Line(plan, Here(t))
  BY <1>1, NextInside
<1>3. /\ s \in Places(plan) /\ s = <<s[1], s[2]>> /\ s[2] \in DOMAIN plan.body[s[1]]
      /\ Line(plan, s) \subseteq Line(plan, q)
      /\ Line(plan, Here(t)) \subseteq Line(plan, s)
  <2>1. s \in Places(plan) /\ Line(plan, s) \subseteq Line(plan, q)
    BY <1>1, LineShape
  <2> QED
    BY <2>1, <1>1, <1>2, LineShape, PlaceShape
<1>4. Sure(plan, s)
  BY <1>2
<1>5. s[1] \in BranchesAt(plan, Here(t))
  BY <1>2 DEF BranchesAt
<1>6. ctl[s[1]] = "done"
  BY <1>4, <1>5, <1>2 DEF Close, Sure, IInv, Recorded
<1>7. s[2] < at[s[1]]
  BY <1>2, <1>3, <1>4, <1>6 DEF IInv, Recorded
<1>8. Guaranteed(plan, s) \subseteq context
  BY <1>2, <1>3, <1>7 DEF IInv, Recorded
<1>9. IdAt(plan, q) \in Guaranteed(plan, s)
  BY <1>3 DEF Guaranteed
<1> QED
  BY <1>8, <1>9

\* When a block closes nothing is running in it.
LEMMA CloseEmpty ==
  ASSUME IInv, NEW t \in Seqs(plan), Close(t), NEW u \in plan.branches, Active(u), u # t
  PROVE  \A s \in plan.within[u] : s[1] # t
<1>1. /\ u \in Seqs(plan) /\ Written(plan) /\ Main \notin Branches
      /\ Here(u) \in Places(plan)
  BY HereFacts, PlanFacts DEF IInv
<1> SUFFICES ASSUME NEW s \in plan.within[u], s[1] = t
             PROVE  FALSE
  OBVIOUS
<1>2. s \in Line(plan, Here(u)) /\ s # Here(u)
  BY PlanFacts DEF Line, Here, IInv
<1>3. s = Here(t)
  BY <1>1, <1>2, HereFacts DEF Here
<1>4. PICK r \in Line(plan, Here(u)) :
        r[1] \in plan.branches /\ plan.holder[r[1]] = Here(t)
  BY <1>1, <1>2, <1>3, NextInside
<1>5. ctl[r[1]] \in {"done", "skipped"}
  BY <1>4 DEF Close, BranchesAt
<1>6. Active(r[1])
  BY <1>1, <1>4, HereFacts
<1> QED
  BY <1>5, <1>6 DEF Active

LEMMA RunRecords ==
  ASSUME IInv, NEW t \in Seqs(plan), Run(t)
  PROVE  Guaranteed(plan, Here(t)) \subseteq context \cup {Step(t)}
<1>1. Here(t) \in Places(plan) /\ Written(plan) /\ Main \notin Branches
  BY HereFacts, PlanFacts DEF Run, Active, IInv
<1> QED
  BY <1>1, GuaranteedOfStep DEF Run, Step

\* A route leads from the gate's step to a later one that was checked for it.
LEMMA OnwardFacts ==
  ASSUME IInv, NEW t \in Seqs(plan), Active(t), NEW k \in Onward(t)
  PROVE  /\ k \in Nat \ {0} /\ at[t] < k
         /\ \/ k = at[t] + 1
            \/ /\ t = Main /\ k \in All(plan)
               /\ RouteResolves(plan, at[t], k) /\ RouteTyped(plan, at[t], k)
               /\ \E g \in plan.gates, r \in Ids : r \in g.routes /\ k = IndexOf(plan, r)
<1>1. at[t] \in DOMAIN plan.body[t] /\ at[t] \in Nat \ {0}
  BY PlanFacts DEF IInv, Typed
<1>2. CASE Reviews(t) = {}
  BY <1>1, <1>2 DEF Onward
<1>3. CASE Reviews(t) # {}
  <2>0. PICK g \in Reviews(t) : k \in {IndexOf(plan, r) : r \in g.routes}
    BY <1>3 DEF Onward
  <2>1. PICK r \in g.routes : k = IndexOf(plan, r)
    BY <2>0
  <2>2. t = Main /\ g \in plan.gates /\ g.after = Step(t)
    BY <2>0 DEF Reviews
  <2>3. r \in Ids
    BY <2>1, <2>2, PlanFacts DEF Written, IInv
  <2>4. PICK from \in All(plan), to \in All(plan) :
          /\ plan.body[Main][from] = g.after /\ plan.body[Main][to] = r
          /\ from < to /\ RouteResolves(plan, from, to) /\ RouteTyped(plan, from, to)
    BY <2>1, <2>2, <2>3 DEF IInv, Typed, Accepted, RoutesAccepted
  <2>5. \A i, j \in All(plan) : plan.body[Main][i] = plan.body[Main][j] => i = j
    <3> SUFFICES ASSUME NEW i \in All(plan), NEW j \in All(plan),
                        plan.body[Main][i] = plan.body[Main][j]
                 PROVE  i = j
      OBVIOUS
    <3>1. <<Main, i>> \in Places(plan) /\ <<Main, j>> \in Places(plan)
      BY PlaceOf, PlanFacts DEF All, IInv
    <3>2. IdAt(plan, <<Main, i>>) = IdAt(plan, <<Main, j>>)
      BY DEF IdAt
    <3>3. <<Main, i>> = <<Main, j>>
      BY <3>1, <3>2 DEF IInv, Typed, Accepted, UniqueIds
    <3> QED
      BY <3>3
  <2>6. at[t] \in All(plan) /\ plan.body[Main][at[t]] = g.after
    BY <1>1, <2>2 DEF All, Step, Here, IdAt
  <2>7. from = at[t]
    BY <2>4, <2>5, <2>6
  <2>8. k = to
    BY <2>1, <2>4, <2>5 DEF IndexOf, All
  <2>9. to \in Nat \ {0}
    BY <2>4, PlanFacts DEF All, IInv
  <2>10. \E h \in plan.gates, i \in Ids : i \in h.routes /\ k = IndexOf(plan, i)
    BY <2>1, <2>2, <2>3
  <2> QED
    BY <2>2, <2>4, <2>7, <2>8, <2>9, <2>10, <1>1
<1> QED
  BY <1>2, <1>3
-----------------------------------------------------------------------------
(* A sequence passes a step. *)

\* What is ahead stays readable, on the next step or on a route.
LEMMA RecordAhead ==
  ASSUME IInv, NEW t \in Seqs(plan), Active(t), Record(t),
         Guaranteed(plan, Here(t)) \subseteq context \cup {Step(t)}
  PROVE  Ahead'
<1>1. plan' = plan /\ context' = context \cup {Step(t)}
  BY DEF Record
<1>2. PICK k \in Onward(t) : at' = [at EXCEPT ![t] = k]
  BY DEF Record
<1>3. /\ k \in Nat \ {0} /\ at[t] < k
      /\ k = at[t] + 1 \/ (t = Main /\ k \in All(plan) /\ RouteResolves(plan, at[t], k))
  BY <1>2, OnwardFacts
<1>4. /\ at \in [Seqs(plan) -> Nat \ {0}] /\ Main \in Seqs(plan)
      /\ Written(plan) /\ Main \notin Branches
      /\ Len(plan.body[Main]) \in Nat /\ All(plan) = 1 .. Len(plan.body[Main])
  BY PlanFacts DEF IInv, Typed, All
<1> DEFINE n == Len(plan.body[Main])
           Now(pl) == context \cup RootsAt(plan, pl, at[Main] .. n)
           Then(pl) == context' \cup RootsAt(plan, pl, at'[Main] .. n)
<1>5. at[Main] <= at'[Main] /\ at'[Main] \in Nat
  BY <1>2, <1>3, <1>4
<1> HIDE DEF n
<1>6. n \in Nat
  BY <1>4 DEF n
<1> SUFFICES ASSUME NEW pl \in RouteTail(plan, at'[Main])
             PROVE  /\ GatesRead(plan, pl, Then(pl))
                    /\ CompensationReads(plan, pl, Then(pl))
                    /\ MapReads(plan, pl, RootsAt(plan, pl, All(plan)))
                         => MapReads(plan, pl, Then(pl))
  BY <1>1 DEF Ahead, Avail, n
<1>7. pl \in RouteTail(plan, at[Main]) /\ pl \in Places(plan)
  <2>1. PICK i \in All(plan) : i >= at'[Main] /\ <<Main, i>> \in Line(plan, pl)
    BY <1>1 DEF RouteTail
  <2>2. i \in Nat /\ at[Main] \in Nat
    BY <1>4
  <2>3. i >= at[Main]
    BY <2>1, <2>2, <1>5
  <2> QED
    BY <2>1, <2>3, <1>1 DEF RouteTail
<1>8. /\ GatesRead(plan, pl, Now(pl))
      /\ CompensationReads(plan, pl, Now(pl))
      /\ MapReads(plan, pl, RootsAt(plan, pl, All(plan))) => MapReads(plan, pl, Now(pl))
  BY <1>7 DEF IInv, Ahead, Avail, n
<1>9. CASE t # Main
  <2>1. at'[Main] = at[Main]
    BY <1>2, <1>4, <1>9
  <2>2. Now(pl) \subseteq Then(pl)
    BY <1>1, <2>1
  <2> HIDE DEF Now, Then
  <2> QED
    BY <1>8, <2>2, ReadsMore
<1>10. CASE t = Main /\ k = at[t] + 1
  <2>1. at'[Main] = at[Main] + 1
    BY <1>2, <1>4, <1>10
  <2>2. ASSUME NEW q \in Before(plan, pl, at[Main] .. n), NEW x \in Guaranteed(plan, q)
        PROVE  x \in Then(pl)
    <3>1. CASE q \in Before(plan, pl, at'[Main] .. n)
      BY <3>1, <2>2 DEF RootsAt
    <3>2. CASE q \notin Before(plan, pl, at'[Main] .. n)
      <4>1. q[1] = Main /\ q[2] \in at[Main] .. n /\ q[2] \notin at'[Main] .. n
        BY <3>2, <2>2 DEF Before
      <4>2. q[2] = at[Main]
        BY <4>1, <2>1, <1>4, <1>6
      <4>3. q = Here(t)
        BY <4>1, <4>2, <1>10, <1>4, PlaceShape DEF Before, Here
      <4> QED
        BY <4>3, <1>1, <2>2
    <3> QED
      BY <3>1, <3>2
  <2>3. Now(pl) \subseteq Then(pl)
    BY <1>1, <2>2 DEF RootsAt
  <2> HIDE DEF Now, Then
  <2> QED
    BY <1>8, <2>3, ReadsMore
<1>11. CASE t = Main /\ k \in All(plan) /\ RouteResolves(plan, at[t], k)
  <2>1. at'[Main] = k
    BY <1>2, <1>4, <1>11
  <2> DEFINE R == RootsAt(plan, pl, (1 .. at[Main]) \cup (k .. n))
  <2>2. GatesRead(plan, pl, R) /\ CompensationReads(plan, pl, R) /\ MapReads(plan, pl, R)
    BY <1>11, <2>1 DEF RouteResolves, n
  <2>3. ASSUME NEW x \in R \cap Now(pl)
        PROVE  x \in Then(pl)
    <3>1. CASE x \in context \cup {Input} \cup Guaranteed(plan, Here(t))
      BY <3>1, <1>1 DEF RootsAt
    <3>2. CASE x \notin context \cup {Input} \cup Guaranteed(plan, Here(t))
      <4>1. PICK q \in Before(plan, pl, (1 .. at[Main]) \cup (k .. n)) :
              x \in Guaranteed(plan, q)
        BY <2>3, <3>2 DEF RootsAt
      <4>2. PICK r \in Before(plan, pl, at[Main] .. n) : x \in Guaranteed(plan, r)
        BY <2>3, <3>2 DEF RootsAt
      <4>3. CASE q \in Before(plan, pl, k .. n) \/ r \in Before(plan, pl, k .. n)
        BY <4>1, <4>2, <4>3, <2>1 DEF RootsAt
      <4>4. CASE q \notin Before(plan, pl, k .. n) /\ r \notin Before(plan, pl, k .. n)
        <5>1. /\ q \in Places(plan) /\ q[1] = Main /\ q[2] \in 1 .. at[Main]
              /\ r \in Places(plan) /\ r[1] = Main /\ r[2] \in at[Main] .. n
          BY <4>4, <4>1, <4>2 DEF Before
        <5>2. q = <<Main, q[2]>> /\ r = <<Main, r[2]>>
          BY <5>1, <1>4, PlaceShape
        <5>3. q[2] # at[Main] /\ r[2] # at[Main]
          BY <5>2, <4>1, <4>2, <3>2, <1>11 DEF Here
        <5>4. q[2] # r[2]
          BY <5>1, <5>3, <1>4, <1>6
        <5>5. PICK a \in Places(plan) : x = IdAt(plan, a) /\ q \in Line(plan, a)
          BY <4>1 DEF Guaranteed
        <5>6. PICK b \in Places(plan) : x = IdAt(plan, b) /\ r \in Line(plan, b)
          BY <4>2 DEF Guaranteed
        <5>7. a = b
          BY <5>5, <5>6 DEF IInv, Typed, Accepted, UniqueIds
        <5>8. q = r
          BY <5>1, <5>5, <5>6, <5>7, <1>4, LineShape
        <5> QED
          BY <5>4, <5>8
      <4> QED
        BY <4>3, <4>4
    <3> QED
      BY <3>1, <3>2
  <2>4. R \cap Now(pl) \subseteq Then(pl)
    BY <2>3
  <2> HIDE DEF R, Now, Then
  <2> QED
    BY <1>8, <2>2, <2>4, ReadsBoth
<1> QED
  BY <1>3, <1>9, <1>10, <1>11

LEMMA RecordHolds ==
  ASSUME IInv, NEW t \in Seqs(plan), Active(t), Record(t),
         Guaranteed(plan, Here(t)) \subseteq context \cup {Step(t)},
         \A u \in plan.branches : Active(u) /\ u # t => \A s \in plan.within[u] : s[1] # t
  PROVE  IInv'
<1>1. plan' = plan /\ context \subseteq context' /\ context' = context \cup {Step(t)}
  BY DEF Record
<1>2. PICK k \in Onward(t) :
        /\ at' = [at EXCEPT ![t] = k]
        /\ ctl' = [ctl EXCEPT ![t] = IF k <= Len(plan.body[t]) THEN "ready" ELSE "done"]
  BY DEF Record
<1>3. /\ k \in Nat \ {0} /\ at[t] < k
      /\ t # Main => k = at[t] + 1
  BY <1>2, OnwardFacts
<1>4. /\ \A u \in Seqs(plan) : u # t => at'[u] = at[u] /\ ctl'[u] = ctl[u]
      /\ at'[t] = k /\ ctl'[t] \in {"ready", "done"}
      /\ ctl'[t] = "ready" => k \in DOMAIN plan.body[t]
      /\ ctl'[t] = "done" => k > Len(plan.body[t])
      /\ at \in [Seqs(plan) -> Nat \ {0}]
  BY <1>2, <1>3, PlanFacts DEF IInv, Typed
<1>5. Typed'
  <2>1. at' \in [Seqs(plan) -> Nat \ {0}]
    BY <1>2, <1>3, <1>4
  <2>2. ctl' \in [Seqs(plan) -> {"idle", "ready", "block", "done", "skipped"}]
    BY <1>2 DEF IInv, Typed
  <2>3. \A u \in Seqs(plan) : ctl'[u] \in {"ready", "block"} => at'[u] \in DOMAIN plan.body[u]
    BY <1>4 DEF IInv, Typed, Active
  <2>4. \A u \in Seqs(plan) : ctl'[u] = "idle" => at'[u] = 1
    BY <1>4 DEF IInv, Typed
  <2> QED
    BY <1>1, <2>1, <2>2, <2>3, <2>4 DEF IInv, Typed, Active
<1>6. InBlocks'
  <2> SUFFICES ASSUME NEW u \in plan.branches, ctl'[u] \in {"ready", "block"},
                      NEW s \in plan.within[u]
               PROVE  ctl'[s[1]] = "block" /\ at'[s[1]] = s[2]
    BY <1>1 DEF InBlocks, Active
  <2>1. Active(u)
    BY <1>4, PlanFacts DEF Active, IInv
  <2>2. s[1] # t
    BY <2>1, HolderFacts DEF IInv
  <2>3. s[1] \in Seqs(plan)
    BY HolderFacts, PlanFacts, PlaceShape DEF IInv
  <2> QED
    BY <2>1, <2>2, <2>3, <1>4 DEF IInv, InBlocks
<1>7. Waits'
  <2> SUFFICES ASSUME NEW b \in plan.branches,
                      LET h == plan.holder[b]
                      IN  \/ ctl'[h[1]] = "idle"
                          \/ at'[h[1]] < h[2]
                          \/ at'[h[1]] = h[2] /\ ctl'[h[1]] = "ready"
               PROVE  ctl'[b] = "idle"
    BY <1>1 DEF Waits
  <2> DEFINE h == plan.holder[b]
  <2>1. h[1] \in Seqs(plan) /\ h[1] # b /\ h[2] \in Nat
    BY HolderFacts DEF IInv
  <2>2. ctl[b] = "idle"
    <3>1. CASE h[1] = t
      <4>1. at[h[1]] < h[2]
        BY <3>1, <2>1, <1>3, <1>4
      <4> QED
        BY <4>1 DEF IInv, Waits
    <3>2. CASE h[1] # t
      BY <3>2, <2>1, <1>4 DEF IInv, Waits
    <3> QED
      BY <3>1, <3>2
  <2>3. b # t
    BY <2>2 DEF Active
  <2> QED
    BY <2>2, <2>3, <1>4, PlanFacts DEF IInv
<1>8. Recorded'
  <2> SUFFICES ASSUME NEW b \in plan.branches
               PROVE  /\ \A j \in DOMAIN plan.body[b] :
                           j < at'[b] => Guaranteed(plan, <<b, j>>) \subseteq context'
                      /\ ctl'[b] = "done" =>
                           \A j \in DOMAIN plan.body[b] : Sure(plan, <<b, j>>) => j < at'[b]
                      /\ ctl'[b] = "skipped" => plan.gate[b] # {}
    BY <1>1 DEF Recorded
  <2>0. b \in Seqs(plan) /\ b # Main
    BY PlanFacts DEF IInv
  <2>1. CASE b # t
    BY <2>0, <2>1, <1>1, <1>4 DEF IInv, Recorded
  <2>2. CASE b = t
    <3>1. /\ DOMAIN plan.body[b] = 1 .. Len(plan.body[b])
          /\ Len(plan.body[b]) \in Nat
          /\ at[b] \in Nat /\ at'[b] = at[b] + 1
      BY <2>0, <2>2, <1>3, <1>4, PlanFacts DEF IInv
    <3>2. ASSUME NEW j \in DOMAIN plan.body[b], j < at'[b]
          PROVE  Guaranteed(plan, <<b, j>>) \subseteq context'
      <4>1. j < at[b] \/ j = at[b]
        BY <3>1, <3>2
      <4>2. CASE j < at[b]
        BY <4>2, <1>1 DEF IInv, Recorded
      <4>3. CASE j = at[b]
        BY <4>3, <1>1, <2>2 DEF Here
      <4> QED
        BY <4>1, <4>2, <4>3
    <3>3. ctl'[b] = "done" => \A j \in DOMAIN plan.body[b] : j < at'[b]
      BY <3>1, <1>4, <2>2
    <3> QED
      BY <3>2, <3>3, <1>4, <2>2
  <2> QED
    BY <2>1, <2>2
<1> QED
  BY <1>5, <1>6, <1>7, <1>8, RecordAhead DEF IInv

\* The steps that leave context and the loop indices as they are.
LEMMA SameAhead ==
  ASSUME Ahead, UNCHANGED <<plan, context, at>>
  PROVE  Ahead'
BY DEF Ahead, Avail

LEMMA SkipHolds ==
  ASSUME IInv, NEW t \in Seqs(plan), Skip(t)
  PROVE  IInv'
<1>1. /\ plan' = plan /\ context' = context /\ at' = at
      /\ ctl[t] = "ready" /\ plan.when[Step(t)] # {}
      /\ ctl' = [ctl EXCEPT ![t] = "done"]
  BY DEF Skip
<1>2. /\ \A u \in Seqs(plan) : u # t => ctl'[u] = ctl[u]
      /\ ctl'[t] = "done"
  BY <1>1 DEF IInv, Typed
<1>3. Typed'
  <2>1. ctl' \in [Seqs(plan) -> {"idle", "ready", "block", "done", "skipped"}]
    BY <1>1 DEF IInv, Typed
  <2> QED
    BY <2>1, <1>1, <1>2 DEF IInv, Typed, Active
<1>4. InBlocks'
  <2> SUFFICES ASSUME NEW u \in plan.branches, ctl'[u] \in {"ready", "block"},
                      NEW s \in plan.within[u]
               PROVE  ctl'[s[1]] = "block" /\ at[s[1]] = s[2]
    BY <1>1 DEF InBlocks, Active
  <2>1. Active(u)
    BY <1>2, PlanFacts DEF Active, IInv
  <2>2. ctl[s[1]] = "block" /\ at[s[1]] = s[2]
    BY <2>1 DEF IInv, InBlocks
  <2>3. s[1] \in Seqs(plan)
    BY HolderFacts, PlanFacts, PlaceShape DEF IInv
  <2> QED
    BY <2>2, <2>3, <1>1, <1>2
<1>5. Waits'
  <2> SUFFICES ASSUME NEW b \in plan.branches,
                      LET h == plan.holder[b]
                      IN  \/ ctl'[h[1]] = "idle"
                          \/ at[h[1]] < h[2]
                          \/ at[h[1]] = h[2] /\ ctl'[h[1]] = "ready"
               PROVE  ctl'[b] = "idle"
    BY <1>1 DEF Waits
  <2>1. plan.holder[b][1] \in Seqs(plan) /\ plan.holder[b][1] # b /\ b \in Seqs(plan)
    BY HolderFacts, PlanFacts DEF IInv
  <2>2. ctl[b] = "idle"
    BY <2>1, <1>2 DEF IInv, Waits
  <2> QED
    BY <2>1, <2>2, <1>1, <1>2
<1>6. Recorded'
  <2>1. t # Main => \A j \in DOMAIN plan.body[t] : Sure(plan, <<t, j>>) => j < at[t]
    <3> SUFFICES ASSUME t # Main, NEW j \in DOMAIN plan.body[t], Sure(plan, <<t, j>>)
                 PROVE  j < at[t]
      OBVIOUS
    <3>1. /\ at[t] \in Nat \ {0} /\ j \in Nat
      BY PlanFacts DEF IInv, Typed
    <3>2. \A i \in 1 .. j : plan.when[plan.body[t][i]] = {}
      BY DEF Sure
    <3>3. at[t] \notin 1 .. j
      BY <3>2, <1>1 DEF Step, Here, IdAt
    <3> QED
      BY <3>1, <3>3
  <2> QED
    BY <2>1, <1>1, <1>2, PlanFacts DEF IInv, Recorded
<1> QED
  BY <1>1, <1>3, <1>4, <1>5, <1>6, SameAhead DEF IInv

LEMMA OpenHolds ==
  ASSUME IInv, NEW t \in Seqs(plan), Open(t)
  PROVE  IInv'
<1> DEFINE within == BranchesAt(plan, Here(t))
<1>1. /\ plan' = plan /\ context' = context /\ at' = at
      /\ ctl[t] = "ready" /\ Active(t)
  BY DEF Open, Active
<1>2. PICK out \in SUBSET {b \in within : plan.gate[b] # {}} :
        ctl' = [u \in Seqs(plan) |-> IF u = t THEN "block"
                                     ELSE IF u \in out THEN "skipped"
                                     ELSE IF u \in within THEN "ready" ELSE ctl[u]]
  BY DEF Open
<1>3. ASSUME NEW b \in within
      PROVE  /\ b \in plan.branches /\ b \in Seqs(plan)
             /\ plan.holder[b][1] = t /\ plan.holder[b][2] = at[t]
             /\ b # t /\ ctl[b] = "idle" /\ at[b] = 1
             /\ plan.within[b] = Line(plan, Here(t))
  <2>1. b \in plan.branches /\ plan.holder[b] = Here(t)
    BY DEF BranchesAt
  <2>2. plan.holder[b][1] = t /\ plan.holder[b][2] = at[t]
    BY <2>1 DEF Here
  <2>3. ctl[b] = "idle"
    BY <2>1, <2>2, <1>1 DEF IInv, Waits
  <2> QED
    BY <2>1, <2>2, <2>3, HolderFacts, PlanFacts DEF IInv, Typed
<1>4. /\ ctl'[t] = "block"
      /\ \A b \in within : ctl'[b] \in {"ready", "skipped"}
      /\ \A b \in within : ctl'[b] = "skipped" => plan.gate[b] # {}
      /\ \A u \in Seqs(plan) : u # t /\ u \notin within => ctl'[u] = ctl[u]
  BY <1>2, <1>3
<1> HIDE DEF within
<1>5. Typed'
  <2>1. ctl' \in [Seqs(plan) -> {"idle", "ready", "block", "done", "skipped"}]
    BY <1>2 DEF IInv, Typed
  <2>2. ASSUME NEW u \in Seqs(plan), ctl'[u] \in {"ready", "block"}
        PROVE  at[u] \in DOMAIN plan.body[u]
    <3>1. CASE u = t
      BY <3>1, <1>1 DEF IInv, Typed
    <3>2. CASE u \in within
      BY <3>2, <1>3, PlanFacts DEF IInv
    <3>3. CASE u # t /\ u \notin within
      BY <3>3, <2>2, <1>4 DEF IInv, Typed, Active
    <3> QED
      BY <3>1, <3>2, <3>3
  <2>3. \A u \in Seqs(plan) : ctl'[u] = "idle" => at[u] = 1
    BY <1>4 DEF IInv, Typed
  <2> QED
    BY <2>1, <2>2, <2>3, <1>1 DEF IInv, Typed, Active
<1>6. InBlocks'
  <2> SUFFICES ASSUME NEW u \in plan.branches, ctl'[u] \in {"ready", "block"},
                      NEW s \in plan.within[u]
               PROVE  ctl'[s[1]] = "block" /\ at[s[1]] = s[2]
    BY <1>1 DEF InBlocks, Active
  <2>0. u \in Seqs(plan) /\ s[1] \in Seqs(plan)
    BY HolderFacts, PlanFacts, PlaceShape DEF IInv
  <2>1. ASSUME ctl[s[1]] = "block", at[s[1]] = s[2]
        PROVE  ctl'[s[1]] = "block" /\ at[s[1]] = s[2]
    BY <2>0, <2>1, <1>1, <1>3, <1>4
  <2>2. CASE u \in within
    <3>1. s \in Line(plan, Here(t))
      BY <2>2, <1>3
    <3>2. CASE s = Here(t)
      BY <3>2, <1>4 DEF Here
    <3>3. CASE s # Here(t)
      BY <3>1, <3>3, <2>1, <1>1, HereFacts
    <3> QED
      BY <3>2, <3>3
  <2>3. CASE u \notin within
    <3>1. Active(u)
      BY <2>3, <2>0, <1>1, <1>4 DEF Active
    <3> QED
      BY <3>1, <2>1 DEF IInv, InBlocks
  <2> QED
    BY <2>2, <2>3
<1>7. Waits'
  <2> SUFFICES ASSUME NEW b \in plan.branches,
                      LET h == plan.holder[b]
                      IN  \/ ctl'[h[1]] = "idle"
                          \/ at[h[1]] < h[2]
                          \/ at[h[1]] = h[2] /\ ctl'[h[1]] = "ready"
               PROVE  ctl'[b] = "idle"
    BY <1>1 DEF Waits
  <2> DEFINE h == plan.holder[b]
  <2>1. /\ h[1] \in Seqs(plan) /\ h[1] # b /\ b \in Seqs(plan)
        /\ h[2] \in Nat /\ at[h[1]] \in Nat
    BY HolderFacts, PlanFacts DEF IInv, Typed
  <2>2. ctl[b] = "idle"
    <3>1. CASE h[1] = t
      BY <3>1, <1>1, <1>4 DEF IInv, Waits
    <3>2. CASE h[1] \in within
      BY <3>2, <1>3 DEF IInv, Waits
    <3>3. CASE h[1] # t /\ h[1] \notin within
      BY <3>3, <2>1, <1>4 DEF IInv, Waits
    <3> QED
      BY <3>1, <3>2, <3>3
  <2>3. b # t
    BY <2>2, <1>1
  <2>4. b \notin within
    <3> SUFFICES ASSUME b \in within PROVE FALSE
      OBVIOUS
    <3>1. h[1] = t /\ h[2] = at[t]
      BY <1>3
    <3> QED
      BY <3>1, <2>1, <1>4
  <2> QED
    BY <2>1, <2>2, <2>3, <2>4, <1>4
<1>8. Recorded'
  <2>1. ASSUME NEW b \in plan.branches
        PROVE  /\ ctl'[b] = "done" => ctl[b] = "done"
               /\ ctl'[b] = "skipped" => plan.gate[b] # {}
    BY <1>4, PlanFacts DEF IInv, Recorded
  <2> QED
    BY <2>1, <1>1 DEF IInv, Recorded
<1> QED
  BY <1>1, <1>5, <1>6, <1>7, <1>8, SameAhead DEF IInv

LEMMA Inductive == Spec => []IInv
<1>1. IInv /\ [Next]_vars => IInv'
  <2> SUFFICES ASSUME IInv, [Next]_vars PROVE IInv'
    OBVIOUS
  <2>1. ASSUME NEW t \in Seqs(plan), Skip(t) PROVE IInv'
    BY <2>1, SkipHolds
  <2>2. ASSUME NEW t \in Seqs(plan), Run(t) PROVE IInv'
    <3>1. /\ Active(t) /\ Record(t)
          /\ Guaranteed(plan, Here(t)) \subseteq context \cup {Step(t)}
      BY <2>2, RunRecords DEF Run, Active
    <3>2. \A u \in plan.branches : Active(u) /\ u # t => \A s \in plan.within[u] : s[1] # t
      BY <2>2 DEF Run, IInv, InBlocks
    <3> QED
      BY <3>1, <3>2, RecordHolds
  <2>3. ASSUME NEW t \in Seqs(plan), Open(t) PROVE IInv'
    BY <2>3, OpenHolds
  <2>4. ASSUME NEW t \in Seqs(plan), Close(t) PROVE IInv'
    <3>1. /\ Active(t) /\ Record(t)
          /\ Guaranteed(plan, Here(t)) \subseteq context \cup {Step(t)}
      BY <2>4, CloseRecords DEF Close, Active
    <3>2. \A u \in plan.branches : Active(u) /\ u # t => \A s \in plan.within[u] : s[1] # t
      BY <2>4, CloseEmpty
    <3> QED
      BY <3>1, <3>2, RecordHolds
  <2>5. CASE UNCHANGED vars
    <3>1. /\ plan' = plan /\ context' = context /\ at' = at /\ ctl' = ctl
      BY <2>5 DEF vars
    <3>2. Typed' /\ InBlocks' /\ Waits' /\ Recorded'
      BY <3>1 DEF IInv, Typed, InBlocks, Waits, Recorded, Active
    <3> QED
      BY <3>1, <3>2, SameAhead DEF IInv
  <2> QED
    BY <2>1, <2>2, <2>3, <2>4, <2>5 DEF Next, Ended
<1> QED
  BY <1>1, InitHolds, PTL DEF Spec

LEMMA InvariantResolves == IInv => PathsResolve
<1> SUFFICES ASSUME IInv, NEW t \in Seqs(plan), ctl[t] = "ready"
             PROVE  /\ GatesRead(plan, Here(t), context)
                    /\ CompensationReads(plan, Here(t), context)
                    /\ MapReads(plan, Here(t), RootsAt(plan, Here(t), All(plan))) =>
                         MapReads(plan, Here(t), context)
  BY DEF PathsResolve
<1>1. Here(t) \in RouteTail(plan, at[Main]) /\ Avail(Here(t)) \subseteq context
  BY Reached DEF Active
<1> QED
  BY <1>1, ReadsMore DEF IInv, Ahead

\* For every plan that load validation accepts (build-workflow.ts), of any
\* size and nesting: on every path of a run, over any sequence of routes and
\* false gates, the roots a step reads have been recorded.
THEOREM PathsAlwaysResolve == Spec => []PathsResolve
BY Inductive, InvariantResolves, PTL
-----------------------------------------------------------------------------
(* The refs of the values. *)

\* A step that is not the first of a branch is its own source.
LEMMA SourceHere ==
  ASSUME NEW p, Written(p), Main \notin Branches,
         NEW pl \in Places(p), pl[1] = Main \/ pl[2] > 1
  PROVE  Source(p, pl) = pl /\ pl \in Sources(p, pl)
<1>1. pl \in Line(p, pl) /\ pl[1] \in Seqs(p) /\ pl[2] \in Nat \ {0}
  BY LineShape, PlaceShape
<1>2. pl \in Sources(p, pl)
  BY <1>1 DEF Sources
<1>3. ASSUME NEW q \in Sources(p, pl), q # pl
      PROVE  FALSE
  <2>1. q \in p.within[pl[1]] /\ pl[1] # Main
    BY <1>3 DEF Sources, Line
  <2>2. pl[1] \in p.branches
    BY <2>1, <1>1 DEF Seqs
  <2>3. Line(p, q) \subseteq p.within[pl[1]] /\ \A r \in p.within[pl[1]] : r[1] # pl[1]
    BY <2>1, <2>2 DEF Written
  <2>4. pl \in Line(p, pl) \ Line(p, q)
    BY <2>3, <1>1
  <2>5. pl[1] # Main /\ pl[2] = 1
    BY <2>4, <1>3 DEF Sources
  <2> QED
    BY <2>5
<1>4. Sources(p, pl) = {pl}
  BY <1>2, <1>3
<1> QED
  BY <1>2, <1>4 DEF Source

\* The first step of a branch has the source of its block.
LEMMA SourceInside ==
  ASSUME NEW p, Written(p), Main \notin Branches, NEW b \in p.branches
  PROVE  Sources(p, <<b, 1>>) = Sources(p, p.holder[b])
<1> DEFINE pl == <<b, 1>>
           h == p.holder[b]
<1>1. b # Main /\ p.within[b] = Line(p, h) /\ \A r \in p.within[b] : r[1] # b
  BY DEF Written
<1>2. h \in Places(p)
  BY DEF Written
<1>3. Line(p, pl) = {pl} \cup Line(p, h)
  BY <1>1 DEF Line
<1>4. \A q \in Line(p, h) : Line(p, q) \subseteq Line(p, h)
  BY <1>2, LineShape
<1>5. pl \notin Line(p, h)
  BY <1>1
<1>6. pl[1] # Main /\ pl[2] = 1
  BY <1>1
<1> HIDE DEF pl, h
<1>7. Sources(p, pl) = Sources(p, h)
  BY <1>3, <1>4, <1>5, <1>6 DEF Sources
<1> QED
  BY <1>7 DEF pl, h

\* What the step of t consumes, by the running value of the top level.
Given(t) ==
  LET q == Source(plan, Here(t))
  IN  IF q[1] = Main THEN value[Main] ELSE plan.gives[plan.body[q[1]][q[2] - 1]]

\* The top level stands where a route that was checked has led it.
OnRoute ==
  \E from \in All(plan) :
    /\ RouteTyped(plan, from, at[Main])
    /\ value[Main] = plan.gives[plan.body[Main][from]]
    /\ \E g \in plan.gates, r \in Ids : r \in g.routes /\ at[Main] = IndexOf(plan, r)

ValuesTyped == value \in [Seqs(plan) -> Refs \cup {None, Array}]
MainFlow == Active(Main) => value[Main] = InOrder(plan)[at[Main]] \/ OnRoute
Sourced ==
  \A t \in Seqs(plan) : Active(t) =>
    /\ Source(plan, Here(t)) \in Sources(plan, Here(t))
    /\ value[t] = Given(t)

Flow == ValuesTyped /\ MainFlow /\ Sourced /\ ResultsTyped

\* A step consumes what the chain check compared, or, when its source is the
\* step a route led to, what the check of that route compared.
LEMMA FlowConsumes ==
  ASSUME IInv, Flow, NEW t \in Seqs(plan), Active(t)
  PROVE  \/ value[t] = Consumed(plan, InOrder(plan), Here(t))
         \/ /\ \E from \in All(plan) :
                 /\ RouteTyped(plan, from, at[Main])
                 /\ value[t] = Consumed(plan,
                      [InOrder(plan) EXCEPT ![at[Main]] = plan.gives[plan.body[Main][from]]],
                      Here(t))
            /\ t # Main => LeftAtRoutedEntry(t)
<1> DEFINE q == Source(plan, Here(t))
<1>1. q \in Line(plan, Here(t)) /\ value[t] = Given(t) /\ q \in Sources(plan, Here(t))
  BY DEF Flow, Sourced, Sources
<1>2. /\ Written(plan) /\ Main \notin Branches /\ Main \in Seqs(plan)
      /\ Here(t) \in Places(plan)
  BY HereFacts, PlanFacts DEF IInv
<1>3. q[1] = Main => q[2] = at[Main] /\ Active(Main)
  BY <1>1, HereFacts
<1>4. CASE q[1] # Main
  BY <1>4, <1>1 DEF Given, Consumed
<1>5. CASE q[1] = Main /\ value[Main] = InOrder(plan)[at[Main]]
  BY <1>5, <1>1, <1>3 DEF Given, Consumed
<1>6. CASE q[1] = Main /\ value[Main] # InOrder(plan)[at[Main]]
  <2>1. OnRoute /\ value[t] = value[Main]
    BY <1>1, <1>3, <1>6 DEF Flow, MainFlow, Given
  <2>2. PICK from \in All(plan) :
          /\ RouteTyped(plan, from, at[Main])
          /\ value[Main] = plan.gives[plan.body[Main][from]]
    BY <2>1 DEF OnRoute
  <2> DEFINE top == [InOrder(plan) EXCEPT ![at[Main]] = plan.gives[plan.body[Main][from]]]
  <2>3. at[Main] \in All(plan)
    BY <1>2, <1>3, <1>6 DEF IInv, Typed, All
  <2>4. top[at[Main]] = value[Main]
    BY <2>2, <2>3 DEF InOrder
  <2> HIDE DEF top
  <2>5. value[t] = Consumed(plan, top, Here(t))
    BY <2>1, <2>4, <1>3, <1>6 DEF Consumed
  <2>6. ASSUME t # Main PROVE LeftAtRoutedEntry(t)
    <3>1. at[t] = 1
      <4>1. SUFFICES ASSUME at[t] # 1 PROVE FALSE
        OBVIOUS
      <4>2. at[t] > 1
        BY <4>1 DEF IInv, Typed
      <4>3. Here(t)[1] = t /\ Here(t)[2] = at[t]
        BY DEF Here
      <4>4. q = Here(t)
        BY <4>2, <4>3, <1>2, SourceHere
      <4> QED
        BY <4>3, <4>4, <1>6, <2>6
    <3>2. <<Main, at[Main]>> \in plan.within[t]
      BY <2>6, HereFacts DEF Line, Here
    <3> QED
      BY <3>1, <3>2, <2>1 DEF OnRoute, LeftAtRoutedEntry
  <2> QED
    BY <2>2, <2>5, <2>6 DEF top
<1> QED
  BY <1>4, <1>5, <1>6

LEMMA FlowMatches == IInv /\ Flow => RefsMatch
<1> SUFFICES ASSUME IInv, Flow, NEW t \in Seqs(plan), ctl[t] = "ready",
                    plan.kind[Step(t)] = "atomic"
             PROVE  Agree(value[t], plan.takes[Step(t)])
  BY DEF RefsMatch
<1>1. Active(t) /\ Here(t) \in Places(plan)
  BY HereFacts DEF Active
<1>2. CASE value[t] = Consumed(plan, InOrder(plan), Here(t))
  BY <1>1, <1>2 DEF IInv, Typed, Accepted, ChainTyped, Step
<1>3. CASE value[t] # Consumed(plan, InOrder(plan), Here(t))
  <2>1. PICK from \in All(plan) :
          /\ RouteTyped(plan, from, at[Main])
          /\ value[t] = Consumed(plan,
               [InOrder(plan) EXCEPT ![at[Main]] = plan.gives[plan.body[Main][from]]], Here(t))
    BY <1>1, <1>3, FlowConsumes
  <2>2. Here(t) \in RouteTail(plan, at[Main])
    BY <1>1, Reached
  <2> QED
    BY <2>1, <2>2 DEF RouteTyped, Step
<1> QED
  BY <1>2, <1>3

LEMMA FlowInit == Init => Flow
<1> SUFFICES ASSUME Init PROVE Flow
  OBVIOUS
<1>1. IInv /\ Written(plan) /\ Main \in Seqs(plan) /\ Main \notin Branches /\ 1 \in All(plan)
  BY InitHolds, PlanFacts DEF IInv, All
<1>2. ValuesTyped
  BY <1>1 DEF Init, ValuesTyped, Written
<1>3. at[Main] = 1 /\ value[Main] = plan.input
  BY <1>1 DEF Init
<1>4. MainFlow
  BY <1>1, <1>3 DEF MainFlow, InOrder
<1>5. Sourced
  <2> SUFFICES ASSUME NEW t \in Seqs(plan), Active(t)
               PROVE  /\ Source(plan, Here(t)) \in Sources(plan, Here(t))
                      /\ value[t] = Given(t)
    BY DEF Sourced
  <2>1. t = Main /\ Here(t)[1] = Main /\ Here(t) \in Places(plan)
    BY <1>1, HereFacts DEF Init, Active, Here
  <2>2. Source(plan, Here(t)) = Here(t) /\ Here(t) \in Sources(plan, Here(t))
    BY <2>1, <1>1, SourceHere
  <2> QED
    BY <2>1, <2>2 DEF Given
<1>6. ResultsTyped
  BY DEF ResultsTyped, Init
<1> QED
  BY <1>2, <1>4, <1>5, <1>6 DEF Flow

\* A passed step leaves its own ref behind, and the route or the next step
\* finds it.
LEMMA FlowRecord ==
  ASSUME IInv, Flow, IInv', NEW t \in Seqs(plan), Active(t), Record(t),
         \A u \in plan.branches : Active(u) /\ u # t => \A s \in plan.within[u] : s[1] # t
  PROVE  Flow'
<1>1. plan' = plan /\ value' = [value EXCEPT ![t] = plan.gives[Step(t)]]
  BY DEF Record
<1>2. PICK k \in Onward(t) :
        /\ at' = [at EXCEPT ![t] = k]
        /\ ctl' = [ctl EXCEPT ![t] = IF k <= Len(plan.body[t]) THEN "ready" ELSE "done"]
  BY DEF Record
<1>3. /\ k \in Nat \ {0} /\ at[t] < k
      /\ \/ k = at[t] + 1
         \/ /\ t = Main /\ k \in All(plan) /\ RouteTyped(plan, at[t], k)
            /\ \E g \in plan.gates, r \in Ids : r \in g.routes /\ k = IndexOf(plan, r)
  BY <1>2, OnwardFacts
<1>4. /\ Written(plan) /\ Main \notin Branches /\ Main \in Seqs(plan)
      /\ at \in [Seqs(plan) -> Nat \ {0}]
      /\ DOMAIN plan.body[t] = 1 .. Len(plan.body[t]) /\ Len(plan.body[t]) \in Nat
      /\ at[t] \in DOMAIN plan.body[t]
      /\ Step(t) = plan.body[t][at[t]] /\ Step(t) \in Ids
  <2>1. Here(t) \in Places(plan)
    BY HereFacts
  <2> QED
    BY <2>1, PlanFacts, PlaceShape DEF IInv, Typed, Step, Here, IdAt
<1>5. /\ \A u \in Seqs(plan) : u # t => at'[u] = at[u] /\ ctl'[u] = ctl[u] /\ value'[u] = value[u]
      /\ at'[t] = k /\ ctl'[t] \in {"ready", "done"}
      /\ value'[t] = plan.gives[plan.body[t][at[t]]]
      /\ ctl'[t] = "ready" => k \in DOMAIN plan.body[t]
      /\ ctl'[t] = "done" => k = Len(plan.body[t]) + 1 /\ at[t] = Len(plan.body[t])
  <2>1. value \in [Seqs(plan) -> Refs \cup {None, Array}]
    BY DEF Flow, ValuesTyped
  <2>2. t = Main => All(plan) = DOMAIN plan.body[t]
    BY DEF All
  <2> QED
    BY <2>1, <2>2, <1>1, <1>2, <1>3, <1>4 DEF IInv, Typed
<1>6. ValuesTyped'
  <2>1. plan.gives[Step(t)] \in Refs \cup {None, Array}
    BY <1>4 DEF Written
  <2> QED
    BY <2>1, <1>1 DEF Flow, ValuesTyped
<1>7. MainFlow'
  <2> SUFFICES ASSUME ctl'[Main] \in {"ready", "block"}
               PROVE  value'[Main] = InOrder(plan)[at'[Main]] \/ OnRoute'
    BY <1>1 DEF MainFlow, Active
  <2>1. CASE t # Main
    <3>1. Active(Main) /\ value'[Main] = value[Main] /\ at'[Main] = at[Main]
      BY <2>1, <1>4, <1>5 DEF Active
    <3> QED
      BY <3>1, <1>1 DEF Flow, MainFlow, OnRoute
  <2>2. CASE t = Main /\ k = at[t] + 1
    <3>1. k \in All(plan) /\ k # 1 /\ k - 1 = at[t]
      BY <2>2, <1>4, <1>5 DEF All
    <3>2. InOrder(plan)[k] = plan.gives[plan.body[Main][at[t]]]
      BY <3>1 DEF InOrder
    <3> QED
      BY <2>2, <3>2, <1>5
  <2>3. CASE t = Main /\ k # at[t] + 1
    BY <2>3, <1>1, <1>3, <1>4, <1>5 DEF OnRoute, All
  <2> QED
    BY <2>1, <2>2, <2>3
<1>8. Sourced'
  <2> SUFFICES ASSUME NEW u \in Seqs(plan), ctl'[u] \in {"ready", "block"}
               PROVE  /\ Source(plan, <<u, at'[u]>>) \in Sources(plan, <<u, at'[u]>>)
                      /\ value'[u] = Given(u)'
    BY <1>1 DEF Sourced, Active, Here
  <2>1. CASE u = t
    <3>1. /\ <<u, at'[u]>> \in Places(plan)
          /\ u = Main \/ at'[u] > 1
      BY <2>1, <1>3, <1>4, <1>5, PlaceOf
    <3>2. /\ Source(plan, <<u, at'[u]>>) = <<u, at'[u]>>
          /\ <<u, at'[u]>> \in Sources(plan, <<u, at'[u]>>)
      BY <3>1, <1>4, SourceHere
    <3>3. Given(u)' = IF u = Main THEN value'[Main]
                      ELSE plan.gives[plan.body[u][at'[u] - 1]]
      BY <3>2, <1>1 DEF Given, Here
    <3>4. u # Main => at'[u] - 1 = at[u]
      BY <2>1, <1>3, <1>4, <1>5
    <3> QED
      BY <3>2, <3>3, <3>4, <2>1, <1>5
  <2>2. CASE u # t
    <3>1. Active(u) /\ at'[u] = at[u] /\ value'[u] = value[u] /\ Here(u)' = Here(u)
      BY <2>2, <1>5 DEF Active, Here
    <3>2. t # Main
      <4> SUFFICES ASSUME t = Main PROVE FALSE
        OBVIOUS
      <4>1. u \in plan.branches
        BY <2>2, PlanFacts DEF IInv
      <4>2. <<Main, at[Main]>> \in plan.within[u]
        BY <3>1, <2>2, HereFacts DEF Line, Here
      <4> QED
        BY <4>1, <4>2, <3>1, <2>2
    <3>3. value'[Main] = value[Main]
      BY <3>2, <1>4, <1>5
    <3>4. Given(u)' = Given(u)
      BY <3>1, <3>3, <1>1 DEF Given
    <3> QED
      BY <3>1, <3>4, <1>1 DEF Flow, Sourced, Here
  <2> QED
    BY <2>1, <2>2
<1>9. ResultsTyped'
  <2> SUFFICES ASSUME NEW u \in Seqs(plan), ctl'[u] = "done"
               PROVE  IF u = Main THEN Agree(value'[u], plan.output)
                      ELSE LeftAtRoutedEntry(u)' \/ Agree(value'[u], plan.gives[Last(plan, u)])
    BY <1>1 DEF ResultsTyped
  <2>1. CASE u = t
    <3>1. value'[u] = plan.gives[Last(plan, u)]
      BY <2>1, <1>5 DEF Last
    <3>2. Agree(plan.gives[Last(plan, Main)], plan.output)
      BY DEF IInv, Typed, Accepted, ChainTyped
    <3> QED
      BY <3>1, <3>2 DEF Agree
  <2>2. CASE u # t
    <3>1. ctl[u] = "done" /\ value'[u] = value[u] /\ at'[u] = at[u]
      BY <2>2, <1>5
    <3> QED
      BY <3>1, <1>1 DEF Flow, ResultsTyped, LeftAtRoutedEntry
  <2> QED
    BY <2>1, <2>2
<1> QED
  BY <1>6, <1>7, <1>8, <1>9 DEF Flow

\* A sequence that a gate ends has the value the checks compared, unless it
\* stands where a route led.
LEMMA FlowSkip ==
  ASSUME IInv, Flow, NEW t \in Seqs(plan), Skip(t)
  PROVE  Flow'
<1>1. /\ plan' = plan /\ value' = value /\ at' = at
      /\ ctl[t] = "ready" /\ Active(t) /\ plan.when[Step(t)] # {}
      /\ \A u \in Seqs(plan) : u # t => ctl'[u] = ctl[u]
      /\ ctl'[t] = "done"
  BY DEF Skip, IInv, Typed, Active
<1>2. Here(t) \in Places(plan)
  BY <1>1, HereFacts
<1>3. IF t = Main THEN Agree(value[t], plan.output)
      ELSE LeftAtRoutedEntry(t) \/ Agree(value[t], plan.gives[Last(plan, t)])
  <2>1. CASE value[t] = Consumed(plan, InOrder(plan), Here(t))
    <3>1. Agree(value[t], IF Here(t)[1] = Main THEN plan.output
                          ELSE plan.gives[Last(plan, Here(t)[1])])
      BY <2>1, <1>1, <1>2 DEF IInv, Typed, Accepted, ChainTyped, Step
    <3>2. Here(t)[1] = t
      BY DEF Here
    <3> QED
      BY <3>1, <3>2
  <2>2. CASE value[t] # Consumed(plan, InOrder(plan), Here(t)) /\ t # Main
    BY <2>2, <1>1, FlowConsumes
  <2>3. CASE value[t] # Consumed(plan, InOrder(plan), Here(t)) /\ t = Main
    <3>1. PICK from \in All(plan) :
            /\ RouteTyped(plan, from, at[Main])
            /\ value[t] = Consumed(plan,
                 [InOrder(plan) EXCEPT ![at[Main]] = plan.gives[plan.body[Main][from]]], Here(t))
      BY <2>3, <1>1, FlowConsumes
    <3> DEFINE top == [InOrder(plan) EXCEPT ![at[Main]] = plan.gives[plan.body[Main][from]]]
    <3>2. /\ at[Main] \in All(plan) /\ at[Main] \in Nat
          /\ plan.when[plan.body[Main][at[Main]]] # {}
      BY <2>3, <1>1, PlanFacts DEF IInv, Typed, All, Step, Here, IdAt
    <3>3. Agree(top[at[Main]], plan.output)
      BY <3>1, <3>2 DEF RouteTyped
    <3>4. Source(plan, Here(t)) = Here(t) /\ Here(t)[1] = Main /\ Here(t)[2] = at[Main]
      BY <2>3, <1>2, SourceHere, PlanFacts DEF Here, IInv
    <3> HIDE DEF top
    <3>5. Consumed(plan, top, Here(t)) = top[at[Main]]
      BY <3>4 DEF Consumed
    <3> QED
      BY <3>1, <3>3, <3>5, <2>3 DEF top
  <2> QED
    BY <2>1, <2>2, <2>3
<1>4. ResultsTyped'
  <2> SUFFICES ASSUME NEW u \in Seqs(plan), ctl'[u] = "done"
               PROVE  IF u = Main THEN Agree(value[u], plan.output)
                      ELSE LeftAtRoutedEntry(u) \/ Agree(value[u], plan.gives[Last(plan, u)])
    BY <1>1 DEF ResultsTyped, LeftAtRoutedEntry
  <2> QED
    BY <1>1, <1>3 DEF Flow, ResultsTyped
<1>5. ValuesTyped' /\ MainFlow' /\ Sourced'
  BY <1>1, PlanFacts DEF Flow, ValuesTyped, MainFlow, Sourced, Active, OnRoute, Given, Here, IInv
<1> QED
  BY <1>4, <1>5 DEF Flow

LEMMA FlowOpen ==
  ASSUME IInv, Flow, NEW t \in Seqs(plan), Open(t)
  PROVE  Flow'
<1> DEFINE within == BranchesAt(plan, Here(t))
<1>1. /\ plan' = plan /\ at' = at /\ ctl[t] = "ready" /\ Active(t)
      /\ value' = [u \in Seqs(plan) |-> IF u \in within THEN value[t] ELSE value[u]]
  BY DEF Open, Active
<1>2. PICK out \in SUBSET {b \in within : plan.gate[b] # {}} :
        ctl' = [u \in Seqs(plan) |-> IF u = t THEN "block"
                                     ELSE IF u \in out THEN "skipped"
                                     ELSE IF u \in within THEN "ready" ELSE ctl[u]]
  BY DEF Open
<1>3. ASSUME NEW b \in within
      PROVE  /\ b \in plan.branches /\ b \in Seqs(plan) /\ b # Main /\ b # t
             /\ plan.holder[b] = Here(t) /\ ctl[b] = "idle" /\ at[b] = 1
  <2>1. b \in plan.branches /\ plan.holder[b] = Here(t)
    BY DEF BranchesAt
  <2>2. plan.holder[b][1] = t /\ plan.holder[b][2] = at[t]
    BY <2>1 DEF Here
  <2>3. ctl[b] = "idle"
    BY <2>1, <2>2, <1>1 DEF IInv, Waits
  <2> QED
    BY <2>1, <2>2, <2>3, HolderFacts, PlanFacts DEF IInv, Typed
<1>4. /\ ctl'[t] = "block"
      /\ \A b \in within : ctl'[b] \in {"ready", "skipped"} /\ value'[b] = value[t]
      /\ \A u \in Seqs(plan) : u \notin within => value'[u] = value[u]
      /\ \A u \in Seqs(plan) : u # t /\ u \notin within => ctl'[u] = ctl[u]
      /\ Main \in Seqs(plan) /\ value'[Main] = value[Main]
  BY <1>1, <1>2, <1>3, PlanFacts DEF IInv
<1> HIDE DEF within
<1>5. ValuesTyped'
  BY <1>1 DEF Flow, ValuesTyped
<1>6. MainFlow'
  <2>1. ctl'[Main] \in {"ready", "block"} => Active(Main)
    BY <1>1, <1>3, <1>4 DEF Active
  <2> QED
    BY <2>1, <1>1, <1>4 DEF Flow, MainFlow, OnRoute, Active
<1>7. Sourced'
  <2> SUFFICES ASSUME NEW u \in Seqs(plan), ctl'[u] \in {"ready", "block"}
               PROVE  /\ Source(plan, Here(u)) \in Sources(plan, Here(u))
                      /\ value'[u] = Given(u)'
    BY <1>1 DEF Sourced, Active, Here
  <2>0. Given(u)' = Given(u)
    BY <1>1, <1>4 DEF Given, Here
  <2>1. CASE u \in within
    <3>1. Here(u) = <<u, 1>>
      BY <2>1, <1>3 DEF Here
    <3>2. Sources(plan, Here(u)) = Sources(plan, Here(t))
      BY <3>1, <2>1, <1>3, SourceInside, PlanFacts DEF IInv
    <3>3. Source(plan, Here(u)) = Source(plan, Here(t))
      BY <3>2 DEF Source
    <3>4. Given(u) = Given(t)
      BY <3>3 DEF Given
    <3> QED
      BY <3>2, <3>3, <3>4, <2>0, <2>1, <1>1, <1>4 DEF Flow, Sourced
  <2>2. CASE u \notin within
    <3>1. Active(u) /\ value'[u] = value[u]
      BY <2>2, <1>1, <1>4 DEF Active
    <3> QED
      BY <3>1, <2>0 DEF Flow, Sourced
  <2> QED
    BY <2>1, <2>2
<1>8. ResultsTyped'
  <2> SUFFICES ASSUME NEW u \in Seqs(plan), ctl'[u] = "done"
               PROVE  IF u = Main THEN Agree(value'[u], plan.output)
                      ELSE LeftAtRoutedEntry(u) \/ Agree(value'[u], plan.gives[Last(plan, u)])
    BY <1>1 DEF ResultsTyped, LeftAtRoutedEntry
  <2>1. ctl[u] = "done" /\ value'[u] = value[u]
    BY <1>4
  <2> QED
    BY <2>1 DEF Flow, ResultsTyped
<1> QED
  BY <1>5, <1>6, <1>7, <1>8 DEF Flow

LEMMA FlowHolds == Spec => [](IInv /\ Flow)
<1>1. IInv /\ IInv' /\ Flow /\ [Next]_vars => Flow'
  <2> SUFFICES ASSUME IInv, IInv', Flow, [Next]_vars PROVE Flow'
    OBVIOUS
  <2>1. ASSUME NEW t \in Seqs(plan), Skip(t) PROVE Flow'
    BY <2>1, FlowSkip
  <2>2. ASSUME NEW t \in Seqs(plan), Run(t) PROVE Flow'
    <3>1. Active(t) /\ Record(t)
      BY <2>2 DEF Run, Active
    <3>2. \A u \in plan.branches : Active(u) /\ u # t => \A s \in plan.within[u] : s[1] # t
      BY <2>2 DEF Run, IInv, InBlocks
    <3> QED
      BY <3>1, <3>2, FlowRecord
  <2>3. ASSUME NEW t \in Seqs(plan), Open(t) PROVE Flow'
    BY <2>3, FlowOpen
  <2>4. ASSUME NEW t \in Seqs(plan), Close(t) PROVE Flow'
    <3>1. Active(t) /\ Record(t)
      BY <2>4 DEF Close, Active
    <3>2. \A u \in plan.branches : Active(u) /\ u # t => \A s \in plan.within[u] : s[1] # t
      BY <2>4, CloseEmpty
    <3> QED
      BY <3>1, <3>2, FlowRecord
  <2>5. CASE UNCHANGED vars
    BY <2>5 DEF vars, Flow, ValuesTyped, MainFlow, Sourced, ResultsTyped, OnRoute, Given,
         Active, Here, LeftAtRoutedEntry
  <2> QED
    BY <2>1, <2>2, <2>3, <2>4, <2>5 DEF Next, Ended
<1> QED
  BY <1>1, FlowInit, Inductive, PTL DEF Spec

\* For every plan that load validation accepts: an activity or a child is given
\* what the step before it on the path that was really taken produced, in
\* order or over a route; where both refs are known they are the same
\* (workflowSchemaChainError, reviewPlanFromSpec).
THEOREM RefsAlwaysMatch == Spec => []RefsMatch
BY FlowHolds, FlowMatches, PTL

\* For every plan that load validation accepts: however gates and routes end
\* it, a workflow ends with its declared output, and a branch with what its last
\* step would have given, but for a branch left at the entry of a block that
\* a route leads to.
THEOREM ResultsAlwaysTyped == Spec => []ResultsTyped
<1>1. Flow => ResultsTyped
  BY DEF Flow
<1> QED
  BY <1>1, FlowHolds, PTL
=============================================================================
