------------------------- MODULE GovernanceProofs -------------------------
(***************************************************************************)
(* What holds of governance for any plans, changesets, policies and        *)
(* requests, and for tables of any length.                                 *)
(***************************************************************************)
EXTENDS Governance, FiniteSetTheorems, WellFoundedInduction, TLAPS

\* Every decision is the judgement of its plan and changeset by some policies, and by those
\* its hash names, unless the hash is of a later file.
Judged ==
    \A d \in Rows(decisions) : \E policy \in Policy :
        /\ decisions[d].verdict = Evaluate(plans[decisions[d].plan], csets[decisions[d].cset].changes, policy).verdict
        /\ decisions[d].risk = Evaluate(plans[decisions[d].plan], csets[decisions[d].cset].changes, policy).risk
        /\ ~ decisions[d].late => policy = decisions[d].policy

\* The hash is of the policies in use.
Agreement == ~ late => policies = snapshot

IInv == TypeOK /\ Judged /\ Agreement

\* What every step does to the tables: the old rows stay.
Grows ==
    /\ Len(plans) <= Len(plans') /\ \A r \in Rows(plans) : plans'[r] = plans[r]
    /\ Len(csets) <= Len(csets') /\ \A c \in Rows(csets) : csets'[c] = csets[c]
    /\ Len(decisions) <= Len(decisions') /\ \A d \in Rows(decisions) : decisions'[d] = decisions[d]
    /\ Len(approvals) <= Len(approvals') /\ \A a \in Rows(approvals) : approvals'[a] = approvals[a]

-----------------------------------------------------------------------------
(* The sum of the lines.                                                   *)

Lines(c) == IF c.delta < 0 THEN - c.delta ELSE c.delta
First(s) == CHOOSE x \in s : TRUE

\* Adds up what w says of the members of every set in D, one member after the other.
Sums(f, D, w) ==
    /\ f \in [D -> Nat]
    /\ \A s \in D : f[s] = IF s = {} THEN 0 ELSE w[First(s)] + f[s \ {First(s)}]

\* Sets that are smaller than a number.
Smaller(S, n) == {s \in SUBSET S : Cardinality(s) <= n}

\* Induction over the subsets of a finite set: what holds everything whose proper subsets it
\* holds, holds all of them.
LEMMA SubsetInduction ==
    ASSUME NEW S, IsFiniteSet(S), NEW T,
           \A s \in SUBSET S : (\A t \in SUBSET s : t # s => t \in T) => s \in T
    PROVE  SUBSET S \subseteq T
<1> DEFINE Left == (SUBSET S) \ T
<1>1. SUFFICES ASSUME Left # {} PROVE FALSE
  OBVIOUS
<1>2. PICK s \in Left : \A t \in Left : <<t, s>> \notin StrictSubsetOrdering(S)
  <2>1. Left \subseteq FiniteSubsetsOf(S)
    BY FS_FiniteSubsetsOfFinite
  <2> HIDE DEF Left
  <2> QED
    BY <1>1, <2>1, FS_StrictSubsetOrderingWellFounded, WFMin
<1>3. ASSUME NEW t \in SUBSET s, t # s PROVE t \in T
  <2>1. <<t, s>> \in StrictSubsetOrdering(S)
    <3>1. t \subseteq s /\ s \subseteq S /\ t # s
      BY <1>3
    <3> HIDE DEF Left
    <3> QED
      BY <3>1 DEF StrictSubsetOrdering
  <2>2. t \in SUBSET S
    OBVIOUS
  <2> QED
    BY <1>2, <2>1, <2>2
<1> QED
  BY <1>3

LEMMA FirstIsMember ==
    ASSUME NEW s, s # {}
    PROVE  First(s) \in s
BY DEF First

\* Without one member, a set has one less.
LEMMA OneLess ==
    ASSUME NEW S, IsFiniteSet(S), NEW s \in SUBSET S, NEW x \in s
    PROVE  /\ IsFiniteSet(s) /\ s \ {x} \in SUBSET S
           /\ Cardinality(s) \in Nat \ {0} /\ Cardinality(s \ {x}) = Cardinality(s) - 1
<1>1. IsFiniteSet(s)
  BY FS_Subset
<1>2. Cardinality(s) \in Nat /\ Cardinality(s \ {x}) \in Nat
  BY <1>1, FS_CardinalityType, FS_RemoveElement
<1>3. Cardinality(s \ {x}) = Cardinality(s) - 1
  BY <1>1, FS_RemoveElement
<1> QED
  BY <1>1, <1>2, <1>3

\* There is such a sum for every set of a finite set.
LEMMA SumsExist ==
    ASSUME NEW S, IsFiniteSet(S), NEW w \in [S -> Nat]
    PROVE  \E f : Sums(f, SUBSET S, w)
<1> DEFINE Summed(n) == \E f : Sums(f, Smaller(S, n), w)
           T == {s \in SUBSET S : Summed(Cardinality(s))}
<1>1. Summed(0)
  <2> DEFINE f == [s \in Smaller(S, 0) |-> 0]
  <2>1. \A s \in Smaller(S, 0) : s = {}
    <3>1. ASSUME NEW s \in SUBSET S, Cardinality(s) <= 0 PROVE s = {}
      <4>1. IsFiniteSet(s)
        BY FS_Subset
      <4>2. Cardinality(s) \in Nat
        BY <4>1, FS_CardinalityType
      <4>3. Cardinality(s) = 0
        BY <3>1, <4>2
      <4> QED
        BY <4>1, <4>3, FS_EmptySet
    <3> QED
      BY <3>1 DEF Smaller
  <2>2. Sums(f, Smaller(S, 0), w)
    BY <2>1 DEF Sums
  <2> HIDE DEF f
  <2> QED
    BY <2>2
<1>2. ASSUME NEW n \in Nat, Summed(n) PROVE Summed(n + 1)
  <2>1. PICK f : Sums(f, Smaller(S, n), w)
    BY <1>2
  <2> DEFINE D == Smaller(S, n + 1)
             g == [s \in D |-> IF s = {} THEN 0 ELSE w[First(s)] + f[s \ {First(s)}]]
  <2>2. ASSUME NEW s \in D, s # {}
        PROVE  First(s) \in S /\ s \ {First(s)} \in Smaller(S, n) /\ s \ {First(s)} \in D
    <3>1. First(s) \in s /\ s \in SUBSET S /\ Cardinality(s) <= n + 1
      BY <2>2, FirstIsMember DEF Smaller
    <3>2. /\ s \ {First(s)} \in SUBSET S
          /\ Cardinality(s) \in Nat \ {0} /\ Cardinality(s \ {First(s)}) = Cardinality(s) - 1
      BY <3>1, OneLess
    <3>3. Cardinality(s \ {First(s)}) <= n /\ Cardinality(s \ {First(s)}) <= n + 1
      BY <3>1, <3>2
    <3> QED
      BY <3>1, <3>2, <3>3 DEF Smaller
  <2>3. \A s \in Smaller(S, n) : s \in D
    <3>1. ASSUME NEW s \in SUBSET S, Cardinality(s) <= n PROVE Cardinality(s) <= n + 1
      <4>1. IsFiniteSet(s)
        BY FS_Subset
      <4>2. Cardinality(s) \in Nat
        BY <4>1, FS_CardinalityType
      <4> QED
        BY <3>1, <4>2
    <3> QED
      BY <3>1 DEF Smaller
  <2>4. /\ f \in [Smaller(S, n) -> Nat]
        /\ \A s \in Smaller(S, n) : f[s] = IF s = {} THEN 0 ELSE w[First(s)] + f[s \ {First(s)}]
    BY <2>1 DEF Sums
  <2> HIDE DEF D
  <2>5. \A s \in Smaller(S, n) : g[s] = f[s]
    BY <2>3, <2>4
  <2>6. g \in [D -> Nat]
    <3>1. ASSUME NEW s \in D PROVE (IF s = {} THEN 0 ELSE w[First(s)] + f[s \ {First(s)}]) \in Nat
      <4>1. CASE s = {}
        BY <4>1
      <4>2. CASE s # {}
        <5>1. w[First(s)] \in Nat /\ f[s \ {First(s)}] \in Nat
          BY <2>2, <2>4, <4>2
        <5> QED
          BY <4>2, <5>1
      <4> QED
        BY <4>1, <4>2
    <3> QED
      BY <3>1
  <2>7. ASSUME NEW s \in D
        PROVE  g[s] = IF s = {} THEN 0 ELSE w[First(s)] + g[s \ {First(s)}]
    <3>1. CASE s = {}
      BY <3>1
    <3>2. CASE s # {}
      <4>1. g[s \ {First(s)}] = f[s \ {First(s)}]
        BY <2>2, <2>5, <3>2
      <4> QED
        BY <3>2, <4>1
    <3> QED
      BY <3>1, <3>2
  <2> HIDE DEF g
  <2>8. Sums(g, D, w)
    BY <2>6, <2>7 DEF Sums
  <2> QED
    BY <2>8 DEF D
<1> HIDE DEF Summed
<1>3. ASSUME NEW s \in SUBSET S, \A t \in SUBSET s : t # s => t \in T
      PROVE  s \in T
  <2>1. CASE s = {}
    <3>1. Cardinality(s) = 0
      BY <2>1, FS_EmptySet
    <3> QED
      BY <1>1, <3>1
  <2>2. CASE s # {}
    <3>1. PICK x : x \in s
      BY <2>2
    <3>2. Cardinality(s) \in Nat \ {0} /\ Cardinality(s \ {x}) = Cardinality(s) - 1
      BY <3>1, OneLess
    <3>3. Summed(Cardinality(s \ {x}))
      <4>1. s \ {x} \in SUBSET s /\ s \ {x} # s
        BY <3>1
      <4> QED
        BY <1>3, <4>1
    <3>4. Cardinality(s) - 1 \in Nat /\ (Cardinality(s) - 1) + 1 = Cardinality(s)
      BY <3>2
    <3>5. Summed(Cardinality(s))
      BY <1>2, <3>2, <3>3, <3>4
    <3> QED
      BY <3>5
  <2> QED
    BY <2>1, <2>2
<1>4. Summed(Cardinality(S))
  <2> HIDE DEF T
  <2>1. SUBSET S \subseteq T
    BY <1>3, SubsetInduction
  <2> QED
    BY <2>1 DEF T
<1>5. Smaller(S, Cardinality(S)) = SUBSET S
  <2>1. ASSUME NEW s \in SUBSET S PROVE Cardinality(s) <= Cardinality(S)
    BY FS_Subset
  <2> QED
    BY <2>1 DEF Smaller
<1> QED
  BY <1>4, <1>5 DEF Summed

\* The order of the members does not matter.
LEMMA SumsInAnyOrder ==
    ASSUME NEW S, IsFiniteSet(S), NEW w \in [S -> Nat], NEW f, Sums(f, SUBSET S, w)
    PROVE  \A s \in SUBSET S : \A y \in s : f[s] = w[y] + f[s \ {y}]
<1> DEFINE T == {s \in SUBSET S : \A y \in s : f[s] = w[y] + f[s \ {y}]}
<1>1. /\ f \in [SUBSET S -> Nat]
      /\ \A s \in SUBSET S : f[s] = IF s = {} THEN 0 ELSE w[First(s)] + f[s \ {First(s)}]
  BY DEF Sums
<1>2. ASSUME NEW s \in SUBSET S, \A t \in SUBSET s : t # s => t \in T
      PROVE  s \in T
  <2>1. ASSUME NEW y \in s PROVE f[s] = w[y] + f[s \ {y}]
    <3> DEFINE x == First(s)
    <3>1. x \in s
      BY FirstIsMember
    <3>2. f[s] = w[x] + f[s \ {x}]
      BY <1>1
    <3> HIDE DEF x
    <3>3. CASE x = y
      BY <3>2, <3>3
    <3>4. CASE x # y
      <4>1. s \ {x} \in T /\ s \ {y} \in T
        BY <1>2, <3>1
      <4>2. f[s \ {x}] = w[y] + f[(s \ {x}) \ {y}]
        BY <3>4, <4>1
      <4>3. f[s \ {y}] = w[x] + f[(s \ {y}) \ {x}]
        BY <3>1, <3>4, <4>1
      <4>4. (s \ {x}) \ {y} = (s \ {y}) \ {x}
        OBVIOUS
      <4> DEFINE k == f[(s \ {x}) \ {y}]
      <4>5. w[x] \in Nat /\ w[y] \in Nat /\ k \in Nat
        BY <1>1, <3>1
      <4>6. f[s \ {x}] = w[y] + k /\ f[s \ {y}] = w[x] + k
        BY <4>2, <4>3, <4>4
      <4> HIDE DEF k
      <4>7. f[s] = w[x] + (w[y] + k)
        BY <3>2, <4>6
      <4>8. w[x] + (w[y] + k) = w[y] + (w[x] + k)
        BY <4>5
      <4> QED
        BY <4>6, <4>7, <4>8
    <3> QED
      BY <3>3, <3>4
  <2> QED
    BY <2>1
<1>3. SUBSET S \subseteq T
  <2> HIDE DEF T
  <2> QED
    BY <1>2, SubsetInduction
<1> QED
  BY <1>3

\* A part sums up to no more.
LEMMA SumsGrow ==
    ASSUME NEW S, IsFiniteSet(S), NEW w \in [S -> Nat], NEW f, Sums(f, SUBSET S, w)
    PROVE  \A t \in SUBSET S : \A s \in SUBSET t : f[s] <= f[t]
<1> DEFINE T == {t \in SUBSET S : \A s \in SUBSET t : f[s] <= f[t]}
<1>1. f \in [SUBSET S -> Nat]
  BY DEF Sums
<1>2. ASSUME NEW t \in SUBSET S, \A u \in SUBSET t : u # t => u \in T
      PROVE  t \in T
  <2>1. ASSUME NEW s \in SUBSET t PROVE f[s] <= f[t]
    <3>1. CASE s = t
      BY <1>1, <3>1
    <3>2. CASE s # t
      <4>1. PICK y \in t : y \notin s
        BY <3>2
      <4>2. f[t] = w[y] + f[t \ {y}]
        BY SumsInAnyOrder
      <4>3. t \ {y} \in T /\ s \in SUBSET (t \ {y})
        BY <1>2, <4>1
      <4>4. f[s] <= f[t \ {y}]
        BY <4>3
      <4>5. f[s] \in Nat /\ f[t \ {y}] \in Nat /\ w[y] \in Nat
        BY <1>1
      <4> QED
        BY <4>2, <4>4, <4>5
    <3> QED
      BY <3>1, <3>2
  <2> QED
    BY <2>1
<1>3. SUBSET S \subseteq T
  <2> HIDE DEF T
  <2> QED
    BY <1>2, SubsetInduction
<1> QED
  BY <1>3

\* TotalLines is that sum.
LEMMA LinesAreSummed ==
    ASSUME NEW S, IsFiniteSet(S), S \subseteq Change, NEW c \in SUBSET S,
           NEW f, Sums(f, SUBSET S, [x \in S |-> Lines(x)])
    PROVE  TotalLines(c) = f[c]
<1> DEFINE w == [x \in S |-> Lines(x)]
           G(h) == [s \in SUBSET c |-> IF s = {} THEN 0 ELSE Lines(First(s)) + h[s \ {First(s)}]]
           h == CHOOSE h : h = G(h)
           r == [s \in SUBSET c |-> f[s]]
<1>1. TotalLines(c) = h[c]
  BY DEF TotalLines, MapThenSumSet, MapThenFoldSet, Lines, First
<1>2. \A s \in SUBSET c : f[s] = IF s = {} THEN 0 ELSE Lines(First(s)) + f[s \ {First(s)}]
  <2>1. \A s \in SUBSET c : s # {} => w[First(s)] = Lines(First(s))
    BY FirstIsMember
  <2>2. \A s \in SUBSET c : f[s] = IF s = {} THEN 0 ELSE w[First(s)] + f[s \ {First(s)}]
    BY DEF Sums
  <2> HIDE DEF w
  <2> QED
    BY <2>1, <2>2
<1>3. r = G(r)
  <2>1. \A s \in SUBSET c : r[s] = f[s] /\ r[s \ {First(s)}] = f[s \ {First(s)}]
    OBVIOUS
  <2> QED
    BY <1>2, <2>1
<1>4. h = G(h)
  <2> HIDE DEF G, r
  <2> QED
    BY <1>3, Zenon
<1> HIDE DEF h, r
<1>5. \A s \in SUBSET c : h[s] = IF s = {} THEN 0 ELSE Lines(First(s)) + h[s \ {First(s)}]
  BY <1>4
<1> DEFINE T == {s \in SUBSET c : h[s] = f[s]}
<1>6. ASSUME NEW s \in SUBSET c, \A t \in SUBSET s : t # s => t \in T
      PROVE  s \in T
  <2>1. CASE s = {}
    BY <1>2, <1>5, <2>1
  <2>2. CASE s # {}
    <3>1. s \ {First(s)} \in T
      BY <1>6, <2>2, FirstIsMember
    <3> QED
      BY <1>2, <1>5, <2>2, <3>1
  <2> QED
    BY <2>1, <2>2
<1>7. IsFiniteSet(c)
  BY FS_Subset
<1>8. SUBSET c \subseteq T
  <2> HIDE DEF T
  <2> QED
    BY <1>6, <1>7, SubsetInduction
<1> QED
  BY <1>1, <1>8

\* So a set of changes has no more lines than one that includes it.
LEMMA LinesMonotone ==
    ASSUME NEW c \in Changes \cup {Placeholder}, NEW d \in Changes \cup {Placeholder}, c \subseteq d
    PROVE  TotalLines(c) <= TotalLines(d) /\ TotalLines(c) \in Nat /\ TotalLines(d) \in Nat
<1> DEFINE w == [x \in d |-> Lines(x)]
<1>1. d \subseteq Change /\ IsFiniteSet(d)
  <2>1. CASE d \in Changes
    BY <2>1, GovernanceAssumption DEF GovernanceAssumption
  <2>2. CASE d = Placeholder
    <3> DEFINE x == [item |-> 1, path |-> "plain", delete |-> FALSE, delta |-> 0]
    <3>1. x \in Change
      BY DEF Change, Paths
    <3>2. IsFiniteSet({x})
      BY FS_Singleton
    <3> QED
      BY <2>2, <3>1, <3>2 DEF Placeholder
  <2> QED
    BY <2>1, <2>2
<1>2. w \in [d -> Nat]
  BY <1>1 DEF Lines, Change
<1>3. PICK f : Sums(f, SUBSET d, w)
  <2> HIDE DEF w
  <2> QED
    BY <1>1, <1>2, SumsExist
<1>4. TotalLines(c) = f[c] /\ TotalLines(d) = f[d]
  BY <1>1, <1>3, LinesAreSummed
<1>5. f[c] <= f[d]
  <2> HIDE DEF w
  <2> QED
    BY <1>1, <1>2, <1>3, SumsGrow
<1>6. f[c] \in Nat /\ f[d] \in Nat
  BY <1>3 DEF Sums
<1> QED
  BY <1>4, <1>5, <1>6

-----------------------------------------------------------------------------
(* WriteGate.                                                              *)

\* A judgement has a verdict and a level.
LEMMA EvaluateType ==
    ASSUME NEW plan \in Plan, NEW changes, NEW policy
    PROVE  /\ Evaluate(plan, changes, policy).verdict \in Verdicts
           /\ Evaluate(plan, changes, policy).risk \in 0..3
<1>1. EffectiveRisk(plan, changes) \in 0..3
  BY DEF EffectiveRisk, Climb, Plan
<1> QED
  BY <1>1 DEF Evaluate, Verdicts

\* What is allowed can be rolled back and verified, is below high and touches nothing that the
\* policies or the schema rule name.
LEMMA AllowedIsHarmless ==
    ASSUME NEW plan \in Plan, NEW changes, NEW policy,
           Evaluate(plan, changes, policy).verdict = "allow"
    PROVE  /\ plan.rollback /\ plan.verification
           /\ Evaluate(plan, changes, policy).risk < 2
           /\ ~ Touches(changes, Schema)
           /\ ~ Touches(changes, policy.forbidden) /\ ~ Touches(changes, policy.triggers)
           /\ plan.risk < 2
<1>1. ~ Touches(changes, policy.forbidden)
  BY DEF Evaluate
<1>2. /\ Gated(plan) /\ ~ (EffectiveRisk(plan, changes) >= 2)
      /\ ~ Touches(changes, policy.triggers)
      /\ Evaluate(plan, changes, policy).risk = EffectiveRisk(plan, changes)
  BY <1>1 DEF Evaluate
<1>3. EffectiveRisk(plan, changes) \in 0..3 /\ EffectiveRisk(plan, changes) >= plan.risk
  BY DEF EffectiveRisk, Climb, Plan
<1>4. Touches(changes, Schema) => EffectiveRisk(plan, changes) >= 2
  BY DEF EffectiveRisk, Climb, Plan
<1> QED
  BY <1>1, <1>2, <1>3, <1>4 DEF Gated, Plan

\* One escalation keeps the order of levels and of causes.
LEMMA RaiseMonotone ==
    ASSUME NEW r \in 0..3, NEW s \in 0..3, r <= s, NEW to \in 0..3,
           NEW a \in BOOLEAN, NEW b \in BOOLEAN, a => b
    PROVE  Climb(r, to, a) <= Climb(s, to, b) /\ Climb(r, to, a) \in 0..3 /\ Climb(s, to, b) \in 0..3
BY DEF Climb

\* More changes never lower the risk.
LEMMA RiskMonotone ==
    ASSUME NEW plan \in Plan, NEW c \in Changes \cup {Placeholder}, NEW d \in Changes \cup {Placeholder},
           c \subseteq d
    PROVE  /\ EffectiveRisk(plan, c) <= EffectiveRisk(plan, d)
           /\ EffectiveRisk(plan, c) \in 0..3 /\ EffectiveRisk(plan, d) \in 0..3
<1> DEFINE one(x) == Climb(plan.risk, 1, Touches(x, Critical))
           two(x) == Climb(one(x), 2, TotalLines(x) > 500)
           three(x) == Climb(two(x), 1, \E y \in x : y.delete)
<1>1. \A paths : Touches(c, paths) => Touches(d, paths)
  BY DEF Touches
<1>2. one(c) <= one(d) /\ one(c) \in 0..3 /\ one(d) \in 0..3
  BY <1>1 DEF Climb, Plan
<1>3. (TotalLines(c) > 500) => (TotalLines(d) > 500)
  BY LinesMonotone
<1>4. two(c) <= two(d) /\ two(c) \in 0..3 /\ two(d) \in 0..3
  <2> HIDE DEF one
  <2> QED
    BY <1>2, <1>3 DEF Climb
<1>5. (\E y \in c : y.delete) => (\E y \in d : y.delete)
  OBVIOUS
<1>6. three(c) <= three(d) /\ three(c) \in 0..3 /\ three(d) \in 0..3
  <2> HIDE DEF two
  <2> QED
    BY <1>4, <1>5 DEF Climb
<1>7. EffectiveRisk(plan, c) = Climb(three(c), 2, Touches(c, Schema))
  BY DEF EffectiveRisk
<1>8. EffectiveRisk(plan, d) = Climb(three(d), 2, Touches(d, Schema))
  BY DEF EffectiveRisk
<1> HIDE DEF three
<1> QED
  BY <1>1, <1>6, <1>7, <1>8 DEF Climb

\* More changes never soften the judgement.
LEMMA EvaluateMonotone ==
    ASSUME NEW plan \in Plan, NEW c \in Changes \cup {Placeholder}, NEW d \in Changes \cup {Placeholder},
           c \subseteq d, NEW policy
    PROVE  /\ Severity(Evaluate(plan, c, policy).verdict) <= Severity(Evaluate(plan, d, policy).verdict)
           /\ Evaluate(plan, c, policy).risk <= Evaluate(plan, d, policy).risk
<1>1. \A paths : Touches(c, paths) => Touches(d, paths)
  BY DEF Touches
<1>2. /\ EffectiveRisk(plan, c) <= EffectiveRisk(plan, d)
      /\ EffectiveRisk(plan, c) \in 0..3 /\ EffectiveRisk(plan, d) \in 0..3
  BY RiskMonotone
<1>3. CASE Touches(d, policy.forbidden)
  BY <1>1, <1>2, <1>3 DEF Evaluate, Severity
<1>4. CASE ~ Touches(d, policy.forbidden)
  BY <1>1, <1>2, <1>4 DEF Evaluate, Severity
<1> QED
  BY <1>3, <1>4

-----------------------------------------------------------------------------
(* The steps.                                                              *)

\* A row appended to a table is its last one.
LEMMA Appended ==
    ASSUME NEW S, NEW table \in Seq(S), NEW row \in S, NEW new, new = Append(table, row)
    PROVE  /\ new \in Seq(S) /\ Len(new) = Len(table) + 1
           /\ \A r \in Rows(table) : new[r] = table[r]
           /\ new[Len(table) + 1] = row
           /\ \A r \in Rows(new) : r \in Rows(table) \/ r = Len(table) + 1
BY DEF Rows

\* The tables only grow.
LEMMA Growth == TypeOK /\ [Next]_vars => Grows
<1> SUFFICES ASSUME TypeOK, [Next]_vars PROVE Grows
  OBVIOUS
<1> USE DEF tables, gate, disk
<1>1. ASSUME NEW form, CreatePlan(form) PROVE Grows
  BY <1>1 DEF CreatePlan, TypeOK, Grows, Rows
<1>3. ASSUME NEW p \in Rows(plans), NEW changes, CreateChangeset(p, changes) PROVE Grows
  BY <1>3 DEF CreateChangeset, TypeOK, Grows, Rows
<1>4. ASSUME NEW c \in Rows(csets), EvaluateChangeset(c) PROVE Grows
  BY <1>4 DEF EvaluateChangeset, TypeOK, Grows, Rows
<1>5. ASSUME NEW p \in Rows(plans), NEW d \in Rows(decisions), ApprovePlan(p, d) PROVE Grows
  BY <1>5 DEF ApprovePlan, TypeOK, Grows, Rows
<1>6. CASE UNCHANGED tables
  BY <1>6 DEF TypeOK, Grows, Rows
<1> QED
  BY <1>1, <1>3, <1>4, <1>5, <1>6
     DEF Next, EditPolicies, Restart, PlanFromIntent, Transition, vars

\* A row that points at rows that are there.
LEMMA DecisionType ==
    ASSUME TypeOK, NEW c \in Rows(csets)
    PROVE  /\ DecisionOn(c, snapshot) \in Decision
           /\ DecisionOn(c, snapshot).cset = c
           /\ DecisionOn(c, snapshot).plan = csets[c].plan
           /\ csets[c].plan \in Rows(plans)
           /\ plans[csets[c].plan] \in Plan
<1>1. csets[c].plan \in Rows(plans) /\ csets[c].plan \in Nat /\ plans[csets[c].plan] \in Plan
  BY DEF TypeOK, Rows
<1>2. /\ Evaluate(plans[csets[c].plan], csets[c].changes, policies).verdict \in Verdicts
      /\ Evaluate(plans[csets[c].plan], csets[c].changes, policies).risk \in 0..3
  BY <1>1, EvaluateType
<1>3. snapshot \in Policy /\ late \in BOOLEAN /\ c \in Nat
  BY DEF TypeOK, Rows
<1> QED
  BY <1>1, <1>2, <1>3 DEF DecisionOn, Decision

\* The planner's plans are plans.
LEMMA PlanForType == ASSUME NEW i \in Intent PROVE PlanFor(i) \in Plan
<1>1. EstimatedRisk(i) \in 0..3
  BY DEF EstimatedRisk
<1> QED
  BY <1>1 DEF PlanFor, Plan

\* The orchestrator's path is one of states.
LEMMA PlannedType ==
    ASSUME NEW i \in Intent
    PROVE  Planned(i) \in Seq(States) /\ Planned(i) # <<>>
<1>1. CASE NeedsAnalysis(i)
  BY <1>1 DEF Planned, States
<1>2. CASE ~ NeedsAnalysis(i)
  BY <1>2 DEF Planned, States
<1> QED
  BY <1>1, <1>2

\* No step leaves the types.
LEMMA TypeStep == TypeOK /\ [Next]_vars => TypeOK'
<1> SUFFICES ASSUME TypeOK, [Next]_vars PROVE TypeOK'
  OBVIOUS
<1>g. Grows
  BY Growth
<1> USE DEF tables, gate, disk
<1>1. ASSUME NEW form \in Form \cup {PlanFor(i) : i \in Intent}, CreatePlan(form) PROVE TypeOK'
  <2>1. form \in Plan
    BY GovernanceAssumption, PlanForType
  <2>2. plans' \in Seq(Plan)
    BY <1>1, <2>1 DEF CreatePlan, TypeOK
  <2> QED
    BY <1>1, <1>g, <2>2 DEF CreatePlan, TypeOK, Grows, Rows
<1>2. ASSUME NEW i \in Intent, PlanFromIntent(i) PROVE TypeOK'
  <2>1. context' \in Context /\ context'.states # <<>>
    BY <1>2, PlannedType DEF PlanFromIntent, Context
  <2> QED
    BY <1>2, <2>1 DEF PlanFromIntent, TypeOK, Rows
<1>3. ASSUME NEW p \in Rows(plans), NEW changes \in Changes \cup {Placeholder}, CreateChangeset(p, changes)
      PROVE TypeOK'
  <2> DEFINE row == [plan |-> p, changes |-> changes]
  <2>1. row \in ChangeSet
    BY DEF ChangeSet, Rows
  <2>2. /\ csets' \in Seq(ChangeSet) /\ csets'[Len(csets) + 1] = row
        /\ \A c \in Rows(csets') : c \in Rows(csets) \/ c = Len(csets) + 1
    BY <1>3, <2>1 DEF CreateChangeset, TypeOK, Rows
  <2>3. \A c \in Rows(csets') : csets'[c].plan \in Rows(plans')
    <3> TAKE c \in Rows(csets')
    <3>1. CASE c \in Rows(csets)
      BY <1>3, <3>1, <1>g DEF CreateChangeset, TypeOK, Grows
    <3>2. CASE c = Len(csets) + 1
      BY <1>3, <3>2, <2>2 DEF CreateChangeset
    <3> QED
      BY <2>2, <3>1, <3>2
  <2> QED
    BY <1>3, <1>g, <2>2, <2>3 DEF CreateChangeset, TypeOK, Grows, Rows
<1>4. ASSUME NEW c \in Rows(csets), EvaluateChangeset(c) PROVE TypeOK'
  <2> DEFINE row == DecisionOn(c, snapshot)
  <2>1. row \in Decision /\ row.cset = c /\ row.plan = csets[c].plan
    BY DecisionType
  <2> HIDE DEF row
  <2>2. /\ decisions' \in Seq(Decision) /\ decisions'[Len(decisions) + 1] = row
        /\ \A d \in Rows(decisions') : d \in Rows(decisions) \/ d = Len(decisions) + 1
    BY <1>4, <2>1 DEF EvaluateChangeset, TypeOK, Rows, row
  <2>3. \A d \in Rows(decisions') :
          decisions'[d].cset \in Rows(csets') /\ decisions'[d].plan = csets'[decisions'[d].cset].plan
    <3> TAKE d \in Rows(decisions')
    <3>1. CASE d \in Rows(decisions)
      BY <1>4, <3>1, <1>g DEF EvaluateChangeset, TypeOK, Grows
    <3>2. CASE d = Len(decisions) + 1
      BY <1>4, <3>2, <2>1, <2>2 DEF EvaluateChangeset
    <3> QED
      BY <2>2, <3>1, <3>2
  <2> QED
    BY <1>4, <1>g, <2>2, <2>3 DEF EvaluateChangeset, TypeOK, Grows, Rows
<1>5. ASSUME NEW p \in Rows(plans), NEW d \in Rows(decisions), ApprovePlan(p, d) PROVE TypeOK'
  <2> DEFINE row == [plan |-> p, decision |-> d]
  <2>1. row \in Approval /\ row.decision = d /\ row.plan = decisions[d].plan
    BY <1>5 DEF ApprovePlan, Approval, Rows
  <2> HIDE DEF row
  <2>2. /\ approvals' \in Seq(Approval) /\ approvals'[Len(approvals) + 1] = row
        /\ \A a \in Rows(approvals') : a \in Rows(approvals) \/ a = Len(approvals) + 1
    BY <1>5, <2>1 DEF ApprovePlan, TypeOK, Rows, row
  <2>3. \A a \in Rows(approvals') :
          /\ approvals'[a].decision \in Rows(decisions')
          /\ approvals'[a].plan = decisions'[approvals'[a].decision].plan
    <3> TAKE a \in Rows(approvals')
    <3>1. CASE a \in Rows(approvals)
      BY <1>5, <3>1, <1>g DEF ApprovePlan, TypeOK, Grows
    <3>2. CASE a = Len(approvals) + 1
      BY <1>5, <3>2, <2>1, <2>2 DEF ApprovePlan
    <3> QED
      BY <2>2, <3>1, <3>2
  <2> QED
    BY <1>5, <1>g, <2>2, <2>3 DEF ApprovePlan, TypeOK, Grows, Rows
<1>6. CASE EditPolicies
  <2>1. file' \in Policy /\ edits' \in Nat
    BY <1>6 DEF EditPolicies, TypeOK
  <2>2. UNCHANGED <<policies, snapshot, late, plans, csets, decisions, approvals, context>>
    BY <1>6 DEF EditPolicies
  <2> QED
    BY <2>1, <2>2 DEF TypeOK, Rows
<1>7. CASE Restart
  BY <1>7 DEF Restart, TypeOK, Rows
<1>8. ASSUME NEW to \in States, Transition(to) PROVE TypeOK'
  <2>1. context \in Context /\ context.states # <<>>
    BY <1>8 DEF Transition, TypeOK
  <2>2. context' \in Context /\ context'.states # <<>>
    <3>1. Append(context.states, to) \in Seq(States) /\ Append(context.states, to) # <<>>
      BY <2>1 DEF Context
    <3> DEFINE longer == Append(context.states, to)
    <3>2. context' = [context EXCEPT !.states = longer]
      BY <1>8 DEF Transition
    <3> HIDE DEF longer
    <3> QED
      BY <2>1, <3>1, <3>2 DEF Context, longer
  <2> QED
    BY <1>8, <2>1, <2>2 DEF Transition, TypeOK, Rows
<1>9. CASE UNCHANGED vars
  BY <1>9 DEF vars, TypeOK, Rows
<1> QED
  BY <1>1, <1>2, <1>3, <1>4, <1>5, <1>6, <1>7, <1>8, <1>9 DEF Next

\* What a decision points at is there, and stays as it is.
LEMMA RowsStay ==
    ASSUME TypeOK, Grows, NEW d \in Rows(decisions)
    PROVE  /\ decisions'[d] = decisions[d]
           /\ decisions[d].plan \in Rows(plans) /\ decisions[d].cset \in Rows(csets)
           /\ plans'[decisions[d].plan] = plans[decisions[d].plan]
           /\ csets'[decisions[d].cset] = csets[decisions[d].cset]
BY DEF TypeOK, Grows

\* A decision is on a plan and a changeset of the right types.
LEMMA RowTypes ==
    ASSUME TypeOK, NEW d \in Rows(decisions)
    PROVE  /\ plans[decisions[d].plan] \in Plan
           /\ csets[decisions[d].cset].changes \in Changes \cup {Placeholder}
<1>1. decisions[d].cset \in Rows(csets) /\ decisions[d].plan \in Rows(plans)
  BY DEF TypeOK
<1>2. csets[decisions[d].cset] \in ChangeSet
  BY <1>1 DEF TypeOK, Rows
<1> QED
  BY <1>1, <1>2 DEF TypeOK, ChangeSet, Rows

\* Old decisions stay judged, and a new one is judged by the policies in use.
LEMMA JudgedStep == IInv /\ [Next]_vars => Judged'
<1> SUFFICES ASSUME IInv, [Next]_vars PROVE Judged'
  OBVIOUS
<1>g. TypeOK /\ Grows
  BY Growth DEF IInv
<1> DEFINE JudgedBy(row, plan, cset, policy) ==
             /\ row.verdict = Evaluate(plan, cset.changes, policy).verdict
             /\ row.risk = Evaluate(plan, cset.changes, policy).risk
             /\ ~ row.late => policy = row.policy
<1>0. Judged <=> \A d \in Rows(decisions) : \E policy \in Policy :
                   JudgedBy(decisions[d], plans[decisions[d].plan], csets[decisions[d].cset], policy)
  BY DEF Judged
<1>0a. Judged' <=> \A d \in Rows(decisions') : \E policy \in Policy :
                   JudgedBy(decisions'[d], plans'[decisions'[d].plan], csets'[decisions'[d].cset], policy)
  BY DEF Judged
<1>1. ASSUME NEW d \in Rows(decisions)
      PROVE \E policy \in Policy :
              JudgedBy(decisions'[d], plans'[decisions'[d].plan], csets'[decisions'[d].cset], policy)
  <2> HIDE DEF JudgedBy
  <2> QED
    BY <1>0, <1>1, <1>g, RowsStay DEF IInv
<1>2. ASSUME NEW c \in Rows(csets), EvaluateChangeset(c) PROVE Judged'
  <2> DEFINE row == DecisionOn(c, snapshot)
  <2>1. row \in Decision /\ row.cset = c /\ row.plan = csets[c].plan
    BY DecisionType, <1>g
  <2>2. /\ decisions'[Len(decisions) + 1] = row /\ UNCHANGED <<plans, csets>>
        /\ \A d \in Rows(decisions') : d \in Rows(decisions) \/ d = Len(decisions) + 1
    <3> HIDE DEF row
    <3> QED
      BY <1>2, <1>g, <2>1 DEF EvaluateChangeset, TypeOK, Rows, row
  <2>3. policies \in Policy /\ (~ late => policies = snapshot)
    BY <1>g DEF TypeOK, IInv, Agreement
  <2>4. JudgedBy(row, plans[row.plan], csets[row.cset], policies)
    BY <2>1, <2>3 DEF DecisionOn
  <2> HIDE DEF row, JudgedBy
  <2> QED
    BY <1>0a, <1>1, <2>2, <2>3, <2>4
<1>3. CASE UNCHANGED decisions
  <2>1. Rows(decisions') = Rows(decisions)
    BY <1>3
  <2> HIDE DEF JudgedBy
  <2> QED
    BY <1>0a, <1>1, <2>1
<1> QED
  BY <1>2, <1>3 DEF Next, CreatePlan, PlanFromIntent, CreateChangeset, ApprovePlan, EditPolicies,
     Restart, Transition, vars, tables

\* The hash follows the policies.
LEMMA AgreementStep == Agreement /\ [Next]_vars => Agreement'
BY DEF Agreement, Next, CreatePlan, PlanFromIntent, CreateChangeset, EvaluateChangeset, ApprovePlan,
   EditPolicies, Restart, Transition, vars, gate

-----------------------------------------------------------------------------
(* The theorems.                                                           *)

LEMMA Initially == Init => IInv
<1> SUFFICES ASSUME Init PROVE IInv
  OBVIOUS
<1>1. Rows(csets) = {} /\ Rows(decisions) = {} /\ Rows(approvals) = {}
  BY DEF Init, Rows
<1>2. TypeOK
  <2>1. plans \in Seq(Plan) /\ csets \in Seq(ChangeSet) /\ decisions \in Seq(Decision) /\ approvals \in Seq(Approval)
    BY DEF Init
  <2>2. {policies, snapshot} \subseteq Policy /\ file \in Policy /\ late \in BOOLEAN
    BY DEF Init
  <2> QED
    BY <1>1, <2>1, <2>2 DEF Init, TypeOK
<1> QED
  BY <1>1, <1>2 DEF Init, IInv, Judged, Agreement

THEOREM Invariance == Spec => []IInv
<1>1. IInv /\ [Next]_vars => IInv'
  BY TypeStep, JudgedStep, AgreementStep DEF IInv
<1> QED
  BY Initially, <1>1, PTL DEF Spec

\* Rows have their types and point at rows that are there (the API checks before it saves).
THEOREM Typed == Spec => []TypeOK
BY Invariance, PTL DEF IInv

\* No row of any table is ever changed or removed (storage.py only inserts).
THEOREM TablesGrow == Spec => AppendOnly
<1>1. TypeOK /\ [Next]_vars =>
        [/\ \A r \in Rows(plans) : plans'[r] = plans[r]
         /\ \A c \in Rows(csets) : csets'[c] = csets[c]
         /\ \A d \in Rows(decisions) : decisions'[d] = decisions[d]
         /\ \A a \in Rows(approvals) : approvals'[a] = approvals[a]]_tables
  BY Growth DEF Grows
<1> QED
  BY <1>1, Typed, PTL DEF Spec, AppendOnly

\* Every decision can be replayed by the policies its hash names (evaluate, _create_decision).
THEOREM Replay == Spec => []DecisionsReplay
<1>1. IInv => DecisionsReplay
  BY DEF IInv, Judged, DecisionsReplay
<1> QED
  BY <1>1, Invariance, PTL

\* For all plans, changesets and policies: more changes are never judged more mildly.
THEOREM NeverMilder == Spec => []MoreIsNeverMilder
<1>1. IInv => MoreIsNeverMilder
  <2> SUFFICES ASSUME IInv, NEW d \in Rows(decisions), NEW e \in Rows(decisions),
                      decisions[d].plan = decisions[e].plan, decisions[d].policy = decisions[e].policy,
                      ~ decisions[d].late, ~ decisions[e].late,
                      csets[decisions[d].cset].changes \subseteq csets[decisions[e].cset].changes
               PROVE  /\ Severity(decisions[d].verdict) <= Severity(decisions[e].verdict)
                      /\ decisions[d].risk <= decisions[e].risk
    BY DEF MoreIsNeverMilder
  <2> DEFINE plan == plans[decisions[d].plan]
             c == csets[decisions[d].cset].changes
             f == csets[decisions[e].cset].changes
             policy == decisions[d].policy
  <2>1. plan \in Plan /\ c \in Changes \cup {Placeholder} /\ f \in Changes \cup {Placeholder}
    BY RowTypes DEF IInv
  <2>2. decisions[d].verdict = Evaluate(plan, c, policy).verdict /\ decisions[d].risk = Evaluate(plan, c, policy).risk
    BY DEF IInv, Judged
  <2>3. decisions[e].verdict = Evaluate(plan, f, policy).verdict /\ decisions[e].risk = Evaluate(plan, f, policy).risk
    BY DEF IInv, Judged
  <2> HIDE DEF plan, policy
  <2> QED
    BY <2>1, <2>2, <2>3, EvaluateMonotone
<1> QED
  BY <1>1, Invariance, PTL

\* No plan the planner makes about governance or the database is allowed without a human.
THEOREM Sensitive == Spec => []SensitiveNeedsApproval
<1>1. IInv => SensitiveNeedsApproval
  <2> SUFFICES ASSUME IInv, NEW i \in Intent, i.components \cap {"governance", "database"} # {},
                      NEW d \in Rows(decisions), plans[decisions[d].plan] = PlanFor(i),
                      decisions[d].verdict = "allow"
               PROVE  FALSE
    BY DEF SensitiveNeedsApproval
  <2>1. PlanFor(i).risk = 2 /\ PlanFor(i) \in Plan
    BY PlanForType DEF PlanFor, EstimatedRisk
  <2>2. \E policy \in Policy :
          Evaluate(PlanFor(i), csets[decisions[d].cset].changes, policy).verdict = "allow"
    BY DEF IInv, Judged
  <2> QED
    BY <2>1, <2>2, AllowedIsHarmless
<1> QED
  BY <1>1, Invariance, PTL

\* The tables keep their types, and what is sensitive is left to a human, for every request,
\* changeset and policy.
THEOREM SensitiveGated == Spec => []GateIsKept
<1>1. TypeOK /\ SensitiveNeedsApproval <=> GateIsKept
  BY DEF GateIsKept
<1> QED
  BY <1>1, Typed, Sensitive, PTL

-----------------------------------------------------------------------------
(* The planner.                                                            *)

\* The tools the decomposer names for the analysis of a request are allowed in that state
\* (decomposer.py:320-343 and state_machine.py:132-168 agree).
THEOREM ToolsInside ==
    ASSUME NEW i \in Intent
    PROVE  AnalysisTools(i) \subseteq AllowedTools("analysis")
<1> DEFINE five == {"read_code", "search_pattern", "trace_flow", "check_tests", "review_docs"}
<1>1. Requirements(i) \subseteq five
  <2>1. \/ Requirements(i) = {"read_code", "trace_flow", "check_tests"}
        \/ Requirements(i) = {"read_code", "review_docs"}
        \/ Requirements(i) = {"read_code", "check_tests"}
        \/ Requirements(i) = {"read_code", "search_pattern", "trace_flow"}
        \/ Requirements(i) = {"read_code", "trace_flow"}
        \/ Requirements(i) = {}
    BY Zenon DEF Requirements
  <2> QED
    BY <2>1
<1>2. /\ ToolsFor("read_code") = {"read_file", "list_directory"}
      /\ ToolsFor("search_pattern") = {"grep", "glob"}
      /\ ToolsFor("trace_flow") = {"read_file", "grep"}
      /\ ToolsFor("check_tests") = {"glob", "read_file"}
      /\ ToolsFor("review_docs") = {"read_file"}
  BY DEF ToolsFor
<1>3. AllowedTools("analysis") = {"read_file", "list_directory", "grep", "glob", "web.search", "web.fetch",
                                  "memory.list_facts", "memory.query"}
  BY DEF AllowedTools
<1>4. \A r \in five : ToolsFor(r) \subseteq AllowedTools("analysis")
  BY <1>2, <1>3
<1> HIDE DEF five
<1> QED
  BY <1>1, <1>4 DEF AnalysisTools

\* Planning uses tools that plan_generation allows (decomposer.py:345-349).
THEOREM PlanningInside == PlanningTools \subseteq AllowedTools("plan_generation")
<1>1. AllowedTools("plan_generation") = {"read_file", "list_directory", "grep", "glob", "generate_diff",
                                         "compute_checksum"}
  BY DEF AllowedTools
<1> QED
  BY <1>1 DEF PlanningTools
=============================================================================
