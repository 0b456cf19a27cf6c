--------------------------- MODULE AssertCli_proofs ---------------------------
(***************************************************************************)
(* Proofs about Subset and AssertCli: IsSubset compares what two values    *)
(* say, for values of any form, and with that the verdicts of both         *)
(* commands, for any declarations, clusters and timeouts.                  *)
(***************************************************************************)
EXTENDS AssertCli, FiniteSetTheorems, WellFoundedInduction, TLAPS

-----------------------------------------------------------------------------
(* Induction over the depth of values.                                     *)

LEMMA SmallestNumber ==
    ASSUME NEW S, S \subseteq Nat, S # {}
    PROVE  \E m \in S : \A n \in S : m <= n
<1>1. PICK n \in S : TRUE
  OBVIOUS
<1> DEFINE I == 0..n
           B == {0..m : m \in {k \in S : k <= n}}
<1>2. IsWellFoundedOn(StrictSubsetOrdering(I), SUBSET I)
  <2>1. IsFiniteSet(I)
    BY FS_Interval
  <2> HIDE DEF I
  <2> QED BY <2>1, FS_StrictSubsetOrderingWellFounded, FS_FiniteSubsetsOfFinite
<1>3. B \subseteq SUBSET I /\ B # {}
  OBVIOUS
<1>4. PICK U \in B : \A V \in B : ~ (<<V, U>> \in StrictSubsetOrdering(I))
  <2> HIDE DEF I, B
  <2> QED BY <1>2, <1>3, WFMin
<1>5. PICK m \in S : m <= n /\ U = 0..m
  OBVIOUS
<1>6. ASSUME NEW k \in S, k < m PROVE FALSE
  <2>1. 0..k \in B /\ 0..k \subseteq U /\ 0..k # U /\ 0..k \in SUBSET I /\ U \in SUBSET I
    <3>1. k \in 0..n /\ m \in Nat /\ n \in Nat /\ k \in Nat
      BY <1>5, <1>6
    <3>2. m \in U /\ m \notin 0..k
      BY <1>5, <1>6, <3>1
    <3>3. 0..k \in B
      BY <3>1
    <3> QED BY <1>3, <1>5, <1>6, <3>1, <3>2, <3>3
  <2> HIDE DEF B, I
  <2> QED BY <1>4, <2>1 DEF StrictSubsetOrdering
<1> QED BY <1>6

\* A nonempty set of values has one that is nested least.
LEMMA SmallestValue ==
    ASSUME NEW S, S \subseteq Values, S # {}
    PROVE  \E v \in S : \A w \in S : Depth[v] <= Depth[w]
<1> DEFINE D == {Depth[v] : v \in S}
<1>1. D \subseteq Nat /\ D # {}
  BY SubsetAssumption
<1>2. PICK m \in D : \A n \in D : m <= n
  <2> HIDE DEF D
  <2> QED BY <1>1, SmallestNumber
<1> QED BY <1>2

LEMMA PartsAreSmaller ==
    ASSUME NEW v \in Values
    PROVE  /\ Depth[v] \in Nat
           /\ \A p \in Parts(v) : p \in Values /\ Depth[p] \in Nat /\ Depth[p] < Depth[v]
           /\ v.type = "map" => \A k \in DOMAIN v.at : v.at[k] \in Parts(v)
           /\ v.type = "slice" => /\ v.elems \in Seq(Values)
                                  /\ \A i \in DOMAIN v.elems : v.elems[i] \in Parts(v)
<1>1. Depth \in [Values -> Nat]
  BY SubsetAssumption
<1>2. \A p \in Parts(v) : p \in Values /\ Depth[p] < Depth[v]
  BY SubsetAssumption
<1>3. v.type = "slice" => v.elems \in Seq(Values)
  BY SubsetAssumption
<1>4. v.type = "map" => \A k \in DOMAIN v.at : v.at[k] \in Parts(v)
  BY DEF Parts
<1>5. v.type = "slice" => \A i \in DOMAIN v.elems : v.elems[i] \in Parts(v)
  BY DEF Parts
<1> QED BY <1>1, <1>2, <1>3, <1>4, <1>5

-----------------------------------------------------------------------------
(* The recursive definitions of Subset have solutions: both are rules that *)
(* give the value of a function from its values for the parts.             *)

IsSubsetOf(h, e, a) ==
    /\ e.type = a.type
    /\ \/ e = a
       \/ /\ e.type = "slice"
          /\ SameLength(e, a)
          /\ \A i \in DOMAIN e.elems : h[e.elems[i]][a.elems[i]]
       \/ /\ e.type = "map"
          /\ DOMAIN e.at \subseteq DOMAIN a.at
          /\ \A k \in DOMAIN e.at : h[e.at[k]][a.at[k]]

FactsOf(h, v) ==
    CASE v.type = "map" ->
           {Here([type |-> "map"])}
           \cup UNION {Under([key |-> k], h[v.at[k]]) : k \in DOMAIN v.at}
      [] v.type = "slice" ->
           {Here([type |-> "slice", len |-> Len(v.elems)])}
           \cup UNION {Under([elem |-> i], h[v.elems[i]]) : i \in DOMAIN v.elems}
      [] OTHER -> {Here(v)}

Rule(subset, h, v) == IF subset THEN [a \in Values |-> IsSubsetOf(h, v, a)] ELSE FactsOf(h, v)

Below(n) == {v \in Values : Depth[v] < n}
Solves(subset, h, S) == h = [v \in S |-> Rule(subset, h, v)]

LEMMA RuleOfParts ==
    ASSUME NEW subset \in BOOLEAN, NEW g, NEW h, NEW v \in Values,
           \A p \in Parts(v) : g[p] = h[p]
    PROVE  Rule(subset, g, v) = Rule(subset, h, v)
<1>1. v.type = "map" => \A k \in DOMAIN v.at : g[v.at[k]] = h[v.at[k]]
  BY PartsAreSmaller
<1>2. v.type = "slice" => \A i \in DOMAIN v.elems : g[v.elems[i]] = h[v.elems[i]]
  BY PartsAreSmaller
<1>3. \A a \in Values : IsSubsetOf(g, v, a) = IsSubsetOf(h, v, a)
  <2> SUFFICES ASSUME NEW a \in Values PROVE IsSubsetOf(g, v, a) = IsSubsetOf(h, v, a)
    OBVIOUS
  <2>1. IsSubsetOf(g, v, a) <=> IsSubsetOf(h, v, a)
    BY <1>1, <1>2 DEF IsSubsetOf
  <2>2. IsSubsetOf(g, v, a) \in BOOLEAN /\ IsSubsetOf(h, v, a) \in BOOLEAN
    BY DEF IsSubsetOf
  <2> QED BY <2>1, <2>2
<1>4. [a \in Values |-> IsSubsetOf(g, v, a)] = [a \in Values |-> IsSubsetOf(h, v, a)]
  BY <1>3
<1>5. FactsOf(g, v) = FactsOf(h, v)
  <2>1. CASE v.type = "map"
    BY <1>1, <2>1 DEF FactsOf
  <2>2. CASE v.type = "slice"
    <3>1. UNION {Under([elem |-> i], g[v.elems[i]]) : i \in DOMAIN v.elems}
            = UNION {Under([elem |-> i], h[v.elems[i]]) : i \in DOMAIN v.elems}
      BY <1>2, <2>2
    <3> QED BY <2>2, <3>1 DEF FactsOf
  <2>3. CASE v.type \notin {"map", "slice"}
    BY <2>3 DEF FactsOf
  <2> QED BY <2>1, <2>2, <2>3
<1> QED BY <1>4, <1>5 DEF Rule

LEMMA SolutionAt ==
    ASSUME NEW subset, NEW h, NEW S, Solves(subset, h, S), NEW v \in S
    PROVE  h[v] = Rule(subset, h, v)
BY DEF Solves

LEMMA SolutionsAgree ==
    ASSUME NEW subset \in BOOLEAN, NEW g, NEW h, NEW m \in Nat, NEW n \in Nat,
           Solves(subset, g, Below(m)), Solves(subset, h, Below(n))
    PROVE  \A v \in Below(m) \cap Below(n) : g[v] = h[v]
<1> DEFINE Bad == {v \in Below(m) \cap Below(n) : g[v] # h[v]}
<1> SUFFICES ASSUME Bad # {} PROVE FALSE
  OBVIOUS
<1>1. Bad \subseteq Values
  BY DEF Below
<1>2. PICK v \in Bad : \A w \in Bad : Depth[v] <= Depth[w]
  <2> HIDE DEF Bad
  <2> QED BY <1>1, SmallestValue
<1>3. v \in Values /\ v \in Below(m) /\ v \in Below(n) /\ g[v] # h[v]
  BY <1>1
<1>4. \A p \in Parts(v) : g[p] = h[p]
  <2> SUFFICES ASSUME NEW p \in Parts(v) PROVE g[p] = h[p]
    OBVIOUS
  <2>1. p \in Values /\ Depth[p] \in Nat /\ Depth[p] < Depth[v] /\ Depth[v] \in Nat
    BY <1>3, PartsAreSmaller
  <2>2. p \in Below(m) \cap Below(n)
    BY <1>3, <2>1 DEF Below
  <2>3. p \notin Bad
    BY <1>2, <2>1
  <2> QED BY <2>2, <2>3
<1>5. g[v] = Rule(subset, g, v) /\ h[v] = Rule(subset, h, v)
  BY <1>3, SolutionAt
<1> QED BY <1>3, <1>4, <1>5, RuleOfParts

LEMMA SolutionsBelow ==
    ASSUME NEW subset \in BOOLEAN
    PROVE  \A n \in Nat : \E h : Solves(subset, h, Below(n))
<1> DEFINE Bad == {n \in Nat : ~ \E h : Solves(subset, h, Below(n))}
<1> SUFFICES ASSUME Bad # {} PROVE FALSE
  OBVIOUS
<1>1. PICK n \in Bad : \A m \in Bad : n <= m
  <2>1. Bad \subseteq Nat
    OBVIOUS
  <2> HIDE DEF Bad
  <2> QED BY <2>1, SmallestNumber
<1>2. CASE n = 0
  <2>1. Below(0) = {}
    <3>1. \A v \in Values : Depth[v] \in Nat
      BY SubsetAssumption
    <3>2. \A d \in Nat : ~ (d < 0)
      OBVIOUS
    <3> QED BY <3>1, <3>2, Zenon DEF Below
  <2>2. Solves(subset, [v \in {} |-> {}], {})
    BY DEF Solves
  <2> QED BY <1>2, <2>1, <2>2
<1>3. CASE n # 0
  <2>1. n \in Nat /\ n - 1 \in Nat /\ n - 1 \notin Bad
    BY <1>1, <1>3
  <2>2. PICK h : Solves(subset, h, Below(n - 1))
    BY <2>1
  <2> DEFINE g == [v \in Below(n) |-> Rule(subset, h, v)]
  <2>3. ASSUME NEW v \in Below(n) PROVE g[v] = Rule(subset, g, v)
    <3>1. v \in Values /\ Depth[v] < n
      BY DEF Below
    <3>2. ASSUME NEW p \in Parts(v) PROVE h[p] = g[p]
      <4>1. p \in Values /\ Depth[p] \in Nat /\ Depth[p] < Depth[v] /\ Depth[v] \in Nat
        BY <3>1, PartsAreSmaller
      <4>2. p \in Below(n - 1) /\ p \in Below(n)
        <5>1. Depth[p] < n - 1 /\ Depth[p] < n
          BY <2>1, <3>1, <4>1
        <5> QED BY <4>1, <5>1 DEF Below
      <4>3. h[p] = Rule(subset, h, p)
        BY <2>2, <4>2, SolutionAt
      <4> QED BY <4>2, <4>3
    <3>3. g[v] = Rule(subset, h, v)
      <4> HIDE DEF Below
      <4> QED OBVIOUS
    <3> HIDE DEF g
    <3> QED BY <3>1, <3>2, <3>3, RuleOfParts
  <2>4. Solves(subset, g, Below(n))
    <3> DEFINE r == [v \in Below(n) |-> Rule(subset, g, v)]
    <3>1. g = [v \in Below(n) |-> g[v]]
      OBVIOUS
    <3> HIDE DEF g
    <3> QED BY <2>3, <3>1 DEF Solves
  <2> QED BY <1>1, <2>4
<1> QED BY <1>2, <1>3

LEMMA SolutionExists ==
    ASSUME NEW subset \in BOOLEAN
    PROVE  \E h : Solves(subset, h, Values)
<1> DEFINE H == [n \in Nat |-> CHOOSE h : Solves(subset, h, Below(n))]
           f == [v \in Values |-> H[Depth[v] + 1][v]]
<1>1. \A n \in Nat : Solves(subset, H[n], Below(n))
  BY SolutionsBelow
<1> HIDE DEF H
<1>2. ASSUME NEW v \in Values PROVE f[v] = Rule(subset, f, v)
  <2>1. Depth[v] + 1 \in Nat /\ v \in Below(Depth[v] + 1)
    BY PartsAreSmaller DEF Below
  <2>2. ASSUME NEW p \in Parts(v) PROVE H[Depth[v] + 1][p] = f[p]
    <3>1. p \in Values /\ Depth[p] \in Nat /\ Depth[p] < Depth[v] /\ Depth[v] \in Nat
      BY PartsAreSmaller
    <3>2. p \in Below(Depth[v] + 1) /\ p \in Below(Depth[p] + 1) /\ Depth[p] + 1 \in Nat
      BY <3>1 DEF Below
    <3>3. H[Depth[v] + 1][p] = H[Depth[p] + 1][p]
      BY <1>1, <2>1, <3>2, SolutionsAgree
    <3> QED BY <3>1, <3>3
  <2>3. H[Depth[v] + 1][v] = Rule(subset, H[Depth[v] + 1], v)
    BY <1>1, <2>1, SolutionAt
  <2>4. f[v] = H[Depth[v] + 1][v]
    OBVIOUS
  <2> HIDE DEF f
  <2> QED BY <2>2, <2>3, <2>4, RuleOfParts
<1>3. f = [v \in Values |-> f[v]]
  OBVIOUS
<1> HIDE DEF f
<1>4. Solves(subset, f, Values)
  BY <1>2, <1>3 DEF Solves
<1> QED BY <1>4

\* What IsSubset and Facts are, one level at a time.
LEMMA IsSubsetIs ==
    ASSUME NEW e \in Values, NEW a \in Values
    PROVE  IsSubset[e][a] <=> IsSubsetOf(IsSubset, e, a)
<1>1. IsSubset = CHOOSE h : h = [v \in Values |-> [b \in Values |-> IsSubsetOf(h, v, b)]]
  BY DEF IsSubset, IsSubsetOf
<1>2. \E h : h = [v \in Values |-> [b \in Values |-> IsSubsetOf(h, v, b)]]
  BY SolutionExists DEF Solves, Rule
<1>3. IsSubset = [v \in Values |-> [b \in Values |-> IsSubsetOf(IsSubset, v, b)]]
  BY <1>1, <1>2
<1> QED BY <1>3

LEMMA FactsIs ==
    ASSUME NEW v \in Values
    PROVE  Facts[v] = FactsOf(Facts, v)
<1>1. Facts = CHOOSE h : h = [w \in Values |-> FactsOf(h, w)]
  BY DEF Facts, FactsOf
<1>2. \E h : h = [w \in Values |-> FactsOf(h, w)]
  BY SolutionExists DEF Solves, Rule
<1>3. Facts = [w \in Values |-> FactsOf(Facts, w)]
  BY <1>1, <1>2
<1> QED BY <1>3

-----------------------------------------------------------------------------
(* IsSubset compares what two values say.                                  *)

\* The form of a value: what it is itself, and what is at a step down.
LEMMA FactsHere ==
    ASSUME NEW v \in Values, NEW what
    PROVE  Here(what) \in Facts[v] <=>
              what = (IF v.type = "map" THEN [type |-> "map"]
                      ELSE IF v.type = "slice" THEN [type |-> "slice", len |-> Len(v.elems)]
                      ELSE v)
<1>1. Facts[v] = FactsOf(Facts, v)
  BY FactsIs
<1>2. \A w : Here(what) = Here(w) <=> what = w
  BY DEF Here
<1>3. \A step, facts : Here(what) \notin Under(step, facts)
  BY DEF Here, Under
<1>4. CASE v.type = "map"
  <2> DEFINE U == UNION {Under([key |-> k], Facts[v.at[k]]) : k \in DOMAIN v.at}
  <2>1. Here(what) \notin U
    BY <1>3
  <2>2. Facts[v] = {Here([type |-> "map"])} \cup U
    BY <1>1, <1>4 DEF FactsOf
  <2> HIDE DEF U
  <2> QED BY <1>2, <1>4, <2>1, <2>2
<1>5. CASE v.type = "slice"
  <2> DEFINE U == UNION {Under([elem |-> i], Facts[v.elems[i]]) : i \in DOMAIN v.elems}
  <2>1. Here(what) \notin U
    BY <1>3
  <2>2. Facts[v] = {Here([type |-> "slice", len |-> Len(v.elems)])} \cup U
    BY <1>1, <1>5 DEF FactsOf
  <2> HIDE DEF U
  <2> QED BY <1>2, <1>5, <2>1, <2>2
<1>6. CASE v.type \notin {"map", "slice"}
  BY <1>1, <1>2, <1>6 DEF FactsOf
<1> QED BY <1>4, <1>5, <1>6

LEMMA FactsOfMap ==
    ASSUME NEW v \in Values, v.type = "map", NEW step, NEW f
    PROVE  <<step, f>> \in Facts[v] <=>
              \E k \in DOMAIN v.at : step = [key |-> k] /\ f \in Facts[v.at[k]]
<1>1. Facts[v] = FactsOf(Facts, v)
  BY FactsIs
<1>2. \A what : <<step, f>> # Here(what)
  BY DEF Here
<1>3. \A s, facts : <<step, f>> \in Under(s, facts) <=> step = s /\ f \in facts
  BY DEF Under
<1> DEFINE U == UNION {Under([key |-> k], Facts[v.at[k]]) : k \in DOMAIN v.at}
<1>4. Facts[v] = {Here([type |-> "map"])} \cup U
  BY <1>1 DEF FactsOf
<1>5. <<step, f>> \in U <=>
         \E k \in DOMAIN v.at : <<step, f>> \in Under([key |-> k], Facts[v.at[k]])
  OBVIOUS
<1> HIDE DEF U
<1> QED BY <1>2, <1>3, <1>4, <1>5

LEMMA FactsOfSlice ==
    ASSUME NEW v \in Values, v.type = "slice", NEW step, NEW f
    PROVE  <<step, f>> \in Facts[v] <=>
              \E i \in DOMAIN v.elems : step = [elem |-> i] /\ f \in Facts[v.elems[i]]
<1>1. Facts[v] = FactsOf(Facts, v)
  BY FactsIs
<1>2. \A what : <<step, f>> # Here(what)
  BY DEF Here
<1>3. \A s, facts : <<step, f>> \in Under(s, facts) <=> step = s /\ f \in facts
  BY DEF Under
<1> DEFINE U == UNION {Under([elem |-> i], Facts[v.elems[i]]) : i \in DOMAIN v.elems}
<1>4. Facts[v] = {Here([type |-> "slice", len |-> Len(v.elems)])} \cup U
  BY <1>1 DEF FactsOf
<1>5. <<step, f>> \in U <=>
         \E i \in DOMAIN v.elems : <<step, f>> \in Under([elem |-> i], Facts[v.elems[i]])
  OBVIOUS
<1> HIDE DEF U
<1> QED BY <1>2, <1>3, <1>4, <1>5

\* A fact of a scalar is that scalar.
LEMMA FactsOfScalar ==
    ASSUME NEW v \in Values, IsScalar(v)
    PROVE  Facts[v] = {Here(v)}
BY FactsIs DEF FactsOf, IsScalar

\* Every value says what it is itself.
LEMMA FactsNonempty ==
    ASSUME NEW v \in Values
    PROVE  Facts[v] # {}
BY FactsHere

\* If e says no more than a, then a is of the same type, a slice of the same
\* length, or the same scalar.
LEMMA SameForm ==
    ASSUME NEW e \in Values, NEW a \in Values, Facts[e] \subseteq Facts[a]
    PROVE  /\ e.type = a.type
           /\ e.type = "slice" => Len(e.elems) = Len(a.elems)
           /\ IsScalar(e) => e = a
<1> DEFINE Form(v) == IF v.type = "map" THEN [type |-> "map"]
                      ELSE IF v.type = "slice" THEN [type |-> "slice", len |-> Len(v.elems)]
                      ELSE v
<1>1. Here(Form(e)) \in Facts[a]
  BY FactsHere
<1>2. Form(e) = Form(a)
  BY <1>1, FactsHere
<1>3. Form(e).type = e.type /\ Form(a).type = a.type
  OBVIOUS
<1>4. e.type = "slice" => Form(e).len = Len(e.elems)
  OBVIOUS
<1>5. a.type = "slice" => Form(a).len = Len(a.elems)
  OBVIOUS
<1>6. IsScalar(e) => Form(e) = e
  BY DEF IsScalar
<1>7. IsScalar(a) => Form(a) = a
  BY DEF IsScalar
<1> HIDE DEF Form
<1> QED BY <1>2, <1>3, <1>4, <1>5, <1>6, <1>7 DEF IsScalar

\* subset.go: IsSubset(expected, actual) succeeds if and only if everything
\* that the expected value says is said by the actual one.
THEOREM SubsetIsFacts ==
    \A e, a \in Values : IsSubset[e][a] <=> Facts[e] \subseteq Facts[a]
<1> DEFINE Same(e, a) == IsSubset[e][a] <=> Facts[e] \subseteq Facts[a]
           Bad == {e \in Values : \E a \in Values : ~Same(e, a)}
<1> SUFFICES ASSUME Bad # {} PROVE FALSE
  OBVIOUS
<1>1. PICK e \in Bad : \A w \in Bad : Depth[e] <= Depth[w]
  <2>1. Bad \subseteq Values
    OBVIOUS
  <2> HIDE DEF Bad
  <2> QED BY <2>1, SmallestValue
<1>2. PICK a \in Values : ~Same(e, a)
  OBVIOUS
<1>3. e \in Values
  OBVIOUS
<1>4. \A p \in Parts(e) : \A b \in Values : Same(p, b)
  <2> SUFFICES ASSUME NEW p \in Parts(e) PROVE p \in Values /\ p \notin Bad
    OBVIOUS
  <2>1. p \in Values /\ Depth[p] \in Nat /\ Depth[p] < Depth[e] /\ Depth[e] \in Nat
    BY <1>3, PartsAreSmaller
  <2> HIDE DEF Bad
  <2> QED BY <1>1, <2>1
<1> HIDE DEF Bad
<1>5. IsSubset[e][a] <=> IsSubsetOf(IsSubset, e, a)
  BY <1>3, IsSubsetIs
<1>6. ASSUME e.type = "map", a.type = "map"
      PROVE  Same(e, a)
  <2>1. \A k \in DOMAIN e.at : e.at[k] \in Parts(e) /\ e.at[k] \in Values
    BY <1>3, <1>6, PartsAreSmaller
  <2>2. \A k \in DOMAIN a.at : a.at[k] \in Values
    BY <1>6, PartsAreSmaller
  <2>3. ASSUME IsSubset[e][a] PROVE Facts[e] \subseteq Facts[a]
    <3>1. CASE e = a
      BY <3>1
    <3>2. CASE e # a
      <4>1. /\ DOMAIN e.at \subseteq DOMAIN a.at
            /\ \A k \in DOMAIN e.at : IsSubset[e.at[k]][a.at[k]]
        BY <1>5, <1>6, <2>3, <3>2 DEF IsSubsetOf
      <4>2. \A k \in DOMAIN e.at : Facts[e.at[k]] \subseteq Facts[a.at[k]]
        BY <1>4, <2>1, <2>2, <4>1
      <4> DEFINE root == Here([type |-> "map"])
                 E == UNION {Under([key |-> k], Facts[e.at[k]]) : k \in DOMAIN e.at}
                 A == UNION {Under([key |-> k], Facts[a.at[k]]) : k \in DOMAIN a.at}
      <4>3. Facts[e] = {root} \cup E
        BY <1>3, <1>6, FactsIs DEF FactsOf
      <4>4. Facts[a] = {root} \cup A
        BY <1>6, FactsIs DEF FactsOf
      <4>5. \A k \in DOMAIN e.at :
               Under([key |-> k], Facts[e.at[k]]) \subseteq Under([key |-> k], Facts[a.at[k]])
        BY <4>2 DEF Under
      <4>6. E \subseteq A
        BY <4>1, <4>5
      <4> QED BY <4>3, <4>4, <4>6
    <3> QED BY <3>1, <3>2
  <2>4. ASSUME Facts[e] \subseteq Facts[a] PROVE IsSubset[e][a]
    <3>1. ASSUME NEW k \in DOMAIN e.at, NEW f \in Facts[e.at[k]]
          PROVE  k \in DOMAIN a.at /\ f \in Facts[a.at[k]]
      <4>1. <<[key |-> k], f>> \in Facts[a]
        BY <1>3, <1>6, <2>4, FactsOfMap
      <4>2. PICK j \in DOMAIN a.at : [key |-> k] = [key |-> j] /\ f \in Facts[a.at[j]]
        BY <1>6, <4>1, FactsOfMap
      <4>3. [key |-> k].key = [key |-> j].key
        BY <4>2
      <4> QED BY <4>2, <4>3
    <3>2. DOMAIN e.at \subseteq DOMAIN a.at
      BY <2>1, <3>1, FactsNonempty
    <3>3. \A k \in DOMAIN e.at : Facts[e.at[k]] \subseteq Facts[a.at[k]]
      BY <3>1
    <3>4. \A k \in DOMAIN e.at : IsSubset[e.at[k]][a.at[k]]
      BY <1>4, <2>1, <2>2, <3>2, <3>3
    <3> QED BY <1>5, <1>6, <3>2, <3>4 DEF IsSubsetOf
  <2> QED BY <2>3, <2>4
<1>7. ASSUME e.type = "slice", a.type = "slice"
      PROVE  Same(e, a)
  <2>1. e.elems \in Seq(Values) /\ a.elems \in Seq(Values)
    BY <1>3, <1>7, PartsAreSmaller
  <2>2. \A i \in DOMAIN e.elems : e.elems[i] \in Parts(e) /\ e.elems[i] \in Values
    BY <1>3, <1>7, PartsAreSmaller
  <2>3. \A i \in DOMAIN a.elems : a.elems[i] \in Values
    BY <2>1
  <2>4. ASSUME Len(e.elems) = Len(a.elems) PROVE DOMAIN e.elems = DOMAIN a.elems
    BY <2>1, <2>4
  <2>5. ASSUME IsSubset[e][a] PROVE Facts[e] \subseteq Facts[a]
    <3>1. CASE e = a
      BY <3>1
    <3>2. CASE e # a
      <4>1. /\ Len(e.elems) = Len(a.elems)
            /\ \A i \in DOMAIN e.elems : IsSubset[e.elems[i]][a.elems[i]]
        BY <1>5, <1>7, <2>5, <3>2 DEF IsSubsetOf, SameLength
      <4>2. \A i \in DOMAIN e.elems : Facts[e.elems[i]] \subseteq Facts[a.elems[i]]
        BY <1>4, <2>2, <2>3, <2>4, <4>1
      <4> DEFINE root == Here([type |-> "slice", len |-> Len(e.elems)])
                 E == UNION {Under([elem |-> i], Facts[e.elems[i]]) : i \in DOMAIN e.elems}
                 A == UNION {Under([elem |-> i], Facts[a.elems[i]]) : i \in DOMAIN a.elems}
      <4>3. Facts[e] = {root} \cup E
        BY <1>3, <1>7, FactsIs DEF FactsOf
      <4>4. Facts[a] = {root} \cup A
        BY <1>7, <4>1, FactsIs DEF FactsOf
      <4>5. \A i \in DOMAIN e.elems :
               Under([elem |-> i], Facts[e.elems[i]])
                  \subseteq Under([elem |-> i], Facts[a.elems[i]])
        BY <4>2 DEF Under
      <4>6. E \subseteq A
        BY <2>4, <4>1, <4>5
      <4> QED BY <4>3, <4>4, <4>6
    <3> QED BY <3>1, <3>2
  <2>6. ASSUME Facts[e] \subseteq Facts[a] PROVE IsSubset[e][a]
    <3>1. Len(e.elems) = Len(a.elems)
      BY <1>3, <1>7, <2>6, SameForm
    <3>2. ASSUME NEW i \in DOMAIN e.elems, NEW f \in Facts[e.elems[i]]
          PROVE  f \in Facts[a.elems[i]]
      <4>1. <<[elem |-> i], f>> \in Facts[a]
        BY <1>3, <1>7, <2>6, FactsOfSlice
      <4>2. PICK j \in DOMAIN a.elems : [elem |-> i] = [elem |-> j] /\ f \in Facts[a.elems[j]]
        BY <1>7, <4>1, FactsOfSlice
      <4>3. [elem |-> i].elem = [elem |-> j].elem
        BY <4>2
      <4> QED BY <4>2, <4>3
    <3>3. \A i \in DOMAIN e.elems : IsSubset[e.elems[i]][a.elems[i]]
      BY <1>4, <2>2, <2>3, <2>4, <3>1, <3>2
    <3> QED BY <1>5, <1>7, <3>1, <3>3 DEF IsSubsetOf, SameLength
  <2> QED BY <2>5, <2>6
<1>8. ASSUME IsScalar(e) \/ e.type # a.type
      PROVE  Same(e, a)
  <2>1. Facts[e] \subseteq Facts[a] => e.type = a.type /\ (IsScalar(e) => e = a)
    BY <1>3, SameForm
  <2>2. IsSubset[e][a] => e.type = a.type /\ (IsScalar(e) => e = a)
    BY <1>5 DEF IsSubsetOf, IsScalar
  <2>3. e = a => IsSubset[e][a]
    BY <1>5 DEF IsSubsetOf
  <2> QED BY <1>8, <2>1, <2>2, <2>3
<1> QED BY <1>2, <1>6, <1>7, <1>8 DEF IsScalar

-----------------------------------------------------------------------------
(* One object.                                                             *)

\* What Namespaced makes of a declaration.
LEMMA WithNamespace ==
    ASSUME NEW e, IsObject(e), SetNamespace(e) \in Values
    PROVE  /\ IsObject(SetNamespace(e))
           /\ Kind(SetNamespace(e)) = Kind(e)
           /\ Sets(SetNamespace(e), "namespace")
<1> DEFINE m == With(Metadata(e).at, "namespace", Text(Namespace))
           at == [e.at EXCEPT !["metadata"] = Map(m)]
<1>1. /\ DOMAIN m = {"namespace"} \cup DOMAIN Metadata(e).at
      /\ m["namespace"] = Text(Namespace)
      /\ \A key \in DOMAIN Metadata(e).at : key # "namespace" => m[key] = Metadata(e).at[key]
  BY DEF With
<1>2. SetNamespace(e) = Map(at)
  BY DEF SetNamespace, IsObject, Map, Metadata
<1>3. DOMAIN at = DOMAIN e.at /\ at["kind"] = e.at["kind"] /\ at["metadata"] = Map(m)
  BY DEF IsObject
<1> HIDE DEF m, at
<1>4. /\ SetNamespace(e).at = at /\ Kind(SetNamespace(e)) = Kind(e)
      /\ Metadata(SetNamespace(e)) = Map(m) /\ Metadata(SetNamespace(e)).at = m
  BY <1>2, <1>3 DEF Map, Kind, Metadata
<1>5. IsScalar(Text(Namespace))
  BY DEF IsScalar, Text, Scalar
<1>6. \A key \in {"name", "labels"} :
         /\ Sets(SetNamespace(e), key) <=> Sets(e, key)
         /\ Sets(e, key) => Get(SetNamespace(e), key) = Get(e, key)
  BY <1>1, <1>4 DEF Sets, Get
<1>7. Sets(SetNamespace(e), "namespace") /\ Get(SetNamespace(e), "namespace") = Text(Namespace)
  BY <1>1, <1>4 DEF Sets, Get
<1>8. IsObject(SetNamespace(e))
  <2>1. SetNamespace(e) = Map(SetNamespace(e).at)
    BY <1>2, <1>4
  <2>2. Metadata(SetNamespace(e)) = Map(Metadata(SetNamespace(e)).at)
    BY <1>4
  <2>3. {"kind", "metadata"} \subseteq DOMAIN SetNamespace(e).at
    BY <1>3, <1>4 DEF IsObject
  <2>4. IsScalar(Kind(SetNamespace(e)))
    BY <1>4 DEF IsObject
  <2>5. \A key \in {"name", "namespace"} :
           Sets(SetNamespace(e), key) => IsScalar(Get(SetNamespace(e), key))
    BY <1>5, <1>6, <1>7 DEF IsObject
  <2>6. Sets(SetNamespace(e), "labels") =>
           /\ Get(SetNamespace(e), "labels").type = "map"
           /\ \A l \in DOMAIN Get(SetNamespace(e), "labels").at :
                 IsScalar(Get(SetNamespace(e), "labels").at[l])
    BY <1>6 DEF IsObject
  <2> QED BY <2>1, <2>2, <2>3, <2>4, <2>5, <2>6 DEF IsObject
<1> QED BY <1>4, <1>7, <1>8

\* A declaration, before or after Namespaced.
Declares(e) ==
    /\ IsObject(e) /\ Namespaced(e) \in Values
    /\ Sets(e, "namespace") => Kind(e) \notin ClusterKinds

LEMMA NamespacedDeclares ==
    ASSUME NEW e, Declares(e)
    PROVE  Declares(Namespaced(e)) /\ Namespaced(Namespaced(e)) = Namespaced(e)
<1>1. CASE Namespaced(e) = e
  BY <1>1
<1>2. CASE Namespaced(e) # e
  <2>1. Namespaced(e) = SetNamespace(e) /\ Kind(e) \notin ClusterKinds
    BY <1>2 DEF Namespaced
  <2>2. IsObject(SetNamespace(e)) /\ Kind(SetNamespace(e)) = Kind(e)
        /\ Sets(SetNamespace(e), "namespace")
    BY <2>1, WithNamespace DEF Declares
  <2>3. Namespaced(SetNamespace(e)) = SetNamespace(e)
    BY <2>2 DEF Namespaced
  <2> QED BY <2>1, <2>2, <2>3 DEF Declares
<1> QED BY <1>1, <1>2

\* Declared objects can be checked.
LEMMA DeclaredDeclare ==
    ASSUME NEW d \in Declared
    PROVE  d \in Seq(Values) /\ \A i \in DOMAIN d : Declares(d[i])
<1>1. ASSUME NEW i \in DOMAIN d PROVE Declares(d[i])
  <2>1. /\ IsObject(d[i]) /\ SetNamespace(d[i]) \in Values
        /\ Sets(d[i], "namespace") => Kind(d[i]) \notin ClusterKinds
    BY AssertCliAssumption
  <2>2. Namespaced(d[i]) \in Values
    BY <2>1 DEF Namespaced, IsObject
  <2> QED BY <2>1, <2>2 DEF Declares
<1> QED BY <1>1, AssertCliAssumption

\* A scalar is a subset of itself only.
LEMMA ScalarSubset ==
    ASSUME NEW e \in Values, NEW a \in Values, IsScalar(e), IsSubset[e][a]
    PROVE  e = a
BY IsSubsetIs DEF IsSubsetOf, IsScalar

LEMMA MapSubset ==
    ASSUME NEW e \in Values, NEW a \in Values, e.type = "map", IsSubset[e][a]
    PROVE  /\ a.type = "map" /\ DOMAIN e.at \subseteq DOMAIN a.at
           /\ \A k \in DOMAIN e.at : /\ e.at[k] \in Values /\ a.at[k] \in Values
                                     /\ IsSubset[e.at[k]][a.at[k]]
<1>1. Facts[e] \subseteq Facts[a]
  BY SubsetIsFacts
<1>2. a.type = "map"
  BY <1>1, SameForm
<1>3. /\ \A k \in DOMAIN e.at : e.at[k] \in Values
      /\ \A k \in DOMAIN a.at : a.at[k] \in Values
  BY <1>2, PartsAreSmaller
<1>4. CASE e = a
  BY <1>3, <1>4, SubsetIsFacts
<1>5. CASE e # a
  <2>1. IsSubsetOf(IsSubset, e, a)
    BY IsSubsetIs
  <2>2. /\ DOMAIN e.at \subseteq DOMAIN a.at
        /\ \A k \in DOMAIN e.at : IsSubset[e.at[k]][a.at[k]]
    BY <1>5, <2>1 DEF IsSubsetOf
  <2> QED BY <1>2, <1>3, <2>2
<1> QED BY <1>4, <1>5

\* CheckResource and CheckResourceAbsent read by name, or by labels, and by
\* namespace: an object of the cluster that is as declared is among those
\* that are read.
LEMMA ReadMissesNone ==
    ASSUME NEW e, IsObject(e), NEW o \in world, IsObject(o), IsSubset[e][o]
    PROVE  o \in Read(e)
<1>1. /\ e \in Values /\ e.type = "map" /\ o \in Values
      /\ Metadata(e).type = "map" /\ {"kind", "metadata"} \subseteq DOMAIN e.at
  BY DEF IsObject, Map
<1>2. /\ Kind(e) \in Values /\ Kind(o) \in Values /\ IsSubset[Kind(e)][Kind(o)]
      /\ Metadata(e) \in Values /\ Metadata(o) \in Values /\ IsSubset[Metadata(e)][Metadata(o)]
  BY <1>1, MapSubset DEF Kind, Metadata
<1>3. Kind(o) = Kind(e)
  BY <1>2, ScalarSubset DEF IsObject
<1>4. ASSUME NEW key, Sets(e, key)
      PROVE  /\ Sets(o, key) /\ Get(e, key) \in Values /\ Get(o, key) \in Values
             /\ IsSubset[Get(e, key)][Get(o, key)]
  BY <1>1, <1>2, <1>4, MapSubset DEF Sets, Get
<1>5. ASSUME NEW key \in {"name", "namespace"}, Sets(e, key)
      PROVE  Sets(o, key) /\ Get(o, key) = Get(e, key)
  BY <1>4, <1>5, ScalarSubset DEF IsObject
<1>6. ASSUME Sets(e, "labels"), NEW l \in DOMAIN Get(e, "labels").at
      PROVE  /\ l \in DOMAIN Get(o, "labels").at
             /\ Get(o, "labels").at[l] = Get(e, "labels").at[l]
  <2>1. /\ Get(e, "labels").type = "map" /\ Get(e, "labels") \in Values
        /\ Get(o, "labels") \in Values /\ IsSubset[Get(e, "labels")][Get(o, "labels")]
    BY <1>4, <1>6 DEF IsObject
  <2>2. /\ l \in DOMAIN Get(o, "labels").at
        /\ Get(e, "labels").at[l] \in Values /\ Get(o, "labels").at[l] \in Values
        /\ IsSubset[Get(e, "labels").at[l]][Get(o, "labels").at[l]]
    BY <1>6, <2>1, MapSubset
  <2> QED BY <1>6, <2>2, ScalarSubset DEF IsObject
<1> QED BY <1>3, <1>4, <1>5, <1>6 DEF Read

\* The check of one object finds what its declaration says.
LEMMA CheckIsHolds ==
    ASSUME NEW e, Declares(e), Namespaced(e) = e, world \subseteq Candidates
    PROVE  /\ CheckResource(e) <=> IsIn(e, world)
           /\ CheckResourceAbsent(e) <=> ~IsIn(e, world)
<1>1. \A o \in world : IsObject(o) /\ o \in Values
  BY AssertCliAssumption DEF IsObject
<1>2. e \in Values /\ IsObject(e)
  BY DEF Declares, IsObject
<1>3. \A o \in world : o \in Matching(e) <=> Facts[e] \subseteq Facts[o]
  BY <1>1, <1>2, ReadMissesNone, SubsetIsFacts DEF Matching, Read
<1>4. Matching(e) \subseteq world
  BY DEF Matching, Read
<1> QED BY <1>3, <1>4 DEF CheckResource, CheckResourceAbsent, IsIn

-----------------------------------------------------------------------------
(* The inductive invariant.                                                *)

\* Where the command is: rounds are counted, and a round that ends without
\* errors is the last.
RoundInv ==
    /\ round = 0 => next = 1 /\ testErrors = {} /\ held = {}
    /\ pc = "load" => round = 0
    /\ pc \in {"check", "sleep"} => round > 0
    /\ pc \in {"sleep", "round"} /\ round > 0 => testErrors # {}
    /\ round > 0 /\ pc \notin {"check"} => next = Len(objects) + 1
    /\ pc = "report" => IF round = 0 THEN timeout <= 0
                        ELSE testErrors # {} => round = timeout

\* An object of this round was as wanted when it was read, or has an error.
ErrorInv ==
    round > 0 => /\ held \cup testErrors = 1..(next - 1)
                 /\ held \cap testErrors = {}

\* What the command returns is what the last round has found.
VerdictInv ==
    /\ pc # "done" => verdict = "none"
    /\ verdict = "valid" => testErrors = {} /\ (round = 0 => timeout <= 0)
    /\ verdict = "invalid" => round > 0 /\ round = timeout /\ testErrors # {}
    /\ verdict \in {"valid", "invalid"} /\ round > 0 => next = Len(objects) + 1

ObjectsInv == \A i \in DOMAIN objects : Declares(objects[i])

IInv == TypeOK /\ RoundInv /\ ErrorInv /\ VerdictInv /\ ObjectsInv

LEMMA InitIInv == Init => IInv
<1> SUFFICES ASSUME Init PROVE IInv
  OBVIOUS
<1>1. objects \in Seq(Values) /\ ObjectsInv
  BY DeclaredDeclare DEF Init, ObjectsInv
<1>2. TypeOK
  <2>1. Len(objects) \in Nat
    BY <1>1
  <2> QED BY <1>1, <2>1 DEF Init, TypeOK
<1> QED BY <1>1, <1>2 DEF Init, IInv, RoundInv, ErrorInv, VerdictInv

\* A step that leaves the round and its objects alone.
LEMMA SameRound ==
    ASSUME IInv, UNCHANGED <<config, objects, round, next, testErrors, held>>,
           world' \in Worlds,
           pc' \in {"load", "round", "check", "sleep", "report", "done"},
           verdict' \in {"none", "unreadable", "valid", "invalid"},
           RoundInv', VerdictInv'
    PROVE  IInv'
<1>1. TypeOK'
  BY DEF IInv, TypeOK, config
<1>2. ErrorInv' /\ ObjectsInv'
  <2>1. ErrorInv'
    BY DEF IInv, ErrorInv
  <2>2. ObjectsInv'
    BY DEF IInv, ObjectsInv, Declares
  <2> QED BY <2>1, <2>2
<1> QED BY <1>1, <1>2 DEF IInv

LEMMA WorldMovesIInv == IInv /\ WorldMoves => IInv'
<1> SUFFICES ASSUME IInv, WorldMoves PROVE IInv'
  OBVIOUS
<1>1. PICK o \in Candidates :
         LET others == {p \in world : Identity(p) # Identity(o)}
         IN world' \in {others, others \cup {o}} \ {world}
  BY DEF WorldMoves
<1>2. world' \in Worlds
  <2> DEFINE others == {p \in world : Identity(p) # Identity(o)}
  <2>1. world \in Worlds
    BY DEF IInv, TypeOK
  <2>2. others \in Worlds
    BY <2>1 DEF Worlds
  <2>3. others \cup {o} \in Worlds
    <3>1. others \cup {o} \subseteq Candidates
      BY <2>2 DEF Worlds
    <3>2. \A p, q \in others \cup {o} : Identity(p) = Identity(q) => p = q
      <4>1. \A p, q \in others : Identity(p) = Identity(q) => p = q
        BY <2>2 DEF Worlds
      <4>2. \A p \in others : Identity(p) # Identity(o)
        OBVIOUS
      <4> HIDE DEF others
      <4> QED BY <4>1, <4>2
    <3> HIDE DEF others
    <3> QED BY <3>1, <3>2 DEF Worlds
  <2> QED BY <1>1, <2>2, <2>3
<1>3. RoundInv' /\ VerdictInv'
  BY DEF WorldMoves, IInv, RoundInv, VerdictInv, config
<1>4. /\ pc' \in {"load", "round", "check", "sleep", "report", "done"}
      /\ verdict' \in {"none", "unreadable", "valid", "invalid"}
      /\ UNCHANGED <<config, objects, round, next, testErrors, held>>
  BY DEF WorldMoves, IInv, TypeOK
<1> QED BY <1>2, <1>3, <1>4, SameRound

LEMMA StepsIInv ==
    IInv /\ (LoadFails \/ Load \/ EndRound \/ Wake \/ Report) => IInv'
<1> SUFFICES ASSUME IInv, LoadFails \/ Load \/ EndRound \/ Wake \/ Report PROVE IInv'
  OBVIOUS
<1>1. /\ UNCHANGED <<config, objects, round, next, testErrors, held, world>>
      /\ pc' \in {"load", "round", "check", "sleep", "report", "done"}
      /\ verdict' \in {"none", "unreadable", "valid", "invalid"}
      /\ world' \in Worlds
  BY DEF LoadFails, Load, EndRound, Wake, Report, IInv, TypeOK
<1>2. /\ round \in Nat /\ next \in 1..Len(objects) + 1 /\ Len(objects) \in Nat
      /\ (round > 0 => round <= timeout) /\ timeout \in Int
  BY AssertCliAssumption DEF IInv, TypeOK
<1>3. RoundInv' /\ VerdictInv'
  <2> USE <1>1, <1>2 DEF IInv, RoundInv, VerdictInv, config
  <2>1. CASE LoadFails
    BY <2>1 DEF LoadFails
  <2>2. CASE Load
    BY <2>2 DEF Load
  <2>3. CASE EndRound
    BY <2>3 DEF EndRound
  <2>4. CASE Wake
    BY <2>4 DEF Wake
  <2>5. CASE Report
    BY <2>5 DEF Report
  <2> QED BY <2>1, <2>2, <2>3, <2>4, <2>5
<1> QED BY <1>1, <1>3, SameRound

LEMMA BeginRoundIInv == IInv /\ BeginRound => IInv'
<1> SUFFICES ASSUME IInv, BeginRound PROVE IInv'
  OBVIOUS
<1>1. /\ round \in Nat /\ next \in 1..Len(objects) + 1 /\ Len(objects) \in Nat
      /\ (round > 0 => round <= timeout) /\ timeout \in Int
  BY AssertCliAssumption DEF IInv, TypeOK
<1>2. CASE round < timeout
  <2>1. /\ pc = "round" /\ pc' = "check" /\ round' = round + 1 /\ next' = 1
        /\ testErrors' = {} /\ held' = {}
        /\ UNCHANGED <<mode, timeout, objects, world, verdict>>
    BY <1>2 DEF BeginRound, config
  <2>2. TypeOK'
    BY <1>1, <1>2, <2>1 DEF IInv, TypeOK
  <2>3. RoundInv' /\ ErrorInv'
    BY <1>1, <2>1 DEF RoundInv, ErrorInv
  <2>4. VerdictInv'
    BY <2>1 DEF IInv, VerdictInv
  <2>5. ObjectsInv'
    BY <2>1 DEF IInv, ObjectsInv, Declares
  <2> QED BY <2>2, <2>3, <2>4, <2>5 DEF IInv
<1>3. CASE ~ (round < timeout)
  <2>1. /\ pc = "round" /\ pc' = "report"
        /\ UNCHANGED <<config, objects, world, verdict, round, next, testErrors, held>>
    BY <1>3 DEF BeginRound
  <2>2. RoundInv' /\ VerdictInv'
    BY <1>1, <1>3, <2>1 DEF IInv, RoundInv, VerdictInv, config
  <2>3. verdict' \in {"none", "unreadable", "valid", "invalid"} /\ world' \in Worlds
    BY <2>1 DEF IInv, TypeOK
  <2> QED BY <2>1, <2>2, <2>3, SameRound
<1> QED BY <1>2, <1>3

LEMMA CheckOneIInv == IInv /\ CheckOne => IInv'
<1> SUFFICES ASSUME IInv, CheckOne PROVE IInv'
  OBVIOUS
<1>1. /\ round \in Nat /\ next \in 1..Len(objects) + 1 /\ Len(objects) \in Nat
      /\ (round > 0 => round <= timeout) /\ timeout \in Int
      /\ objects \in Seq(Values) /\ DOMAIN objects = 1..Len(objects)
      /\ world \subseteq Candidates
  BY AssertCliAssumption DEF IInv, TypeOK, Worlds
<1>2. /\ pc = "check" /\ pc' = pc /\ next \in DOMAIN objects /\ next' = next + 1
      /\ UNCHANGED <<mode, timeout, world, round, verdict>>
  BY <1>1 DEF CheckOne, config
<1> DEFINE e == Namespaced(objects[next])
<1>3. Declares(objects[next]) /\ Declares(e) /\ Namespaced(e) = e /\ e \in Values
  BY <1>2, NamespacedDeclares DEF IInv, ObjectsInv, Declares
<1>4. objects' \in {objects, [objects EXCEPT ![next] = e]}
  BY DEF CheckOne, Answered, Unanswered
<1>5. /\ objects' \in Seq(Values) /\ Len(objects') = Len(objects)
      /\ DOMAIN objects' = DOMAIN objects
      /\ \A i \in DOMAIN objects : objects'[i] \in {objects[i], e}
  <2> HIDE DEF e
  <2> QED BY <1>1, <1>2, <1>3, <1>4
<1>6. ObjectsInv'
  <2>1. \A i \in DOMAIN objects : Declares(objects'[i])
    <3> HIDE DEF e
    <3> QED BY <1>3, <1>5 DEF IInv, ObjectsInv
  <2> QED BY <1>5, <2>1 DEF ObjectsInv, Declares
<1>7. \/ testErrors' = testErrors /\ held' = held \cup {next}
      \/ testErrors' = testErrors \cup {next} /\ held' = held
  <2>1. CASE Unanswered
    BY <2>1 DEF Unanswered
  <2>2. CASE Answered
    <3>1. CheckResource(e) <=> IsIn(e, world)
      BY <1>1, <1>3, CheckIsHolds
    <3>2. CheckResourceAbsent(e) <=> ~IsIn(e, world)
      BY <1>1, <1>3, CheckIsHolds
    <3>3. (IF mode = "assert" THEN CheckResource(e) ELSE CheckResourceAbsent(e)) <=> Holds(e)
      <4> HIDE DEF e
      <4> QED BY <3>1, <3>2 DEF Holds
    <3>4. /\ testErrors' = IF (IF mode = "assert" THEN CheckResource(e)
                                                   ELSE CheckResourceAbsent(e))
                           THEN testErrors ELSE testErrors \cup {next}
          /\ held' = IF Holds(e) THEN held \cup {next} ELSE held
      BY <2>2 DEF Answered
    <3> HIDE DEF e
    <3> QED BY <3>3, <3>4
  <2> QED BY <2>1, <2>2 DEF CheckOne
<1>8. /\ round > 0 /\ held \cup testErrors = 1..(next - 1) /\ held \cap testErrors = {}
      /\ verdict = "none"
  BY <1>2 DEF IInv, RoundInv, ErrorInv, VerdictInv
<1>9. ErrorInv'
  <2>1. next \notin 1..(next - 1) /\ 1..(next' - 1) = 1..(next - 1) \cup {next}
    BY <1>1, <1>2
  <2>2. held' \cup testErrors' = 1..(next' - 1) /\ held' \cap testErrors' = {}
    BY <1>7, <1>8, <2>1
  <2> QED BY <2>2 DEF ErrorInv
<1>10. TypeOK'
  <2>1. next' \in 1..Len(objects') + 1
    BY <1>1, <1>2, <1>5
  <2>2. testErrors' \subseteq 1..(next' - 1) /\ held' \subseteq 1..(next' - 1)
    BY <1>2, <1>8, <1>9 DEF ErrorInv
  <2>3. 1..(next' - 1) \subseteq 1..Len(objects')
    <3>1. Len(objects') \in Nat
      BY <1>1, <1>5
    <3>2. \A m \in Nat : \A n \in 1..m + 1 : 1..(n - 1) \subseteq 1..m
      OBVIOUS
    <3> QED BY <2>1, <3>1, <3>2
  <2>4. testErrors' \subseteq 1..Len(objects')
    BY <2>2, <2>3
  <2> QED BY <1>1, <1>2, <1>5, <2>1, <2>2, <2>4 DEF IInv, TypeOK
<1>11. RoundInv' /\ VerdictInv'
  BY <1>2, <1>8 DEF RoundInv, VerdictInv
<1> QED BY <1>6, <1>9, <1>10, <1>11 DEF IInv

LEMMA NextIInv == IInv /\ [Next]_vars => IInv'
<1> SUFFICES ASSUME IInv, [Next]_vars PROVE IInv'
  OBVIOUS
<1>1. CASE LoadFails \/ Load \/ EndRound \/ Wake \/ Report
  BY <1>1, StepsIInv
<1>2. CASE BeginRound
  BY <1>2, BeginRoundIInv
<1>3. CASE CheckOne
  BY <1>3, CheckOneIInv
<1>4. CASE WorldMoves
  BY <1>4, WorldMovesIInv
<1>5. CASE UNCHANGED vars
  <2>1. TypeOK'
    BY <1>5 DEF vars, IInv, TypeOK
  <2>2. RoundInv' /\ ErrorInv' /\ VerdictInv'
    BY <1>5 DEF vars, IInv, RoundInv, ErrorInv, VerdictInv
  <2>3. ObjectsInv'
    BY <1>5 DEF vars, IInv, ObjectsInv, Declares
  <2> QED BY <2>1, <2>2, <2>3 DEF IInv
<1> QED BY <1>1, <1>2, <1>3, <1>4, <1>5 DEF Next, Command, Terminated

LEMMA IInvHolds == Spec => []IInv
BY InitIInv, NextIInv, PTL DEF Spec

-----------------------------------------------------------------------------
(* Theorems.                                                               *)

\* The variables of the commands keep their types, and no round begins after
\* the timeout.
THEOREM TypeCorrect == Spec => []TypeOK
<1>1. IInv => TypeOK
  BY DEF IInv
<1> QED BY <1>1, IInvHolds, PTL

\* "valid" means that one round has seen every declared object as wanted,
\* by what the files and the objects of the cluster say.
THEOREM ValidIsSeen == Spec => []ValidMeansSeen
<1>1. IInv => ValidMeansSeen
  <2> SUFFICES ASSUME IInv, verdict = "valid", timeout > 0 PROVE held = DOMAIN objects
    BY DEF ValidMeansSeen
  <2>1. /\ round \in Nat /\ timeout \in Int /\ Len(objects) \in Nat
        /\ DOMAIN objects = 1..Len(objects)
    BY AssertCliAssumption DEF IInv, TypeOK
  <2>2. testErrors = {} /\ round > 0 /\ next = Len(objects) + 1
    BY <2>1 DEF IInv, VerdictInv
  <2>3. held = 1..(next - 1)
    BY <2>2 DEF IInv, ErrorInv
  <2> QED BY <2>1, <2>2, <2>3
<1> QED BY <1>1, IInvHolds, PTL

\* "not valid" means that the last round was over, and that it met an object
\* that was not as wanted or could not be read.
THEOREM InvalidIsLate == Spec => []InvalidOnlyAtEnd
<1>1. IInv => InvalidOnlyAtEnd
  <2> SUFFICES ASSUME IInv, verdict = "invalid"
               PROVE  round = timeout /\ held # DOMAIN objects
    BY DEF InvalidOnlyAtEnd
  <2>1. DOMAIN objects = 1..Len(objects)
    BY DEF IInv, TypeOK
  <2>2. round > 0 /\ round = timeout /\ testErrors # {}
    BY DEF IInv, VerdictInv
  <2>3. testErrors \subseteq DOMAIN objects /\ held \cap testErrors = {}
    BY <2>1, <2>2 DEF IInv, TypeOK, ErrorInv
  <2> QED BY <2>2, <2>3
<1> QED BY <1>1, IInvHolds, PTL
=============================================================================
