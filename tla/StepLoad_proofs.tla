--------------------------- MODULE StepLoad_proofs ---------------------------
(***************************************************************************)
(* Proofs about StepLoad: the merge of the files of a step, for any        *)
(* directories and any objects.                                            *)
(*                                                                         *)
(* First what the model's operators do to lists and how they count; then   *)
(* Taken, which says of a step and a set of files what the properties say  *)
(* of a whole step, and that LoadYAML extends it by one file; last the     *)
(* inductive invariant, in which the set is that of the files loaded so    *)
(* far.                                                                    *)
(***************************************************************************)
EXTENDS StepLoad, SequenceTheorems, FiniteSetTheorems, WellFoundedInduction, TLAPS

-----------------------------------------------------------------------------
(* Induction over lists, as the existence of a shortest one for which the  *)
(* statement is false.                                                     *)

\* A set of numbers that is not empty has a smallest one.
LEMMA SmallestNumber ==
    ASSUME NEW S, S \subseteq Nat, S # {}
    PROVE  \E m \in S : \A n \in S : m <= n
<1>1. PICK n \in S : TRUE
  OBVIOUS
<1> DEFINE I == 0..n
           B == {0..m : m \in {k \in S : k <= n}}
<1>2. IsWellFoundedOn(StrictSubsetOrdering(I), SUBSET I)
  <2>1. IsFiniteSet(I)
    BY FS_Interval
  <2> HIDE DEF I
  <2> QED BY <2>1, FS_StrictSubsetOrderingWellFounded, FS_FiniteSubsetsOfFinite
<1>3. B \subseteq SUBSET I /\ B # {}
  OBVIOUS
<1>4. PICK U \in B : \A V \in B : ~ (<<V, U>> \in StrictSubsetOrdering(I))
  <2> HIDE DEF I, B
  <2> QED BY <1>2, <1>3, WFMin
<1>5. PICK m \in S : m <= n /\ U = 0..m
  OBVIOUS
<1>6. ASSUME NEW k \in S, k < m PROVE FALSE
  <2>1. 0..k \in B /\ 0..k \subseteq U /\ 0..k # U /\ 0..k \in SUBSET I /\ U \in SUBSET I
    <3>1. k \in 0..n /\ m \in Nat /\ n \in Nat /\ k \in Nat
      BY <1>5, <1>6
    <3>2. m \in U /\ m \notin 0..k
      BY <1>5, <1>6, <3>1
    <3>3. 0..k \in B
      BY <3>1
    <3> QED BY <1>3, <1>5, <1>6, <3>1, <3>2, <3>3
  <2> HIDE DEF B, I
  <2> QED BY <1>4, <2>1 DEF StrictSubsetOrdering
<1> QED BY <1>6

\* What holds of the empty list, and of a list with one element more, holds
\* of all.
LEMMA AllLists ==
    ASSUME NEW S, NEW G, <<>> \in G, \A s \in Seq(S) \cap G : \A x \in S : Append(s, x) \in G
    PROVE  Seq(S) \subseteq G
<1> DEFINE Bad == {s \in Seq(S) : s \notin G}
           Lengths == {Len(s) : s \in Bad}
<1> SUFFICES ASSUME Bad # {} PROVE FALSE
  OBVIOUS
<1>1. Lengths \subseteq Nat /\ Lengths # {}
  OBVIOUS
<1>2. PICK m \in Lengths : \A n \in Lengths : m <= n
  <2> HIDE DEF Lengths
  <2> QED BY <1>1, SmallestNumber
<1>3. PICK s \in Bad : m = Len(s)
  OBVIOUS
<1>4. PICK t \in Seq(S), x \in S : s = Append(t, x)
  <2>1. s \in Seq(S) /\ s # <<>>
    OBVIOUS
  <2> QED BY <2>1, SequenceEmptyOrAppend
<1>5. Len(t) \in Nat /\ m = Len(t) + 1
  BY <1>3, <1>4, AppendProperties, LenProperties
<1>6. t \in G
  BY <1>2, <1>5
<1> QED BY <1>3, <1>4, <1>6

-----------------------------------------------------------------------------
(* Lists of objects, filtered and concatenated.                            *)

\* f is the function that Only defines for a list.
Filters(f, objects, kinds) ==
    f = [n \in 0..Len(objects) |->
           IF n = 0 THEN <<>>
           ELSE IF objects[n].kind \in kinds THEN Append(f[n - 1], objects[n])
           ELSE f[n - 1]]

\* The function for a list with one object more extends that for the list.
LEMMA FiltersExtend ==
    ASSUME NEW S, NEW s \in Seq(S), NEW x \in S, NEW K, NEW f, Filters(f, s, K)
    PROVE  \E g : /\ Filters(g, Append(s, x), K)
                  /\ g[Len(s) + 1] = IF x.kind \in K THEN Append(f[Len(s)], x) ELSE f[Len(s)]
<1> DEFINE n == Len(s)
           t == Append(s, x)
           g == [i \in 0..n + 1 |-> IF i <= n THEN f[i] ELSE
                                    IF x.kind \in K THEN Append(f[n], x) ELSE f[n]]
<1>1. n \in Nat /\ Len(t) = n + 1 /\ t[n + 1] = x /\ \A i \in 1..n : t[i] = s[i]
  BY AppendProperties, LenProperties
<1> HIDE DEF n, t
<1>2. \A i \in 0..n : f[i] = IF i = 0 THEN <<>>
                             ELSE IF s[i].kind \in K THEN Append(f[i - 1], s[i]) ELSE f[i - 1]
  BY DEF Filters, n
<1>3. ASSUME NEW i \in 0..n + 1
      PROVE  g[i] = IF i = 0 THEN <<>>
                    ELSE IF t[i].kind \in K THEN Append(g[i - 1], t[i]) ELSE g[i - 1]
  <2>1. CASE i = 0
    BY <1>1, <1>2, <2>1
  <2>2. CASE i \in 1..n
    <3>1. i - 1 \in 0..n /\ i \in 0..n /\ i - 1 \in 0..n+1 /\ i <= n /\ i - 1 <= n /\ i # 0
      BY <1>1, <2>2
    <3>2. g[i] = f[i] /\ g[i - 1] = f[i - 1]
      BY <3>1
    <3>3. t[i] = s[i]
      BY <1>1, <2>2
    <3> HIDE DEF g
    <3> QED BY <1>2, <3>1, <3>2, <3>3
  <2>3. CASE i = n + 1
    <3>1. i - 1 = n /\ n \in 0..n+1 /\ n <= n /\ i # 0 /\ ~(i <= n)
      BY <1>1, <2>3
    <3>2. g[i - 1] = f[n] /\ g[i] = IF x.kind \in K THEN Append(f[n], x) ELSE f[n]
      BY <3>1
    <3>3. t[i] = x
      BY <1>1, <2>3
    <3> HIDE DEF g
    <3> QED BY <3>1, <3>2, <3>3
  <2> QED BY <1>1, <2>1, <2>2, <2>3
<1>4. g = [i \in 0..n + 1 |-> g[i]]
  OBVIOUS
<1>5. g[n + 1] = IF x.kind \in K THEN Append(f[n], x) ELSE f[n]
  BY <1>1
<1> HIDE DEF g
<1>6. Filters(g, t, K)
  BY <1>1, <1>3, <1>4 DEF Filters
<1> QED BY <1>5, <1>6 DEF n, t

\* The recursive function in Only exists.
LEMMA FiltersExist ==
    ASSUME NEW S, NEW s \in Seq(S), NEW K
    PROVE  \E f : Filters(f, s, K)
<1> DEFINE G == {r \in Seq(S) : \E f : Filters(f, r, K)}
<1>1. <<>> \in G
  <2> DEFINE f == [n \in 0..0 |-> <<>>]
  <2>1. Filters(f, <<>>, K)
    <3>1. Len(<<>>) = 0
      OBVIOUS
    <3>2. f = [n \in 0..0 |-> IF n = 0 THEN <<>>
                              ELSE IF <<>>[n].kind \in K THEN Append(f[n - 1], <<>>[n])
                              ELSE f[n - 1]]
      OBVIOUS
    <3> HIDE DEF f
    <3> QED BY <3>1, <3>2 DEF Filters
  <2> QED BY <2>1
<1>2. ASSUME NEW r \in Seq(S) \cap G, NEW x \in S PROVE Append(r, x) \in G
  <2>1. PICK f : Filters(f, r, K)
    OBVIOUS
  <2>2. \E g : Filters(g, Append(r, x), K)
    BY <2>1, FiltersExtend
  <2> QED BY <2>2
<1> HIDE DEF G
<1>3. Seq(S) \subseteq G
  BY <1>1, <1>2, AllLists
<1> QED BY <1>3 DEF G

\* There is one only.
LEMMA FiltersAgree ==
    ASSUME NEW S, NEW s \in Seq(S), NEW K, NEW f, NEW g, Filters(f, s, K), Filters(g, s, K)
    PROVE  f[Len(s)] = g[Len(s)]
<1> DEFINE n == Len(s)
           Bad == {i \in 0..n : f[i] # g[i]}
<1>0. n \in Nat
  BY LenProperties
<1> HIDE DEF n
<1>1. \A h : Filters(h, s, K) =>
         \A i \in 0..n : h[i] = IF i = 0 THEN <<>>
                         ELSE IF s[i].kind \in K THEN Append(h[i - 1], s[i]) ELSE h[i - 1]
  BY DEF Filters, n
<1>2. Bad = {}
  <2> SUFFICES ASSUME Bad # {} PROVE FALSE
    OBVIOUS
  <2>1. Bad \subseteq Nat
    BY <1>0
  <2> HIDE DEF Bad
  <2>2. PICK m \in Bad : \A i \in Bad : m <= i
    BY <2>1, SmallestNumber
  <2>3. m \in 0..n /\ f[m] # g[m]
    BY DEF Bad
  <2>4. m # 0
    BY <1>1, <2>3
  <2>5. m - 1 \in 0..n /\ m - 1 \notin Bad
    BY <1>0, <2>2, <2>3, <2>4
  <2>6. f[m - 1] = g[m - 1]
    BY <2>5 DEF Bad
  <2> QED BY <1>1, <2>3, <2>4, <2>6
<1> QED BY <1>0, <1>2 DEF n

\* What Only returns, for a list that grows at its end.
LEMMA OnlyIs ==
    ASSUME NEW S, NEW s \in Seq(S), NEW K, NEW f, Filters(f, s, K)
    PROVE  Only(s, K) = f[Len(s)]
<1>1. Only(s, K) = (CHOOSE g : Filters(g, s, K))[Len(s)]
  BY DEF Only, Filters
<1>2. Filters(CHOOSE g : Filters(g, s, K), s, K)
  BY FiltersExist
<1> QED BY <1>1, <1>2, FiltersAgree

LEMMA OnlyEmpty == \A K : Only(<<>>, K) = <<>>
<1> TAKE K
<1>1. <<>> \in Seq({}) /\ Len(<<>>) = 0
  OBVIOUS
<1>2. PICK f : Filters(f, <<>>, K)
  BY <1>1, FiltersExist
<1>3. f[0] = <<>>
  BY <1>1, <1>2 DEF Filters
<1> QED BY <1>1, <1>2, <1>3, OnlyIs

\* What Only makes of a list with an object more.
LEMMA OnlyAppend ==
    ASSUME NEW S, NEW s \in Seq(S), NEW x \in S, NEW K
    PROVE  Only(Append(s, x), K) =
              IF x.kind \in K THEN Append(Only(s, K), x) ELSE Only(s, K)
<1>1. PICK f : Filters(f, s, K)
  BY FiltersExist
<1>2. PICK g : /\ Filters(g, Append(s, x), K)
               /\ g[Len(s) + 1] = IF x.kind \in K THEN Append(f[Len(s)], x) ELSE f[Len(s)]
  BY <1>1, FiltersExtend
<1>3. Only(s, K) = f[Len(s)]
  BY <1>1, OnlyIs
<1>4. Append(s, x) \in Seq(S) /\ Len(Append(s, x)) = Len(s) + 1
  BY AppendProperties
<1>5. Only(Append(s, x), K) = g[Len(s) + 1]
  BY <1>2, <1>4, OnlyIs
<1> QED BY <1>2, <1>3, <1>5

\* A list without an element more is a list of the same objects.
LEMMA OnlyType ==
    ASSUME NEW S, NEW s \in Seq(S), NEW K
    PROVE  Only(s, K) \in Seq(S)
<1> DEFINE G == {r \in Seq(S) : Only(r, K) \in Seq(S)}
<1>1. <<>> \in G
  <2>1. <<>> \in Seq(S)
    OBVIOUS
  <2> QED BY <2>1, OnlyEmpty
<1>2. ASSUME NEW r \in Seq(S) \cap G, NEW x \in S PROVE Append(r, x) \in G
  <2>1. Only(r, K) \in Seq(S) /\ Append(r, x) \in Seq(S)
    BY AppendProperties
  <2>2. Only(Append(r, x), K) = IF x.kind \in K THEN Append(Only(r, K), x) ELSE Only(r, K)
    BY OnlyAppend
  <2>3. Append(Only(r, K), x) \in Seq(S)
    BY <2>1, AppendProperties
  <2> HIDE DEF G
  <2>4. Only(Append(r, x), K) \in Seq(S)
    BY <2>1, <2>2, <2>3
  <2> QED BY <2>1, <2>4 DEF G
<1> HIDE DEF G
<1>3. Seq(S) \subseteq G
  BY <1>1, <1>2, AllLists
<1> QED BY <1>3 DEF G

\* The objects of a list with one more.
LEMMA RangeAppend ==
    ASSUME NEW S, NEW s \in Seq(S), NEW x \in S
    PROVE  Range(Append(s, x)) = Range(s) \cup {x}
<1>1. /\ Append(s, x) \in Seq(S) /\ Len(Append(s, x)) = Len(s) + 1 /\ Len(s) \in Nat
      /\ \A i \in 1..Len(s) : Append(s, x)[i] = s[i]
      /\ Append(s, x)[Len(s) + 1] = x
  BY AppendProperties, LenProperties
<1>2. Range(s) = {s[i] : i \in 1..Len(s)}
  BY RangeEquality
<1>3. Range(Append(s, x)) = {Append(s, x)[i] : i \in 1..Len(s) + 1}
  BY <1>1, RangeEquality
<1>4. 1..Len(s) + 1 = 1..Len(s) \cup {Len(s) + 1}
  BY <1>1
<1> QED BY <1>1, <1>2, <1>3, <1>4

LEMMA RangeEmpty == Range(<<>>) = {}
BY DEF Range

\* A list without objects is the empty one.
LEMMA NoneInRange ==
    ASSUME NEW S, NEW s \in Seq(S)
    PROVE  s = <<>> <=> Range(s) = {}
<1>1. s # <<>> => Len(s) \in 1..Len(s) /\ s[Len(s)] \in Range(s)
  <2>1. s # <<>> => Len(s) \in Nat /\ Len(s) # 0 /\ DOMAIN s = 1..Len(s)
    BY EmptySeq, LenProperties
  <2> QED BY <2>1 DEF Range
<1> QED BY <1>1, RangeEmpty

\* The objects of these kinds, and all of them.
LEMMA OnlyRange ==
    ASSUME NEW S, NEW s \in Seq(S), NEW K
    PROVE  Range(Only(s, K)) = {o \in Range(s) : o.kind \in K}
<1> DEFINE G == {r \in Seq(S) : Range(Only(r, K)) = {o \in Range(r) : o.kind \in K}}
<1>1. <<>> \in G
  BY OnlyEmpty, RangeEmpty
<1>2. ASSUME NEW r \in Seq(S) \cap G, NEW x \in S PROVE Append(r, x) \in G
  <2>1. Range(Append(r, x)) = Range(r) \cup {x} /\ Append(r, x) \in Seq(S)
    BY RangeAppend, AppendProperties
  <2>2. Only(r, K) \in Seq(S)
    BY OnlyType
  <2>3. Range(Append(Only(r, K), x)) = Range(Only(r, K)) \cup {x}
    BY <2>2, RangeAppend
  <2>4. Only(Append(r, x), K) = IF x.kind \in K THEN Append(Only(r, K), x) ELSE Only(r, K)
    BY OnlyAppend
  <2> QED BY <2>1, <2>3, <2>4
<1> HIDE DEF G
<1>3. Seq(S) \subseteq G
  BY <1>1, <1>2, AllLists
<1> QED BY <1>3 DEF G

\* Only of two lists is that of the first and then that of the second.
LEMMA OnlyConcat ==
    ASSUME NEW S, NEW s \in Seq(S), NEW t \in Seq(S), NEW K
    PROVE  Only(s \o t, K) = Only(s, K) \o Only(t, K)
<1> DEFINE G == {r \in Seq(S) : Only(s \o r, K) = Only(s, K) \o Only(r, K)}
<1>0. Only(s, K) \in Seq(S)
  BY OnlyType
<1>1. <<>> \in G
  BY <1>0, OnlyEmpty, ConcatEmptySeq
<1>2. ASSUME NEW r \in Seq(S) \cap G, NEW x \in S PROVE Append(r, x) \in G
  <2>1. s \o Append(r, x) = Append(s \o r, x) /\ s \o r \in Seq(S)
    OBVIOUS
  <2>2. Only(r, K) \in Seq(S)
    BY OnlyType
  <2>3. Only(s, K) \o Append(Only(r, K), x) = Append(Only(s, K) \o Only(r, K), x)
    <3> DEFINE a == Only(s, K)
               b == Only(r, K)
    <3>1. a \in Seq(S) /\ b \in Seq(S)
      BY <1>0, <2>2
    <3> HIDE DEF a, b
    <3>2. a \o Append(b, x) = Append(a \o b, x)
      BY <3>1
    <3> QED BY <3>2 DEF a, b
  <2>4. Only(Append(r, x), K) = IF x.kind \in K THEN Append(Only(r, K), x) ELSE Only(r, K)
    BY OnlyAppend
  <2>5. Only(Append(s \o r, x), K) =
          IF x.kind \in K THEN Append(Only(s \o r, K), x) ELSE Only(s \o r, K)
    <3> DEFINE u == s \o r
    <3>1. u \in Seq(S)
      BY <2>1
    <3> HIDE DEF u
    <3>2. Only(Append(u, x), K) = IF x.kind \in K THEN Append(Only(u, K), x) ELSE Only(u, K)
      BY <3>1, OnlyAppend
    <3> QED BY <3>2 DEF u
  <2>6. Only(s \o r, K) = Only(s, K) \o Only(r, K) /\ Append(r, x) \in Seq(S)
    BY AppendProperties
  <2>7. Only(s \o Append(r, x), K) = Only(s, K) \o Only(Append(r, x), K)
    BY <2>1, <2>3, <2>4, <2>5, <2>6, Zenon
  <2> QED BY <2>6, <2>7
<1> HIDE DEF G
<1>3. Seq(S) \subseteq G
  BY <1>1, <1>2, AllLists
<1> QED BY <1>3 DEF G

\* Filtered twice, by the kinds that are in both.
LEMMA OnlyTwice ==
    ASSUME NEW S, NEW s \in Seq(S), NEW K, NEW M, NEW N,
           \A kind : kind \in N <=> kind \in K /\ kind \in M
    PROVE  Only(Only(s, K), M) = Only(s, N)
<1> DEFINE G == {r \in Seq(S) : Only(Only(r, K), M) = Only(r, N)}
<1>1. <<>> \in G
  BY OnlyEmpty
<1>2. ASSUME NEW r \in Seq(S) \cap G, NEW x \in S PROVE Append(r, x) \in G
  <2>1. Only(r, K) \in Seq(S)
    BY OnlyType
  <2>2. Only(Append(r, x), K) = IF x.kind \in K THEN Append(Only(r, K), x) ELSE Only(r, K)
    BY OnlyAppend
  <2>3. Only(Append(r, x), N) = IF x.kind \in N THEN Append(Only(r, N), x) ELSE Only(r, N)
    BY OnlyAppend
  <2>4. Only(Append(Only(r, K), x), M) =
          IF x.kind \in M THEN Append(Only(Only(r, K), M), x) ELSE Only(Only(r, K), M)
    BY <2>1, OnlyAppend
  <2>5. Only(Only(r, K), M) = Only(r, N) /\ Append(r, x) \in Seq(S)
    BY AppendProperties
  <2>6. x.kind \in N <=> x.kind \in K /\ x.kind \in M
    OBVIOUS
  <2>7. Only(Only(Append(r, x), K), M) = Only(Append(r, x), N)
    BY <2>2, <2>3, <2>4, <2>5, <2>6, Zenon
  <2> QED BY <2>5, <2>7
<1> HIDE DEF G
<1>3. Seq(S) \subseteq G
  BY <1>1, <1>2, AllLists
<1> QED BY <1>3 DEF G

-----------------------------------------------------------------------------
(* How often an object is in a list.                                       *)

LEMMA TimesEmpty == \A o : Times(o, <<>>) = 0
<1> TAKE o
<1>1. {i \in DOMAIN <<>> : <<>>[i] = o} = {}
  OBVIOUS
<1> QED BY <1>1, FS_EmptySet DEF Times

\* An object more is counted if it is the one.
LEMMA TimesAppend ==
    ASSUME NEW S, NEW s \in Seq(S), NEW x \in S, NEW o
    PROVE  /\ Times(o, s) \in Nat
           /\ Times(o, Append(s, x)) = Times(o, s) + (IF x = o THEN 1 ELSE 0)
<1> DEFINE n == Len(s)
           t == Append(s, x)
           I == {i \in 1..n : s[i] = o}
           J == {i \in 1..n + 1 : t[i] = o}
<1>1. n \in Nat /\ Len(t) = n + 1 /\ t[n + 1] = x /\ \A i \in 1..n : t[i] = s[i]
  BY AppendProperties, LenProperties
<1>2. DOMAIN s = 1..n /\ DOMAIN t = 1..n + 1
  BY <1>1, AppendProperties, LenProperties
<1>3. Times(o, s) = Cardinality(I) /\ Times(o, t) = Cardinality(J)
  BY <1>2 DEF Times
<1> HIDE DEF n, t
<1>4. IsFiniteSet(I) /\ n + 1 \notin I
  <2>1. IsFiniteSet(1..n)
    BY <1>1, FS_Interval
  <2> QED BY <1>1, <2>1, FS_Subset
<1>5. J = IF x = o THEN I \cup {n + 1} ELSE I
  BY <1>1
<1>6. Cardinality(I) \in Nat /\ Cardinality(I \cup {n + 1}) = Cardinality(I) + 1
  <2> HIDE DEF I
  <2> QED BY <1>4, FS_AddElement, FS_CardinalityType
<1> HIDE DEF I, J
<1> QED BY <1>3, <1>5, <1>6 DEF t

LEMMA TimesType ==
    ASSUME NEW S, NEW s \in Seq(S), NEW o
    PROVE  Times(o, s) \in Nat
<1> DEFINE G == {r \in Seq(S) : Times(o, r) \in Nat}
<1>1. <<>> \in G
  BY TimesEmpty
<1>2. ASSUME NEW r \in Seq(S) \cap G, NEW x \in S PROVE Append(r, x) \in G
  BY TimesAppend, AppendProperties
<1> HIDE DEF G
<1>3. Seq(S) \subseteq G
  BY <1>1, <1>2, AllLists
<1> QED BY <1>3 DEF G

\* Two lists have an object as often as both together.
LEMMA TimesConcat ==
    ASSUME NEW S, NEW s \in Seq(S), NEW t \in Seq(S), NEW o
    PROVE  Times(o, s \o t) = Times(o, s) + Times(o, t)
<1> DEFINE G == {r \in Seq(S) : Times(o, s \o r) = Times(o, s) + Times(o, r)}
<1>0. Times(o, s) \in Nat
  BY TimesType
<1>1. <<>> \in G
  BY <1>0, TimesEmpty, ConcatEmptySeq
<1>2. ASSUME NEW r \in Seq(S) \cap G, NEW x \in S PROVE Append(r, x) \in G
  <2>1. s \o Append(r, x) = Append(s \o r, x) /\ s \o r \in Seq(S)
    OBVIOUS
  <2>2. Times(o, Append(s \o r, x)) = Times(o, s \o r) + (IF x = o THEN 1 ELSE 0)
    BY <2>1, TimesAppend
  <2>3. Times(o, Append(r, x)) = Times(o, r) + (IF x = o THEN 1 ELSE 0) /\ Times(o, r) \in Nat
    BY TimesAppend
  <2>4. Times(o, s \o r) = Times(o, s) + Times(o, r)
    OBVIOUS
  <2>5. Append(r, x) \in Seq(S)
    BY AppendProperties
  <2>6. Times(o, s \o Append(r, x)) = Times(o, s) + Times(o, Append(r, x))
    BY <1>0, <2>1, <2>2, <2>3, <2>4
  <2> QED BY <2>5, <2>6
<1> HIDE DEF G
<1>3. Seq(S) \subseteq G
  BY <1>1, <1>2, AllLists
<1> QED BY <1>3 DEF G

\* A filter leaves an object of its kinds alone.
LEMMA OnlyTimes ==
    ASSUME NEW S, NEW s \in Seq(S), NEW K, NEW o, o.kind \in K
    PROVE  Times(o, Only(s, K)) = Times(o, s)
<1> DEFINE G == {r \in Seq(S) : Times(o, Only(r, K)) = Times(o, r)}
<1>1. <<>> \in G
  BY OnlyEmpty
<1>2. ASSUME NEW r \in Seq(S) \cap G, NEW x \in S PROVE Append(r, x) \in G
  <2>1. Only(r, K) \in Seq(S)
    BY OnlyType
  <2>2. Only(Append(r, x), K) = IF x.kind \in K THEN Append(Only(r, K), x) ELSE Only(r, K)
    BY OnlyAppend
  <2>3. Times(o, Append(r, x)) = Times(o, r) + (IF x = o THEN 1 ELSE 0) /\ Times(o, r) \in Nat
    BY TimesAppend
  <2>4. Times(o, Append(Only(r, K), x)) = Times(o, Only(r, K)) + (IF x = o THEN 1 ELSE 0)
    BY <2>1, TimesAppend
  <2>5. Times(o, Only(r, K)) = Times(o, r) /\ Append(r, x) \in Seq(S)
    BY AppendProperties
  <2>7. Times(o, Only(Append(r, x), K)) = Times(o, Append(r, x))
    <3>1. CASE x.kind \in K
      BY <2>2, <2>3, <2>4, <2>5, <3>1
    <3>2. CASE x.kind \notin K
      <4>1. x # o
        BY <3>2
      <4> QED BY <2>2, <2>3, <2>5, <3>2, <4>1
    <3> QED BY <3>1, <3>2
  <2> QED BY <2>5, <2>7
<1> HIDE DEF G
<1>3. Seq(S) \subseteq G
  BY <1>1, <1>2, AllLists
<1> QED BY <1>3 DEF G

-----------------------------------------------------------------------------
(* The files of a directory and their places.                              *)

Places == UNION {{e} \X DOMAIN entries[e].files : e \in DOMAIN entries}

\* The form of an entry of the directory.
LEMMA EntryType ==
    ASSUME entries \in Contents, NEW e \in DOMAIN entries
    PROVE  /\ e \in Nat
           /\ entries[e].name \in Names /\ entries[e].ignored \in BOOLEAN
           /\ entries[e].files \in Seq(Files)
<1>1. entries \in Seq([name : Names, ignored : BOOLEAN, files : Seq(Files)])
  BY LoadAssumption
<1>2. DOMAIN entries = 1..Len(entries) /\ Len(entries) \in Nat
  BY <1>1, LenProperties
<1>3. entries[e] \in [name : Names, ignored : BOOLEAN, files : Seq(Files)]
  BY <1>1, <1>2, ElementOfSeq
<1> QED BY <1>2, <1>3

\* The form of a place and of the file there.
LEMMA FileType ==
    ASSUME entries \in Contents, NEW p \in Places
    PROVE  /\ p = <<p[1], p[2]>> /\ p[1] \in Nat /\ p[2] \in Nat
           /\ File(p) \in Files
           /\ File(p).name \in Names /\ File(p).objects \in Seq(Objects)
<1>1. PICK e \in DOMAIN entries : p \in {e} \X DOMAIN entries[e].files
  BY DEF Places
<1>2. /\ e \in Nat /\ entries[e].files \in Seq(Files)
  BY EntryType
<1>3. DOMAIN entries[e].files = 1..Len(entries[e].files) /\ Len(entries[e].files) \in Nat
  BY <1>2, LenProperties
<1>4. p[1] = e /\ p[2] \in 1..Len(entries[e].files) /\ p = <<p[1], p[2]>>
  BY <1>1, <1>3
<1>5. entries[e].files[p[2]] \in Files
  BY <1>2, <1>4, ElementOfSeq
<1>6. File(p) \in Files
  BY <1>4, <1>5 DEF File
<1> QED BY <1>2, <1>3, <1>4, <1>6 DEF Files

\* A directory has finitely many files.
LEMMA PlacesFinite ==
    ASSUME entries \in Contents
    PROVE  IsFiniteSet(Places)
<1> DEFINE Of(e) == {e} \X DOMAIN entries[e].files
           All == {Of(e) : e \in DOMAIN entries}
<1>1. IsFiniteSet(DOMAIN entries)
  <2>1. entries \in Seq([name : Names, ignored : BOOLEAN, files : Seq(Files)])
    BY LoadAssumption
  <2>2. DOMAIN entries = 1..Len(entries) /\ Len(entries) \in Nat
    BY <2>1, LenProperties
  <2> QED BY <2>2, FS_Interval
<1>2. IsFiniteSet(All)
  <2> HIDE DEF Of
  <2> DEFINE h == [e \in DOMAIN entries |-> Of(e)]
  <2>1. h \in Surjection(DOMAIN entries, All)
    BY DEF Surjection
  <2> HIDE DEF h, All
  <2> QED BY <1>1, <2>1, FS_Surjection
<1>3. ASSUME NEW e \in DOMAIN entries PROVE IsFiniteSet(Of(e))
  <2>1. entries[e].files \in Seq(Files)
    BY EntryType
  <2>2. DOMAIN entries[e].files = 1..Len(entries[e].files) /\ Len(entries[e].files) \in Nat
    BY <2>1, LenProperties
  <2> DEFINE n == Len(entries[e].files)
  <2>3. IsFiniteSet(1..n)
    <3> HIDE DEF n
    <3> QED BY <2>2, FS_Interval DEF n
  <2>4. IsFiniteSet({e})
    BY FS_Singleton
  <2> QED BY <2>2, <2>3, <2>4, FS_Product
<1>4. \A T \in All : IsFiniteSet(T)
  BY <1>3
<1> HIDE DEF Of
<1>5. IsFiniteSet(UNION All)
  <2> HIDE DEF All
  <2> QED BY <1>2, <1>4, FS_UNION
<1> QED BY <1>5 DEF Places, Of

\* What Parse makes of a name.
LEMMA ParseIs ==
    ASSUME NEW name \in Names
    PROVE  /\ Parse(name).type # "unknown" <=>
                 name.matches /\ (name.prefix # None => name.prefix \in 0..MaxIndex)
           /\ Parse(name).type # "unknown" =>
                 /\ Parse(name).type = name.first
                 /\ Parse(name).hasIndex <=> name.prefix # None
                 /\ name.prefix # None => Parse(name).index = name.prefix
           /\ Parse(name).index \in 0..MaxIndex
<1>1. /\ MaxIndex \in Nat /\ None \notin Nat /\ name.matches \in BOOLEAN
      /\ name.prefix \in Nat \cup {None} /\ name.first \in {"apply", "assert", "errors"}
  BY LoadAssumption DEF Names
<1>2. name.prefix # None => (name.prefix > MaxIndex <=> name.prefix \notin 0..MaxIndex)
  BY <1>1
<1>3. CASE ~name.matches \/ (name.prefix # None /\ name.prefix > MaxIndex)
  BY <1>1, <1>2, <1>3 DEF Parse, Unknown
<1>4. CASE ~(~name.matches \/ (name.prefix # None /\ name.prefix > MaxIndex))
  <2> DEFINE h == name.prefix # None
             n == IF name.prefix = None THEN 0 ELSE name.prefix
  <2>1. Parse(name) = [type |-> name.first, hasIndex |-> h, index |-> n]
    BY <1>4 DEF Parse
  <2>2. h \in BOOLEAN
    OBVIOUS
  <2> HIDE DEF h, n
  <2>3. Parse(name).type = name.first /\ Parse(name).hasIndex = h /\ Parse(name).index = n
    BY <2>1
  <2>4. h <=> name.prefix # None
    BY DEF h
  <2>5. Parse(name).hasIndex <=> name.prefix # None
    BY <2>2, <2>3, <2>4
  <2>6. name.matches /\ (name.prefix # None => name.prefix \in 0..MaxIndex)
    BY <1>1, <1>2, <1>4
  <2>7. name.first # "unknown" /\ n \in 0..MaxIndex /\ (name.prefix # None => n = name.prefix)
    BY <1>1, <2>6 DEF n
  <2> QED BY <2>3, <2>5, <2>6, <2>7
<1> QED BY <1>3, <1>4

\* An entry counts if its name has an index that can be parsed.
LEMMA CollectedIs ==
    ASSUME entries \in Contents, NEW d \in DOMAIN entries
    PROVE  /\ Collected(entries[d]) <=> /\ entries[d].name.matches
                                        /\ ~entries[d].ignored
                                        /\ entries[d].name.prefix \in 0..MaxIndex
           /\ Collected(entries[d]) => Parse(entries[d].name).index = entries[d].name.prefix
<1>1. entries[d].name \in Names /\ entries[d].ignored \in BOOLEAN
  BY EntryType
<1>2. None \notin 0..MaxIndex /\ entries[d].name.matches \in BOOLEAN
  BY <1>1, LoadAssumption DEF Names
<1> QED BY <1>1, <1>2, ParseIs DEF Collected

\* The files that are loaded into a step are those of the properties.
LEMMA OwnedIs ==
    ASSUME entries \in Contents, NEW i \in 0..MaxIndex
    PROVE  CollectTestStepFiles(i) = Owned(i) /\ Owned(i) \subseteq Places
<1>1. \A d \in DOMAIN entries :
         Collected(entries[d]) /\ Parse(entries[d].name).index = i <=>
            /\ entries[d].name.matches
            /\ ~entries[d].ignored
            /\ entries[d].name.prefix = i
  BY CollectedIs
<1>2. {d \in DOMAIN entries : Collected(entries[d]) /\ Parse(entries[d].name).index = i}
         = {d \in DOMAIN entries : /\ entries[d].name.matches
                                   /\ ~entries[d].ignored
                                   /\ entries[d].name.prefix = i}
  BY <1>1
<1>3. CollectTestStepFiles(i) = Owned(i)
  BY <1>2, Zenon DEF CollectTestStepFiles, Owned
<1>4. Owned(i) \subseteq Places
  BY DEF Owned, Places
<1> QED BY <1>3, <1>4

\* The indices that are found are those that StepsInOrder asks for.
LEMMA IndicesAre ==
    ASSUME entries \in Contents
    PROVE  /\ Indices = {e.name.prefix : e \in {d \in Range(entries) :
                           d.name.matches /\ ~d.ignored /\ d.name.prefix \in 0..MaxIndex}}
           /\ Indices \subseteq 0..MaxIndex
<1> DEFINE T == {e.name.prefix : e \in {d \in Range(entries) :
                           d.name.matches /\ ~d.ignored /\ d.name.prefix \in 0..MaxIndex}}
<1>1. ASSUME NEW i \in Indices PROVE i \in T /\ i \in 0..MaxIndex
  <2>1. PICK d \in DOMAIN entries : Collected(entries[d]) /\ i = Parse(entries[d].name).index
    BY DEF Indices
  <2>2. entries[d] \in Range(entries)
    BY DEF Range
  <2> QED BY <2>1, <2>2, CollectedIs
<1>2. ASSUME NEW i \in T PROVE i \in Indices
  <2>1. PICK e \in Range(entries) : /\ e.name.matches /\ ~e.ignored
                                    /\ e.name.prefix \in 0..MaxIndex /\ i = e.name.prefix
    OBVIOUS
  <2>2. PICK d \in DOMAIN entries : e = entries[d]
    BY DEF Range
  <2>3. Collected(entries[d]) /\ i = Parse(entries[d].name).index
    BY <2>1, <2>2, CollectedIs
  <2> QED BY <2>3 DEF Indices
<1> HIDE DEF T
<1>3. Indices = T /\ Indices \subseteq 0..MaxIndex
  BY <1>1, <1>2
<1> QED BY <1>3 DEF T

\* A file that can be loaded has a type and is not skipped, or is skipped.
LEMMA FileIs ==
    ASSUME NEW f \in Files
    PROVE  /\ Skipped(f) <=> ~Selected(f)
           /\ ~Broken(f) /\ ~Skipped(f) => Parse(f.name).type = f.name.first
<1>1. f.objects \in Seq(Objects) /\ f.name \in Names
  BY DEF Files
<1>2. Range(OfKind(f.objects, "TestFile")) = {o \in Range(f.objects) : o.kind = "TestFile"}
  BY <1>1, OnlyRange DEF OfKind
<1>3. Skipped(f) <=> \E i \in DOMAIN f.objects : /\ f.objects[i].kind = "TestFile"
                                                /\ ~f.objects[i].selected
  BY <1>2 DEF Skipped, Range
<1> QED BY <1>1, <1>3, ParseIs DEF Broken, Selected

-----------------------------------------------------------------------------
(* What the parts of LoadYAML do to a step.                                *)

\* Only leaves a list as it is that has objects of these kinds alone.
LEMMA OnlyAll ==
    ASSUME NEW S, NEW s \in Seq(S), NEW K, \A o \in Range(s) : o.kind \in K
    PROVE  Only(s, K) = s
<1> DEFINE G == {r \in Seq(S) : (\A o \in Range(r) : o.kind \in K) => Only(r, K) = r}
<1>1. <<>> \in G
  BY OnlyEmpty
<1>2. ASSUME NEW r \in Seq(S) \cap G, NEW x \in S PROVE Append(r, x) \in G
  <2>1. Range(Append(r, x)) = Range(r) \cup {x} /\ Append(r, x) \in Seq(S)
    BY RangeAppend, AppendProperties
  <2>2. Only(Append(r, x), K) = IF x.kind \in K THEN Append(Only(r, K), x) ELSE Only(r, K)
    BY OnlyAppend
  <2>3. ASSUME \A o \in Range(Append(r, x)) : o.kind \in K
        PROVE  Only(Append(r, x), K) = Append(r, x)
    <3>1. x.kind \in K /\ \A o \in Range(r) : o.kind \in K
      BY <2>1, <2>3
    <3>2. Only(r, K) = r
      BY <3>1
    <3> QED BY <2>2, <3>1, <3>2
  <2> QED BY <2>1, <2>3
<1> HIDE DEF G
<1>3. Seq(S) \subseteq G
  BY <1>1, <1>2, AllLists
<1> QED BY <1>3 DEF G

\* A list without a kind has none of it, and is the list if there was none.
LEMMA WithoutIs ==
    ASSUME NEW s \in Seq(Objects), NEW kind \in Kinds
    PROVE  /\ Without(s, kind) \in Seq(Objects)
           /\ OfKind(Without(s, kind), kind) = <<>>
           /\ \A other \in Kinds \ {kind} : OfKind(Without(s, kind), other) = OfKind(s, other)
           /\ OfKind(s, kind) = <<>> => Without(s, kind) = s
           /\ \A o \in Objects : o.kind # kind => Times(o, Without(s, kind)) = Times(o, s)
<1>1. Without(s, kind) \in Seq(Objects)
  BY OnlyType DEF Without
<1>2. OfKind(Without(s, kind), kind) = <<>>
  <2>1. Range(OfKind(Without(s, kind), kind)) = {o \in Range(Without(s, kind)) : o.kind = kind}
    BY <1>1, OnlyRange DEF OfKind
  <2>2. Range(Without(s, kind)) = {o \in Range(s) : o.kind \in Kinds \ {kind}}
    BY OnlyRange DEF Without
  <2>3. Range(OfKind(Without(s, kind), kind)) = {}
    BY <2>1, <2>2
  <2>4. OfKind(Without(s, kind), kind) \in Seq(Objects)
    BY <1>1, OnlyType DEF OfKind
  <2> QED BY <2>3, <2>4, NoneInRange
<1>3. ASSUME NEW other \in Kinds \ {kind}
      PROVE  OfKind(Without(s, kind), other) = OfKind(s, other)
  <2>1. \A k : k \in {other} <=> k \in Kinds \ {kind} /\ k \in {other}
    OBVIOUS
  <2> QED BY <2>1, OnlyTwice DEF OfKind, Without
<1>4. ASSUME OfKind(s, kind) = <<>> PROVE Without(s, kind) = s
  <2>1. Range(OfKind(s, kind)) = {o \in Range(s) : o.kind = kind}
    BY OnlyRange DEF OfKind
  <2>2. Range(OfKind(s, kind)) = {}
    BY <1>4, RangeEmpty
  <2>3. \A o \in Range(s) : o \in Objects
    BY RangeOfSeq
  <2>4. \A o \in Range(s) : o.kind \in Kinds \ {kind}
    BY <2>1, <2>2, <2>3, LoadAssumption
  <2> QED BY <2>4, OnlyAll DEF Without
<1>5. ASSUME NEW o \in Objects, o.kind # kind PROVE Times(o, Without(s, kind)) = Times(o, s)
  <2>1. o.kind \in Kinds \ {kind}
    BY <1>5, LoadAssumption
  <2> QED BY <2>1, OnlyTimes DEF Without
<1> QED BY <1>1, <1>2, <1>3, <1>4, <1>5

\* What OfKind finds in a list, and in two.
LEMMA OfKindIs ==
    ASSUME NEW s \in Seq(Objects), NEW kind
    PROVE  /\ OfKind(s, kind) \in Seq(Objects)
           /\ OfKind(s, kind) \in Seq(Found(kind))
           /\ Range(OfKind(s, kind)) = {o \in Range(s) : o.kind = kind}
           /\ \A t \in Seq(Objects) : OfKind(s \o t, kind) = OfKind(s, kind) \o OfKind(t, kind)
<1>1. OfKind(s, kind) \in Seq(Objects)
  BY OnlyType DEF OfKind
<1>2. Range(OfKind(s, kind)) = {o \in Range(s) : o.kind = kind}
  BY OnlyRange DEF OfKind
<1>3. \A t \in Seq(Objects) : OfKind(s \o t, kind) = OfKind(s, kind) \o OfKind(t, kind)
  BY OnlyConcat DEF OfKind
<1>4. Range(s) \subseteq Objects
  BY RangeOfSeq
<1>5. Range(OfKind(s, kind)) \subseteq Found(kind)
  BY <1>2, <1>4 DEF Found
<1>6. OfKind(s, kind) \in Seq(Range(OfKind(s, kind)))
  BY <1>1, SeqOfRange
<1>7. OfKind(s, kind) \in Seq(Found(kind))
  BY <1>5, <1>6, SeqMonotonic
<1> QED BY <1>1, <1>2, <1>3, <1>7

\* A list to which a file of this type adds its objects.
Added(list, f, type) ==
    IF f.name.first = type THEN list \o Without(f.objects, "TestFile") ELSE list

Adds(f, type, kind) == IF f.name.first = type THEN OfKind(f.objects, kind) ELSE <<>>

\* What a file adds to the list of its type, by kind and counted.
LEMMA AddedIs ==
    ASSUME NEW list \in Seq(Objects), NEW f \in Files, NEW type
    PROVE  /\ Added(list, f, type) \in Seq(Objects)
           /\ \A kind \in Kinds \ {"TestFile"} :
                 OfKind(Added(list, f, type), kind) = OfKind(list, kind) \o Adds(f, type, kind)
           /\ \A o \in Objects : o.kind # "TestFile" =>
                 Times(o, Added(list, f, type)) =
                    Times(o, list) + (IF f.name.first = type THEN Times(o, f.objects) ELSE 0)
<1> DEFINE objects == Without(f.objects, "TestFile")
<1>1. f.objects \in Seq(Objects) /\ "TestFile" \in Kinds
  BY DEF Files, Kinds
<1>2. /\ objects \in Seq(Objects)
      /\ \A kind \in Kinds \ {"TestFile"} : OfKind(objects, kind) = OfKind(f.objects, kind)
      /\ \A o \in Objects : o.kind # "TestFile" => Times(o, objects) = Times(o, f.objects)
  BY <1>1, WithoutIs
<1>3. Added(list, f, type) = IF f.name.first = type THEN list \o objects ELSE list
  BY DEF Added
<1> HIDE DEF objects
<1>4. Added(list, f, type) \in Seq(Objects)
  BY <1>2, <1>3, ConcatProperties
<1>5. \A kind : OfKind(list, kind) \in Seq(Objects)
  BY OfKindIs
<1>6. \A kind : OfKind(list, kind) \o <<>> = OfKind(list, kind)
  BY <1>5, ConcatEmptySeq
<1>7. \A kind : OfKind(list \o objects, kind) = OfKind(list, kind) \o OfKind(objects, kind)
  BY <1>2, OfKindIs
<1>8. \A o : /\ Times(o, list) \in Nat
           /\ Times(o, list \o objects) = Times(o, list) + Times(o, objects)
  BY <1>2, TimesType, TimesConcat
<1>9. ASSUME NEW kind \in Kinds \ {"TestFile"}
      PROVE  OfKind(Added(list, f, type), kind) = OfKind(list, kind) \o Adds(f, type, kind)
  BY <1>2, <1>3, <1>6, <1>7, Zenon DEF Adds
<1>10. ASSUME NEW o \in Objects, o.kind # "TestFile"
       PROVE  Times(o, Added(list, f, type)) =
                 Times(o, list) + (IF f.name.first = type THEN Times(o, f.objects) ELSE 0)
  BY <1>2, <1>3, <1>8, <1>10
<1> QED BY <1>4, <1>9, <1>10

\* populateObjectsByType keeps the form of a step.
LEMMA PopulateIs ==
    ASSUME NEW s \in Steps, NEW f \in Files, Parse(f.name).type = f.name.first
    PROVE  /\ Populate(s, f) = [s EXCEPT !.Asserts = Added(s.Asserts, f, "assert"),
                                         !.Errors = Added(s.Errors, f, "errors"),
                                         !.Apply = Added(s.Apply, f, "apply")]
           /\ Populate(s, f) \in Steps
<1>1. Populate(s, f) = [s EXCEPT !.Asserts = Added(s.Asserts, f, "assert"),
                                 !.Errors = Added(s.Errors, f, "errors"),
                                 !.Apply = Added(s.Apply, f, "apply")]
  BY DEF Populate, Added
<1>2. /\ s.Asserts \in Seq(Objects) /\ s.Errors \in Seq(Objects) /\ s.Apply \in Seq(Objects)
  BY DEF Steps
<1>3. /\ Added(s.Asserts, f, "assert") \in Seq(Objects)
      /\ Added(s.Errors, f, "errors") \in Seq(Objects)
      /\ Added(s.Apply, f, "apply") \in Seq(Objects)
  BY <1>2, AddedIs
<1> QED BY <1>1, <1>3 DEF Steps

\* The loop over the asserts keeps the form of a step.
LEMMA TakeAssertIs ==
    ASSUME NEW s \in Steps
    PROVE  LET found == OfKind(s.Asserts, "TestAssert")
           IN /\ TakeAssert(s) \in Steps
              /\ TakeAssert(s) = [s EXCEPT
                    !.Assert = IF found = <<>> THEN s.Assert ELSE Last(found),
                    !.Asserts = Without(s.Asserts, "TestAssert")]
<1> DEFINE found == OfKind(s.Asserts, "TestAssert")
<1>1. TakeAssert(s) = [s EXCEPT !.Assert = IF found = <<>> THEN s.Assert ELSE Last(found),
                                !.Asserts = Without(s.Asserts, "TestAssert")]
  BY DEF TakeAssert
<1>2. s.Asserts \in Seq(Objects) /\ "TestAssert" \in Kinds
  BY DEF Steps, Kinds
<1>3. found \in Seq(Found("TestAssert")) /\ Without(s.Asserts, "TestAssert") \in Seq(Objects)
  BY <1>2, OfKindIs, WithoutIs
<1> HIDE DEF found
<1>4. found # <<>> => Last(found) \in Found("TestAssert")
  <2>1. found # <<>> => Len(found) \in 1..Len(found)
    BY <1>3, EmptySeq
  <2> QED BY <1>3, <2>1, ElementOfSeq DEF Last
<1>5. TakeAssert(s) \in Steps
  BY <1>1, <1>3, <1>4 DEF Steps
<1> QED BY <1>1, <1>5 DEF found

\* The loop over what to apply does, if the TestStep is valid.
LEMMA TakeStepIs ==
    ASSUME NEW s \in Steps,
           \A o \in Range(OfKind(s.Apply, "TestStep")) : o.loading # "invalid"
    PROVE  LET found == OfKind(s.Apply, "TestStep")
           IN /\ TakeStep(s) \in Steps
              /\ TakeStep(s) = [s EXCEPT
                    !.Step = IF found = <<>> THEN s.Step ELSE Head(found),
                    !.loading = IF found = <<>> THEN s.loading ELSE Head(found).loading,
                    !.Apply = Without(s.Apply, "TestStep")]
<1> DEFINE found == OfKind(s.Apply, "TestStep")
<1>1. s.Apply \in Seq(Objects) /\ "TestStep" \in Kinds
  BY DEF Steps, Kinds
<1>2. /\ found \in Seq(Found("TestStep")) /\ Without(s.Apply, "TestStep") \in Seq(Objects)
      /\ found = <<>> => Without(s.Apply, "TestStep") = s.Apply
  BY <1>1, OfKindIs, WithoutIs
<1>3. TakeStep(s) = IF found = <<>> THEN s
                    ELSE [s EXCEPT !.Step = Head(found), !.loading = Head(found).loading,
                                   !.Apply = Without(s.Apply, "TestStep")]
  BY DEF TakeStep
<1>4. found # <<>> => Head(found) \in Found("TestStep") /\ Head(found) \in Range(found)
  <2> HIDE DEF found
  <2>1. found # <<>> => 1 \in DOMAIN found /\ Head(found) = found[1]
    BY <1>2, EmptySeq
  <2> QED BY <1>2, <2>1, HeadTailProperties DEF Range
<1>5. found # <<>> => Head(found).loading \in {None, "lazy", "eager"}
  <2>1. found # <<>> => Head(found).loading # "invalid"
    BY <1>4
  <2>2. found # <<>> => Head(found) \in Objects /\ Head(found).kind = "TestStep"
    BY <1>4 DEF Found
  <2> QED BY <2>1, <2>2, LoadAssumption
<1> HIDE DEF found
<1>6. TakeStep(s) \in Steps
  BY <1>2, <1>3, <1>4, <1>5 DEF Steps
<1>7. TakeStep(s) = [s EXCEPT !.Step = IF found = <<>> THEN s.Step ELSE Head(found),
                              !.loading = IF found = <<>> THEN s.loading ELSE Head(found).loading,
                              !.Apply = Without(s.Apply, "TestStep")]
  <2>1. CASE found = <<>>
    BY <1>2, <1>3, <2>1 DEF Steps
  <2>2. CASE found # <<>>
    BY <1>3, <2>2
  <2> QED BY <2>1, <2>2
<1> QED BY <1>6, <1>7 DEF found

\* The objects that the TestStep of a step names by their paths.
Named(s, list) == IF s.Step = None THEN <<>> ELSE s.Step[list]

\* What a TestStep names are lists of objects.
LEMMA NamedIs ==
    ASSUME NEW s \in Steps
    PROVE  /\ Named(s, "apply") \in Seq(Objects)
           /\ Named(s, "assert") \in Seq(Objects)
           /\ Named(s, "error") \in Seq(Objects)
<1>1. s.Step # None => s.Step \in Objects /\ s.Step.kind = "TestStep"
  BY DEF Steps, Found
<1>2. s.Step # None => /\ s.Step["apply"] \in Seq(Objects)
                       /\ s.Step["assert"] \in Seq(Objects)
                       /\ s.Step["error"] \in Seq(Objects)
  BY <1>1, LoadAssumption
<1> QED BY <1>2 DEF Named

\* What the TestStep names is added to the three lists, and nothing else changes.
LEMMA AddPathsIs ==
    ASSUME NEW s \in Steps
    PROVE  /\ AddPaths(s) \in Steps
           /\ AddPaths(s).index = s.index /\ AddPaths(s).loading = s.loading
           /\ AddPaths(s).Step = s.Step /\ AddPaths(s).Assert = s.Assert
           /\ AddPaths(s).Apply = s.Apply \o Named(s, "apply")
           /\ AddPaths(s).Asserts = s.Asserts \o Named(s, "assert")
           /\ AddPaths(s).Errors = s.Errors \o Named(s, "error")
<1>1. /\ s.Apply \in Seq(Objects) /\ s.Asserts \in Seq(Objects) /\ s.Errors \in Seq(Objects)
  BY DEF Steps
<1> DEFINE a == s.Apply \o Named(s, "apply")
           b == s.Asserts \o Named(s, "assert")
           c == s.Errors \o Named(s, "error")
<1>2. a \in Seq(Objects) /\ b \in Seq(Objects) /\ c \in Seq(Objects)
  BY <1>1, NamedIs, ConcatProperties
<1>3. CASE s.Step = None
  <2>1. AddPaths(s) = s
    BY <1>3 DEF AddPaths
  <2>2. a = s.Apply /\ b = s.Asserts /\ c = s.Errors
    BY <1>1, <1>3, ConcatEmptySeq DEF Named
  <2> HIDE DEF a, b, c
  <2>3. /\ AddPaths(s).Apply = a /\ AddPaths(s).Asserts = b /\ AddPaths(s).Errors = c
    BY <2>1, <2>2
  <2> QED BY <2>1, <2>3 DEF a, b, c
<1>4. CASE s.Step # None
  <2>1. AddPaths(s) = [s EXCEPT !.Apply = a, !.Asserts = b, !.Errors = c]
    BY <1>4 DEF AddPaths, ObjectsFromPath, Named
  <2> HIDE DEF a, b, c
  <2>2. AddPaths(s) \in Steps
    BY <1>2, <2>1 DEF Steps
  <2>3. /\ AddPaths(s).index = s.index /\ AddPaths(s).loading = s.loading
        /\ AddPaths(s).Step = s.Step /\ AddPaths(s).Assert = s.Assert
        /\ AddPaths(s).Apply = a /\ AddPaths(s).Asserts = b /\ AddPaths(s).Errors = c
    BY <2>1 DEF Steps
  <2> QED BY <2>2, <2>3 DEF a, b, c
<1> QED BY <1>3, <1>4

\* A step after a file is loaded into it.
Load(s, f) == AddPaths(TakeStep(TakeAssert(Populate(s, f))))

\* All of LoadYAML, part by part.
LEMMA LoadIs ==
    ASSUME NEW s \in Steps, NEW f \in Files, Parse(f.name).type = f.name.first,
           ~Refused(s, Populate(s, f))
    PROVE  LET t == Load(s, f)
               apply == Added(s.Apply, f, "apply")
               asserts == Added(s.Asserts, f, "assert")
               found == OfKind(apply, "TestStep")
               last == OfKind(asserts, "TestAssert")
           IN /\ t \in Steps /\ t.index = s.index
              /\ t.Step = IF found = <<>> THEN s.Step ELSE Head(found)
              /\ t.loading = IF found = <<>> THEN s.loading ELSE Head(found).loading
              /\ t.Assert = IF last = <<>> THEN s.Assert ELSE Last(last)
              /\ t.Apply = Without(apply, "TestStep") \o Named(t, "apply")
              /\ t.Asserts = Without(asserts, "TestAssert") \o Named(t, "assert")
              /\ t.Errors = Added(s.Errors, f, "errors") \o Named(t, "error")
              /\ found # <<>> => s.Step = None /\ Len(found) <= 1
<1> DEFINE P == Populate(s, f)
           A == TakeAssert(P)
           B == TakeStep(A)
           t == Load(s, f)
           apply == Added(s.Apply, f, "apply")
           asserts == Added(s.Asserts, f, "assert")
           errors == Added(s.Errors, f, "errors")
           found == OfKind(apply, "TestStep")
           last == OfKind(asserts, "TestAssert")
<1>1. /\ P \in Steps /\ P.index = s.index /\ P.loading = s.loading /\ P.Step = s.Step
      /\ P.Assert = s.Assert /\ P.Apply = apply /\ P.Asserts = asserts /\ P.Errors = errors
  <2>1. P = [s EXCEPT !.Asserts = asserts, !.Errors = errors, !.Apply = apply] /\ P \in Steps
    BY PopulateIs
  <2> HIDE DEF P, apply, asserts, errors
  <2> QED BY <2>1 DEF Steps
<1>2. /\ \A o \in Range(found) : o.loading # "invalid"
      /\ found # <<>> => s.Step = None /\ ~(Len(found) > 1)
  <2>1. found = OfKind(P.Apply, "TestStep")
    BY <1>1
  <2> QED BY <2>1 DEF Refused
<1>3. found # <<>> => Len(found) <= 1
  <2>1. s.Apply \in Seq(Objects)
    BY DEF Steps
  <2>2. apply \in Seq(Objects)
    BY <2>1, AddedIs
  <2>3. found \in Seq(Objects)
    <3> HIDE DEF apply
    <3> QED BY <2>2, OfKindIs
  <2> HIDE DEF found
  <2>4. Len(found) \in Nat
    BY <2>3
  <2> QED BY <1>2, <2>4
<1>4. /\ A \in Steps /\ A.index = s.index /\ A.loading = s.loading /\ A.Step = s.Step
      /\ A.Assert = IF last = <<>> THEN s.Assert ELSE Last(last)
      /\ A.Apply = apply /\ A.Asserts = Without(asserts, "TestAssert") /\ A.Errors = errors
  <2> DEFINE lastP == OfKind(P.Asserts, "TestAssert")
             w == Without(P.Asserts, "TestAssert")
             v == IF lastP = <<>> THEN P.Assert ELSE Last(lastP)
  <2> HIDE DEF P
  <2>1. A \in Steps /\ A = [P EXCEPT !.Assert = v, !.Asserts = w]
    BY <1>1, TakeAssertIs
  <2>2. lastP = last /\ w = Without(asserts, "TestAssert")
        /\ v = IF last = <<>> THEN s.Assert ELSE Last(last)
    BY <1>1
  <2> HIDE DEF A, lastP, w, v, last, asserts, apply, errors
  <2>3. /\ A.index = P.index /\ A.loading = P.loading /\ A.Step = P.Step /\ A.Assert = v
        /\ A.Apply = P.Apply /\ A.Asserts = w /\ A.Errors = P.Errors
    BY <1>1, <2>1 DEF Steps
  <2> QED BY <1>1, <2>1, <2>2, <2>3
<1>5. /\ B \in Steps /\ B.index = s.index
      /\ B.Step = IF found = <<>> THEN s.Step ELSE Head(found)
      /\ B.loading = IF found = <<>> THEN s.loading ELSE Head(found).loading
      /\ B.Assert = A.Assert /\ B.Asserts = A.Asserts
      /\ B.Apply = Without(apply, "TestStep") /\ B.Errors = errors
  <2> DEFINE foundA == OfKind(A.Apply, "TestStep")
             w == Without(A.Apply, "TestStep")
             u == IF foundA = <<>> THEN A.Step ELSE Head(foundA)
             v == IF foundA = <<>> THEN A.loading ELSE Head(foundA).loading
  <2>0. foundA = found /\ w = Without(apply, "TestStep")
    BY <1>4
  <2> HIDE DEF A
  <2>1. B \in Steps /\ B = [A EXCEPT !.Step = u, !.loading = v, !.Apply = w]
    <3>1. \A o \in Range(foundA) : o.loading # "invalid"
      BY <1>2, <2>0
    <3> QED BY <1>4, <3>1, TakeStepIs
  <2>2. /\ u = IF found = <<>> THEN s.Step ELSE Head(found)
        /\ v = IF found = <<>> THEN s.loading ELSE Head(found).loading
    BY <1>4, <2>0
  <2> HIDE DEF B, foundA, w, u, v, found, apply, errors
  <2>3. /\ B.index = A.index /\ B.Step = u /\ B.loading = v /\ B.Assert = A.Assert
        /\ B.Asserts = A.Asserts /\ B.Apply = w /\ B.Errors = A.Errors
    BY <1>4, <2>1 DEF Steps
  <2> QED BY <1>4, <2>0, <2>1, <2>2, <2>3
<1>6. t = AddPaths(B)
  BY DEF Load
<1> HIDE DEF P, A, B, t, apply, asserts, errors, found, last
<1>7. /\ t \in Steps /\ t.index = B.index /\ t.loading = B.loading /\ t.Step = B.Step
      /\ t.Assert = B.Assert
      /\ t.Apply = B.Apply \o Named(B, "apply")
      /\ t.Asserts = B.Asserts \o Named(B, "assert")
      /\ t.Errors = B.Errors \o Named(B, "error")
  BY <1>5, <1>6, AddPathsIs
<1>8. \A list : Named(t, list) = Named(B, list)
  BY <1>7 DEF Named
<1>9. /\ t \in Steps /\ t.index = s.index
      /\ t.Step = IF found = <<>> THEN s.Step ELSE Head(found)
      /\ t.loading = IF found = <<>> THEN s.loading ELSE Head(found).loading
      /\ t.Assert = IF last = <<>> THEN s.Assert ELSE Last(last)
      /\ t.Apply = Without(apply, "TestStep") \o Named(t, "apply")
      /\ t.Asserts = Without(asserts, "TestAssert") \o Named(t, "assert")
      /\ t.Errors = errors \o Named(t, "error")
      /\ found # <<>> => s.Step = None /\ Len(found) <= 1
  BY <1>2, <1>3, <1>4, <1>5, <1>7, <1>8, Zenon
<1> QED BY <1>9 DEF t, apply, asserts, errors, found, last

-----------------------------------------------------------------------------
(* The files that were loaded so far, D, in place of all files of a step.  *)

UsedIn(D, type) == {p \in D : Selected(File(p)) /\ File(p).name.first = type}
UsedAllIn(D) == UNION {UsedIn(D, type) : type \in {"apply", "assert", "errors"}}
StepsIn(D) == {p \in UsedIn(D, "apply") : OfKind(File(p).objects, "TestStep") # <<>>}
AssertsIn(D) == {p \in UsedIn(D, "assert") : OfKind(File(p).objects, "TestAssert") # <<>>}
RoundsIn(D) == {p \in UsedAllIn(D) : \A q \in StepsIn(D) : ~Before(p, q)}

\* No two places are before each other.
LEMMA BeforeIs ==
    ASSUME entries \in Contents, NEW p \in Places, NEW q \in Places
    PROVE  /\ ~Before(p, p)
           /\ Before(p, q) => ~Before(q, p)
<1>1. p[1] \in Nat /\ p[2] \in Nat /\ q[1] \in Nat /\ q[2] \in Nat
  BY FileType
<1> QED BY <1>1 DEF Before

\* All files that are used are those that are selected.
LEMMA UsedAllIs ==
    ASSUME entries \in Contents, NEW D \in SUBSET Places
    PROVE  UsedAllIn(D) = {p \in D : Selected(File(p))}
<1>1. \A p \in D : File(p).name.first \in {"apply", "assert", "errors"}
  BY FileType DEF Names
<1>2. ASSUME NEW p \in UsedAllIn(D) PROVE p \in D /\ Selected(File(p))
  BY DEF UsedAllIn, UsedIn
<1>3. ASSUME NEW p \in D, Selected(File(p)) PROVE p \in UsedAllIn(D)
  <2>1. p \in UsedIn(D, File(p).name.first)
    BY <1>3 DEF UsedIn
  <2> QED BY <1>1, <2>1 DEF UsedAllIn
<1> QED BY <1>2, <1>3

\* A file that is skipped changes nothing.
LEMMA SkippedCountsNot ==
    ASSUME entries \in Contents, NEW D \in SUBSET Places, NEW p \in Places, Skipped(File(p))
    PROVE  /\ \A type : UsedIn(D \cup {p}, type) = UsedIn(D, type)
           /\ StepsIn(D \cup {p}) = StepsIn(D)
           /\ AssertsIn(D \cup {p}) = AssertsIn(D)
           /\ RoundsIn(D \cup {p}) = RoundsIn(D)
<1>1. ~Selected(File(p))
  BY FileType, FileIs
<1>2. \A type : UsedIn(D \cup {p}, type) = UsedIn(D, type)
  BY <1>1 DEF UsedIn
<1>3. StepsIn(D \cup {p}) = StepsIn(D) /\ AssertsIn(D \cup {p}) = AssertsIn(D)
  BY <1>2 DEF StepsIn, AssertsIn
<1>4. UsedAllIn(D \cup {p}) = UsedAllIn(D)
  BY <1>1, UsedAllIs
<1>5. RoundsIn(D \cup {p}) = RoundsIn(D)
  BY <1>3, <1>4 DEF RoundsIn
<1> QED BY <1>2, <1>3, <1>5

\* The last file counts in the sets of its type.
LEMMA UsedWith ==
    ASSUME entries \in Contents, NEW D \in SUBSET Places, NEW p \in Places, ~Skipped(File(p))
    PROVE  /\ \A type : UsedIn(D \cup {p}, type) =
                 IF File(p).name.first = type THEN UsedIn(D, type) \cup {p} ELSE UsedIn(D, type)
           /\ StepsIn(D \cup {p}) =
                 IF File(p).name.first = "apply" /\ OfKind(File(p).objects, "TestStep") # <<>>
                 THEN StepsIn(D) \cup {p} ELSE StepsIn(D)
           /\ AssertsIn(D \cup {p}) =
                 IF File(p).name.first = "assert" /\ OfKind(File(p).objects, "TestAssert") # <<>>
                 THEN AssertsIn(D) \cup {p} ELSE AssertsIn(D)
<1>1. Selected(File(p))
  BY FileType, FileIs
<1>2. \A type : UsedIn(D \cup {p}, type) =
         IF File(p).name.first = type THEN UsedIn(D, type) \cup {p} ELSE UsedIn(D, type)
  BY <1>1 DEF UsedIn
<1>3. StepsIn(D \cup {p}) =
         IF File(p).name.first = "apply" /\ OfKind(File(p).objects, "TestStep") # <<>>
         THEN StepsIn(D) \cup {p} ELSE StepsIn(D)
  <2> DEFINE U == UsedIn(D \cup {p}, "apply")
             V == UsedIn(D, "apply")
             Has(q) == OfKind(File(q).objects, "TestStep") # <<>>
  <2>1. U = IF File(p).name.first = "apply" THEN V \cup {p} ELSE V
    BY <1>2
  <2>2. StepsIn(D \cup {p}) = {q \in U : Has(q)} /\ StepsIn(D) = {q \in V : Has(q)}
    BY DEF StepsIn
  <2> HIDE DEF U, V, Has
  <2>3. CASE File(p).name.first = "apply"
    <3>1. {q \in U : Has(q)} = IF Has(p) THEN {q \in V : Has(q)} \cup {p} ELSE {q \in V : Has(q)}
      BY <2>1, <2>3
    <3> QED BY <2>2, <2>3, <3>1 DEF Has
  <2>4. CASE File(p).name.first # "apply"
    BY <2>1, <2>2, <2>4
  <2> QED BY <2>3, <2>4
<1>4. AssertsIn(D \cup {p}) =
         IF File(p).name.first = "assert" /\ OfKind(File(p).objects, "TestAssert") # <<>>
         THEN AssertsIn(D) \cup {p} ELSE AssertsIn(D)
  <2> DEFINE U == UsedIn(D \cup {p}, "assert")
             V == UsedIn(D, "assert")
             Has(q) == OfKind(File(q).objects, "TestAssert") # <<>>
  <2>1. U = IF File(p).name.first = "assert" THEN V \cup {p} ELSE V
    BY <1>2
  <2>2. AssertsIn(D \cup {p}) = {q \in U : Has(q)} /\ AssertsIn(D) = {q \in V : Has(q)}
    BY DEF AssertsIn
  <2> HIDE DEF U, V, Has
  <2>3. CASE File(p).name.first = "assert"
    <3>1. {q \in U : Has(q)} = IF Has(p) THEN {q \in V : Has(q)} \cup {p} ELSE {q \in V : Has(q)}
      BY <2>1, <2>3
    <3> QED BY <2>2, <2>3, <3>1 DEF Has
  <2>4. CASE File(p).name.first # "assert"
    BY <2>1, <2>2, <2>4
  <2> QED BY <2>3, <2>4
<1> QED BY <1>2, <1>3, <1>4

\* The paths of a TestStep are loaded once for its own file and for every
\* one after it.
LEMMA RoundsWith ==
    ASSUME entries \in Contents, NEW D \in SUBSET Places, NEW p \in Places \ D,
           ~Skipped(File(p)), \A q \in D : Before(q, p)
    PROVE  /\ StepsIn(D \cup {p}) = StepsIn(D) =>
                 Cardinality(RoundsIn(D \cup {p})) = Cardinality(RoundsIn(D)) + 1
           /\ StepsIn(D \cup {p}) = {p} => Cardinality(RoundsIn(D \cup {p})) = 1
           /\ Cardinality(RoundsIn(D)) \in Nat
<1>1. Selected(File(p))
  BY FileType, FileIs
<1>2. UsedAllIn(D \cup {p}) = UsedAllIn(D) \cup {p} /\ UsedAllIn(D) \subseteq D
  BY <1>1, UsedAllIs
<1>3. StepsIn(D) \subseteq D
  BY DEF StepsIn, UsedIn
<1>4. ~Before(p, p) /\ \A q \in D : ~Before(p, q)
  BY BeforeIs
<1>5. IsFiniteSet(RoundsIn(D)) /\ p \notin RoundsIn(D)
  <2>1. RoundsIn(D) \subseteq D
    BY <1>2 DEF RoundsIn
  <2> QED BY <2>1, PlacesFinite, FS_Subset
<1>6. StepsIn(D \cup {p}) = StepsIn(D) => RoundsIn(D \cup {p}) = RoundsIn(D) \cup {p}
  BY <1>2, <1>3, <1>4 DEF RoundsIn
<1>7. StepsIn(D \cup {p}) = {p} => RoundsIn(D \cup {p}) = {p}
  BY <1>2, <1>4 DEF RoundsIn
<1>8. Cardinality(RoundsIn(D)) \in Nat
      /\ Cardinality(RoundsIn(D) \cup {p}) = Cardinality(RoundsIn(D)) + 1
  BY <1>5, FS_AddElement, FS_CardinalityType
<1>9. Cardinality({p}) = 1
  BY FS_Singleton
<1> QED BY <1>6, <1>7, <1>8, <1>9

\* How often an object is in the files of these places.
LEMMA TimesInWith ==
    ASSUME entries \in Contents, NEW P \in SUBSET Places, NEW p \in Places \ P, NEW o
    PROVE  /\ TimesIn(o, {}) = 0
           /\ TimesIn(o, P) \in Nat
           /\ TimesIn(o, P \cup {p}) = TimesIn(o, P) + Times(o, File(p).objects)
<1> DEFINE I(q) == {i \in DOMAIN File(q).objects : File(q).objects[i] = o}
           In(q) == {q} \X I(q)
           All(Q) == UNION {In(q) : q \in Q}
<1>1. \A Q : TimesIn(o, Q) = Cardinality(All(Q))
  BY DEF TimesIn
<1>2. \A q : Times(o, File(q).objects) = Cardinality(I(q))
  BY DEF Times
<1>3. ASSUME NEW q \in Places
      PROVE  IsFiniteSet(I(q)) /\ IsFiniteSet(In(q)) /\ Cardinality(In(q)) = Cardinality(I(q))
  <2>1. File(q).objects \in Seq(Objects)
    BY FileType
  <2>2. DOMAIN File(q).objects = 1..Len(File(q).objects) /\ Len(File(q).objects) \in Nat
    BY <2>1, LenProperties
  <2>3. IsFiniteSet(DOMAIN File(q).objects)
    BY <2>2, FS_Interval
  <2>4. IsFiniteSet(I(q))
    BY <2>3, FS_Subset
  <2>5. IsFiniteSet({q}) /\ Cardinality({q}) = 1
    BY FS_Singleton
  <2> HIDE DEF I
  <2>6. IsFiniteSet(In(q)) /\ Cardinality(In(q)) = 1 * Cardinality(I(q))
    BY <2>4, <2>5, FS_Product
  <2>7. Cardinality(I(q)) \in Nat
    BY <2>4, FS_CardinalityType
  <2> QED BY <2>4, <2>6, <2>7
<1>4. IsFiniteSet(P)
  BY PlacesFinite, FS_Subset
<1>5. IsFiniteSet(All(P))
  <2> HIDE DEF In
  <2> DEFINE h == [q \in P |-> In(q)]
             T == {In(q) : q \in P}
  <2>1. h \in Surjection(P, T)
    BY DEF Surjection
  <2>2. \A V \in T : IsFiniteSet(V)
    BY <1>3
  <2> HIDE DEF h, T
  <2>3. IsFiniteSet(T)
    BY <1>4, <2>1, FS_Surjection
  <2>4. IsFiniteSet(UNION T)
    BY <2>2, <2>3, FS_UNION
  <2> QED BY <2>4 DEF T
<1>6. All(P \cup {p}) = All(P) \cup In(p)
  <2> HIDE DEF In
  <2> QED OBVIOUS
<1>7. All(P) \cap In(p) = {}
  <2>1. \A q, x : x \in In(q) => x[1] = q
    OBVIOUS
  <2> HIDE DEF In
  <2> QED BY <2>1
<1>8. All({}) = {}
  OBVIOUS
<1> HIDE DEF All, In
<1>9. Cardinality(All(P) \cup In(p)) = Cardinality(All(P)) + Cardinality(In(p))
  <2>1. Cardinality(All(P)) \in Nat /\ Cardinality(In(p)) \in Nat
    BY <1>3, <1>5, FS_CardinalityType
  <2>2. Cardinality(All(P) \cap In(p)) = 0
    BY <1>7, FS_EmptySet
  <2>3. Cardinality(All(P) \cup In(p)) =
           Cardinality(All(P)) + Cardinality(In(p)) - Cardinality(All(P) \cap In(p))
    BY <1>3, <1>5, FS_Union
  <2> QED BY <2>1, <2>2, <2>3
<1>10. TimesIn(o, {}) = 0
  BY <1>1, <1>8, FS_EmptySet
<1>11. TimesIn(o, P) \in Nat
  BY <1>1, <1>5, FS_CardinalityType
<1>12. TimesIn(o, P \cup {p}) = TimesIn(o, P) + Times(o, File(p).objects)
  <2> HIDE DEF I
  <2> QED BY <1>1, <1>2, <1>3, <1>6, <1>9
<1> QED BY <1>10, <1>11, <1>12

-----------------------------------------------------------------------------
(* What a step has in it after the files D.                                *)

\* The TestStep of the files, if there is one, and none in what is left to
\* apply, but for one that it names itself: the next file finds that.
StepTaken(s, D) ==
    /\ \A p, q \in StepsIn(D) : p = q
    /\ \A p \in StepsIn(D) : /\ OfKind(File(p).objects, "TestStep") = <<s.Step>>
                             /\ s.loading = s.Step.loading
    /\ StepsIn(D) = {} => /\ s.Step = None /\ s.loading = None
                          /\ OfKind(s.Apply, "TestStep") = <<>>
    /\ OfKind(s.Apply, "TestStep") # <<>> => Cardinality(RoundsIn(D)) = 1
    /\ OfKind(s.Apply, "TestStep") = <<>> => OfKind(Named(s, "apply"), "TestStep") = <<>>

\* The TestAssert of the last file that has one, and none in the list, if
\* the TestStep names none.
AssertTaken(s, D) ==
    OfKind(Named(s, "assert"), "TestAssert") = <<>> =>
       /\ OfKind(s.Asserts, "TestAssert") = <<>>
       /\ AssertsIn(D) = {} => s.Assert = None
       /\ \A p \in AssertsIn(D) :
             (\A q \in AssertsIn(D) : ~Before(p, q))
             => s.Assert = Last(OfKind(File(p).objects, "TestAssert"))

\* Every object of the files is in a list as often as in the files of its
\* type, and those that the TestStep names once for each file from its own.
Counted(s, D, list, type, paths) ==
    \A o \in Objects : o.kind = "plain" =>
       Times(o, list) = TimesIn(o, UsedIn(D, type))
          + (IF s.Step = None THEN 0 ELSE Cardinality(RoundsIn(D)) * Times(o, paths))

ObjectsTaken(s, D) ==
    /\ Counted(s, D, s.Apply, "apply", Named(s, "apply"))
    /\ Counted(s, D, s.Asserts, "assert", Named(s, "assert"))
    /\ Counted(s, D, s.Errors, "errors", Named(s, "error"))

Taken(s, D) == StepTaken(s, D) /\ AssertTaken(s, D) /\ ObjectsTaken(s, D)

\* Nothing is in a step before its first file.
LEMMA TakenFromNothing ==
    ASSUME entries \in Contents, NEW i \in 0..MaxIndex
    PROVE  NewStep(i) \in Steps /\ Taken(NewStep(i), {})
<1> DEFINE s == NewStep(i)
<1>1. /\ s.index = i /\ s.loading = None /\ s.Step = None /\ s.Assert = None
      /\ s.Asserts = <<>> /\ s.Errors = <<>> /\ s.Apply = <<>>
  BY DEF NewStep
<1>2. s \in Steps
  BY DEF NewStep, Steps
<1>3. \A type : UsedIn({}, type) = {}
  BY DEF UsedIn
<1>4. StepsIn({}) = {} /\ AssertsIn({}) = {}
  BY <1>3 DEF StepsIn, AssertsIn
<1>5. \A kind : OfKind(<<>>, kind) = <<>>
  BY OnlyEmpty DEF OfKind
<1>6. \A o : TimesIn(o, {}) = 0
  <2> TAKE o
  <2>1. UNION {{p} \X {j \in DOMAIN File(p).objects : File(p).objects[j] = o} : p \in {}} = {}
    OBVIOUS
  <2> QED BY <2>1, FS_EmptySet DEF TimesIn
<1>7. \A list : Named(s, list) = <<>>
  BY <1>1 DEF Named
<1> HIDE DEF s
<1>8. StepTaken(s, {})
  BY <1>1, <1>4, <1>5, <1>7 DEF StepTaken
<1>9. AssertTaken(s, {})
  BY <1>1, <1>4, <1>5 DEF AssertTaken
<1>10. ObjectsTaken(s, {})
  <2>1. \A o : Times(o, <<>>) = 0
    BY TimesEmpty
  <2>2. \A type, paths : Counted(s, {}, <<>>, type, paths)
    <3>1. ASSUME NEW type, NEW o PROVE Times(o, <<>>) = TimesIn(o, UsedIn({}, type)) + 0
      <4>1. UsedIn({}, type) = {}
        BY <1>3
      <4>2. TimesIn(o, UsedIn({}, type)) = 0
        BY <1>6, <4>1, Zenon
      <4>3. Times(o, <<>>) = 0
        BY <2>1
      <4> QED BY <4>2, <4>3
    <3> QED BY <1>1, <3>1 DEF Counted
  <2> QED BY <1>1, <2>2 DEF ObjectsTaken
<1> QED BY <1>2, <1>8, <1>9, <1>10 DEF Taken, s

\* A file that is skipped says nothing.
LEMMA TakenSkips ==
    ASSUME entries \in Contents, NEW D \in SUBSET Places, NEW p \in Places, Skipped(File(p)),
           NEW s, Taken(s, D)
    PROVE  Taken(s, D \cup {p})
<1> DEFINE E == D \cup {p}
<1>1. /\ \A type : UsedIn(E, type) = UsedIn(D, type)
      /\ StepsIn(E) = StepsIn(D) /\ AssertsIn(E) = AssertsIn(D) /\ RoundsIn(E) = RoundsIn(D)
  BY SkippedCountsNot
<1> HIDE DEF E
<1>2. StepTaken(s, E) /\ AssertTaken(s, E)
  BY <1>1 DEF Taken, StepTaken, AssertTaken
<1>3. ObjectsTaken(s, E)
  BY <1>1 DEF Taken, ObjectsTaken, Counted
<1> QED BY <1>2, <1>3 DEF Taken, E

\* A file can be loaded as the next one.
Loadable(s, D, p) ==
    /\ entries \in Contents /\ D \in SUBSET Places /\ p \in Places \ D
    /\ \A q \in D : Before(q, p)
    /\ s \in Steps /\ Taken(s, D)
    /\ ~Broken(File(p)) /\ ~Skipped(File(p)) /\ ~Refused(s, Populate(s, File(p)))

\* The TestStep is that of this file or the one before.
LEMMA LoadTakesStep ==
    ASSUME NEW s, NEW D, NEW p, Loadable(s, D, p)
    PROVE  LET t == Load(s, File(p))
           IN /\ StepTaken(t, D \cup {p})
              /\ s.Step # None => t.Step = s.Step /\ StepsIn(D \cup {p}) = StepsIn(D)
              /\ s.Step = None /\ t.Step # None => StepsIn(D \cup {p}) = {p}
<1> DEFINE f == File(p)
           t == Load(s, f)
           E == D \cup {p}
           apply == Added(s.Apply, f, "apply")
           found == OfKind(apply, "TestStep")
           mine == Adds(f, "apply", "TestStep")
           before == OfKind(s.Apply, "TestStep")
           named == OfKind(Named(t, "apply"), "TestStep")
<1>1. /\ entries \in Contents /\ D \in SUBSET Places /\ p \in Places \ D
      /\ \A q \in D : Before(q, p)
      /\ s \in Steps /\ StepTaken(s, D)
      /\ ~Broken(f) /\ ~Skipped(f) /\ ~Refused(s, Populate(s, f))
  BY DEF Loadable, Taken
<1>2. f \in Files /\ f.objects \in Seq(Objects)
  BY <1>1, FileType
<1>3. Parse(f.name).type = f.name.first
  BY <1>1, <1>2, FileIs
<1>4. /\ t \in Steps
      /\ t.Step = IF found = <<>> THEN s.Step ELSE Head(found)
      /\ t.loading = IF found = <<>> THEN s.loading ELSE Head(found).loading
      /\ t.Apply = Without(apply, "TestStep") \o Named(t, "apply")
      /\ found # <<>> => s.Step = None /\ Len(found) <= 1
  <2> HIDE DEF f
  <2> QED BY <1>1, <1>2, <1>3, LoadIs
<1>5. s.Apply \in Seq(Objects) /\ "TestStep" \in Kinds \ {"TestFile"} /\ "TestStep" \in Kinds
  BY <1>1 DEF Steps, Kinds
<1>6. /\ apply \in Seq(Objects) /\ found = before \o mine
  <2> HIDE DEF f
  <2>1. apply \in Seq(Objects)
    BY <1>2, <1>5, AddedIs
  <2>2. OfKind(Added(s.Apply, f, "apply"), "TestStep") =
           OfKind(s.Apply, "TestStep") \o Adds(f, "apply", "TestStep")
    BY <1>2, <1>5, AddedIs
  <2> QED BY <2>1, <2>2
<1>7. /\ before \in Seq(Found("TestStep")) /\ mine \in Seq(Found("TestStep"))
      /\ found \in Seq(Found("TestStep"))
  <2>1. OfKind(f.objects, "TestStep") \in Seq(Found("TestStep"))
    BY <1>2, OfKindIs
  <2>2. <<>> \in Seq(Found("TestStep"))
    OBVIOUS
  <2>3. mine \in Seq(Found("TestStep"))
    BY <2>1, <2>2 DEF Adds
  <2>4. before \in Seq(Found("TestStep"))
    BY <1>5, OfKindIs
  <2>5. found \in Seq(Found("TestStep"))
    <3> HIDE DEF apply
    <3> QED BY <1>6, OfKindIs
  <2> QED BY <2>3, <2>4, <2>5
<1>8. /\ found = <<>> <=> before = <<>> /\ mine = <<>>
      /\ before = <<>> => found = mine
  <2> HIDE DEF found, before, mine
  <2>1. before \o mine = <<>> <=> before = <<>> /\ mine = <<>>
    BY <1>7, ConcatEqualIffEmpty
  <2>2. <<>> \o mine = mine
    BY <1>7, ConcatEmptySeq
  <2> QED BY <1>6, <2>1, <2>2
<1>9. OfKind(t.Apply, "TestStep") = named
  <2> DEFINE w == Without(apply, "TestStep")
             n == Named(t, "apply")
  <2> HIDE DEF apply, t
  <2>1. w \in Seq(Objects) /\ OfKind(w, "TestStep") = <<>>
    BY <1>5, <1>6, WithoutIs
  <2>2. n \in Seq(Objects)
    BY <1>4, NamedIs
  <2> HIDE DEF w, n
  <2>3. OfKind(w \o n, "TestStep") = OfKind(w, "TestStep") \o OfKind(n, "TestStep")
        /\ OfKind(n, "TestStep") \in Seq(Objects)
    BY <2>1, <2>2, OfKindIs
  <2>4. OfKind(w \o n, "TestStep") = OfKind(n, "TestStep")
    BY <2>1, <2>3, ConcatEmptySeq
  <2> QED BY <1>4, <2>4 DEF w, n
<1>10. /\ StepsIn(E) = IF mine # <<>> THEN StepsIn(D) \cup {p} ELSE StepsIn(D)
  <2> DEFINE has == f.name.first = "apply" /\ OfKind(f.objects, "TestStep") # <<>>
  <2>1. StepsIn(E) = IF has THEN StepsIn(D) \cup {p} ELSE StepsIn(D)
    BY <1>1, UsedWith
  <2>2. has <=> mine # <<>>
    BY DEF Adds
  <2> HIDE DEF has, mine, E
  <2> QED BY <2>1, <2>2
<1>11. s.Step = None => StepsIn(D) = {} /\ before = <<>> /\ s.loading = None
  <2>1. ASSUME s.Step = None, NEW q \in StepsIn(D) PROVE FALSE
    <3>1. OfKind(File(q).objects, "TestStep") = <<None>>
      BY <1>1, <2>1 DEF StepTaken
    <3>2. q \in Places
      BY <1>1 DEF StepsIn, UsedIn
    <3>3. OfKind(File(q).objects, "TestStep") \in Seq(Objects)
      BY <1>1, <3>2, FileType, OfKindIs
    <3>4. <<None>>[1] = None /\ Len(<<None>>) = 1
      OBVIOUS
    <3>5. None \in Objects
      BY <3>1, <3>3, <3>4
    <3> QED BY <3>5, LoadAssumption
  <2> QED BY <1>1, <2>1 DEF StepTaken
<1>12. s.Step # None => StepsIn(D) # {}
  BY <1>1 DEF StepTaken
<1>13. CASE s.Step # None
  <2>1. found = <<>> /\ before = <<>> /\ mine = <<>>
    BY <1>4, <1>8, <1>13
  <2>2. t.Step = s.Step /\ t.loading = s.loading /\ StepsIn(E) = StepsIn(D)
    BY <1>4, <1>10, <2>1
  <2>3. named = <<>>
    <3>1. OfKind(Named(s, "apply"), "TestStep") = <<>>
      BY <1>1, <2>1 DEF StepTaken
    <3>2. Named(t, "apply") = Named(s, "apply")
      BY <2>2 DEF Named
    <3> QED BY <3>1, <3>2
  <2> HIDE DEF t, E, found, before, mine
  <2>4. StepTaken(t, E)
    <3>1. OfKind(t.Apply, "TestStep") = <<>>
      BY <1>9, <2>3
    <3>2. StepTaken(s, D)
      BY <1>1
    <3>3. StepsIn(E) # {}
      BY <1>12, <1>13, <2>2
    <3>4. \A a, b \in StepsIn(E) : a = b
      BY <2>2, <3>2 DEF StepTaken
    <3>5. \A a \in StepsIn(E) : /\ OfKind(File(a).objects, "TestStep") = <<t.Step>>
                                /\ t.loading = t.Step.loading
      BY <2>2, <3>2 DEF StepTaken
    <3> QED BY <2>3, <3>1, <3>3, <3>4, <3>5 DEF StepTaken
  <2> QED BY <1>13, <2>2, <2>4 DEF t, E
<1>14. CASE s.Step = None /\ mine = <<>>
  <2>1. found = <<>>
    BY <1>8, <1>11, <1>14
  <2>2. t.Step = None /\ t.loading = None /\ StepsIn(E) = {}
    BY <1>4, <1>10, <1>11, <1>14, <2>1
  <2>3. named = <<>>
    <3>1. Named(t, "apply") = <<>>
      BY <2>2 DEF Named
    <3> QED BY <3>1, OnlyEmpty DEF OfKind
  <2> HIDE DEF t, E, found, before, mine
  <2>4. StepTaken(t, E)
    BY <1>9, <2>2, <2>3 DEF StepTaken
  <2> QED BY <1>14, <2>2, <2>4 DEF t, E
<1>15. CASE s.Step = None /\ mine # <<>>
  <2>1. found = mine /\ found # <<>> /\ Len(found) <= 1
    BY <1>4, <1>8, <1>11, <1>15
  <2>2. StepsIn(E) = {p}
    BY <1>10, <1>11, <1>15
  <2>3. t.Step = Head(found) /\ t.loading = Head(found).loading
    BY <1>4, <2>1
  <2>4. found = <<Head(found)>>
    <3> HIDE DEF found, mine
    <3>1. Len(found) = 1 /\ Head(found) = found[1] /\ found[1] \in Found("TestStep")
      <4>1. Len(found) \in Nat \ {0}
        BY <1>7, <2>1, EmptySeq
      <4>2. Len(found) = 1
        BY <2>1, <4>1
      <4>3. found # <<>> => 1 \in DOMAIN found /\ Head(found) = found[1]
        BY <1>7, EmptySeq
      <4>4. found[1] \in Found("TestStep")
        <5>1. 1 \in 1..Len(found)
          BY <4>2
        <5>2. found \in Seq(Found("TestStep"))
          BY <1>7
        <5> QED BY <5>1, <5>2, ElementOfSeq
      <4> QED BY <2>1, <4>2, <4>3, <4>4
    <3> DEFINE x == Head(found)
    <3>2. <<x>> \in Seq(Found("TestStep")) /\ Len(<<x>>) = 1 /\ <<x>>[1] = x
      BY <3>1
    <3>3. \A i \in 1..Len(found) : found[i] = <<x>>[i]
      BY <3>1, <3>2
    <3> HIDE DEF x
    <3>4. found = <<x>>
      BY <1>7, <3>1, <3>2, <3>3, SeqEqual
    <3> QED BY <3>4 DEF x
  <2>5. OfKind(f.objects, "TestStep") = found
    BY <2>1, <1>15 DEF Adds
  <2>6. Cardinality(RoundsIn(E)) = 1
    BY <1>1, <2>2, RoundsWith
  <2> HIDE DEF t, E, found, before, mine
  <2>7. StepTaken(t, E)
    <3>1. \A a, b \in StepsIn(E) : a = b
      BY <2>2
    <3>2. \A a \in StepsIn(E) : /\ OfKind(File(a).objects, "TestStep") = <<t.Step>>
                                /\ t.loading = t.Step.loading
      BY <2>2, <2>3, <2>4, <2>5
    <3>3. StepsIn(E) # {}
      BY <2>2
    <3> QED BY <1>9, <2>6, <3>1, <3>2, <3>3 DEF StepTaken
  <2> QED BY <1>15, <2>2, <2>7 DEF t, E
<1> QED BY <1>13, <1>14, <1>15

\* So is the TestAssert.
LEMMA LoadTakesAssert ==
    ASSUME NEW s, NEW D, NEW p, Loadable(s, D, p)
    PROVE  AssertTaken(Load(s, File(p)), D \cup {p})
<1> DEFINE f == File(p)
           t == Load(s, f)
           E == D \cup {p}
           asserts == Added(s.Asserts, f, "assert")
           last == OfKind(asserts, "TestAssert")
           mine == Adds(f, "assert", "TestAssert")
           before == OfKind(s.Asserts, "TestAssert")
           named == OfKind(Named(t, "assert"), "TestAssert")
<1>1. /\ entries \in Contents /\ D \in SUBSET Places /\ p \in Places \ D
      /\ \A q \in D : Before(q, p)
      /\ s \in Steps /\ AssertTaken(s, D)
      /\ ~Broken(f) /\ ~Skipped(f) /\ ~Refused(s, Populate(s, f))
  BY DEF Loadable, Taken
<1>2. f \in Files /\ f.objects \in Seq(Objects)
  BY <1>1, FileType
<1>3. Parse(f.name).type = f.name.first
  BY <1>1, <1>2, FileIs
<1>4. /\ t \in Steps
      /\ t.Assert = IF last = <<>> THEN s.Assert ELSE Last(last)
      /\ t.Asserts = Without(asserts, "TestAssert") \o Named(t, "assert")
  <2> HIDE DEF f
  <2> QED BY <1>1, <1>2, <1>3, LoadIs
<1>5. s.Asserts \in Seq(Objects) /\ "TestAssert" \in Kinds \ {"TestFile"} /\ "TestAssert" \in Kinds
  BY <1>1 DEF Steps, Kinds
<1>6. /\ asserts \in Seq(Objects) /\ last = before \o mine
  <2> HIDE DEF f
  <2>1. asserts \in Seq(Objects)
    BY <1>2, <1>5, AddedIs
  <2>2. OfKind(Added(s.Asserts, f, "assert"), "TestAssert") =
           OfKind(s.Asserts, "TestAssert") \o Adds(f, "assert", "TestAssert")
    BY <1>2, <1>5, AddedIs
  <2> QED BY <2>1, <2>2
<1>7. mine \in Seq(Objects)
  <2>1. OfKind(f.objects, "TestAssert") \in Seq(Objects)
    BY <1>2, OfKindIs
  <2>2. <<>> \in Seq(Objects)
    OBVIOUS
  <2> QED BY <2>1, <2>2 DEF Adds
<1>8. OfKind(t.Asserts, "TestAssert") = named
  <2> DEFINE w == Without(asserts, "TestAssert")
             n == Named(t, "assert")
  <2> HIDE DEF asserts, t
  <2>1. w \in Seq(Objects) /\ OfKind(w, "TestAssert") = <<>>
    BY <1>5, <1>6, WithoutIs
  <2>2. n \in Seq(Objects)
    BY <1>4, NamedIs
  <2> HIDE DEF w, n
  <2>3. OfKind(w \o n, "TestAssert") = OfKind(w, "TestAssert") \o OfKind(n, "TestAssert")
        /\ OfKind(n, "TestAssert") \in Seq(Objects)
    BY <2>1, <2>2, OfKindIs
  <2>4. OfKind(w \o n, "TestAssert") = OfKind(n, "TestAssert")
    BY <2>1, <2>3, ConcatEmptySeq
  <2> QED BY <1>4, <2>4 DEF w, n
<1>9. AssertsIn(E) = IF mine # <<>> THEN AssertsIn(D) \cup {p} ELSE AssertsIn(D)
  <2> DEFINE has == f.name.first = "assert" /\ OfKind(f.objects, "TestAssert") # <<>>
  <2>1. AssertsIn(E) = IF has THEN AssertsIn(D) \cup {p} ELSE AssertsIn(D)
    BY <1>1, UsedWith
  <2>2. has <=> mine # <<>>
    BY DEF Adds
  <2> HIDE DEF has, mine, E
  <2> QED BY <2>1, <2>2
<1>10. s.Step # None => t.Step = s.Step
  BY LoadTakesStep
<1>11. SUFFICES ASSUME named = <<>>
                PROVE  /\ AssertsIn(E) = {} => t.Assert = None
                       /\ \A q \in AssertsIn(E) :
                             (\A r \in AssertsIn(E) : ~Before(q, r))
                             => t.Assert = Last(OfKind(File(q).objects, "TestAssert"))
  BY <1>8 DEF AssertTaken
<1>12. OfKind(Named(s, "assert"), "TestAssert") = <<>>
  <2>1. CASE s.Step = None
    BY <2>1, OnlyEmpty DEF Named, OfKind
  <2>2. CASE s.Step # None
    <3>1. Named(s, "assert") = Named(t, "assert")
      BY <1>10, <2>2 DEF Named
    <3> QED BY <1>11, <3>1
  <2> QED BY <2>1, <2>2
<1>13. /\ before = <<>>
       /\ AssertsIn(D) = {} => s.Assert = None
       /\ \A q \in AssertsIn(D) : (\A r \in AssertsIn(D) : ~Before(q, r))
             => s.Assert = Last(OfKind(File(q).objects, "TestAssert"))
  BY <1>1, <1>12 DEF AssertTaken
<1>14. last = mine
  <2> HIDE DEF last, before, mine
  <2> QED BY <1>6, <1>7, <1>13, ConcatEmptySeq
<1>15. CASE mine = <<>>
  <2>1. AssertsIn(E) = AssertsIn(D) /\ t.Assert = s.Assert
    BY <1>4, <1>9, <1>14, <1>15
  <2> HIDE DEF t, E
  <2> QED BY <1>13, <2>1
<1>16. CASE mine # <<>>
  <2>1. AssertsIn(E) = AssertsIn(D) \cup {p} /\ t.Assert = Last(mine)
    BY <1>4, <1>9, <1>14, <1>16
  <2>2. mine = OfKind(File(p).objects, "TestAssert")
    BY <1>16 DEF Adds
  <2>3. \A q \in AssertsIn(D) : Before(q, p)
    BY <1>1 DEF AssertsIn, UsedIn
  <2>4. t.Assert = Last(OfKind(File(p).objects, "TestAssert"))
    BY <2>1, <2>2
  <2> HIDE DEF t, E, mine
  <2>5. p \in AssertsIn(E)
    BY <2>1
  <2>6. \A q \in AssertsIn(E) : q = p \/ Before(q, p)
    BY <2>1, <2>3
  <2> QED BY <2>4, <2>5, <2>6
<1> QED BY <1>15, <1>16

\* Once more, if a TestStep is there.
LEMMA Once ==
    ASSUME NEW n \in Nat, NEW m \in Nat
    PROVE  (n + 1) * m = n * m + m /\ 1 * m = m /\ n * m \in Nat
OBVIOUS

\* One list after the file: what was there, what the file adds, what is
\* named.
LEMMA LoadCounts ==
    ASSUME NEW s, NEW D, NEW p, Loadable(s, D, p),
           NEW list \in Seq(Objects), NEW type, NEW old \in Seq(Objects), NEW new \in Seq(Objects),
           NEW kept \in Seq(Objects), NEW t, t = Load(s, File(p)),
           Counted(s, D, list, type, old), s.Step # None => new = old, t.Step = None => new = <<>>,
           \A o \in Objects : o.kind = "plain" =>
              Times(o, kept) = Times(o, Added(list, File(p), type))
    PROVE  Counted(t, D \cup {p}, kept \o new, type, new)
<1> DEFINE E == D \cup {p}
           f == File(p)
<1>1. /\ entries \in Contents /\ D \in SUBSET Places /\ p \in Places \ D
      /\ \A q \in D : Before(q, p)
      /\ ~Skipped(f)
  BY DEF Loadable
<1>2. f \in Files /\ f.objects \in Seq(Objects)
  BY <1>1, FileType
<1>3. /\ s.Step # None => t.Step = s.Step /\ StepsIn(E) = StepsIn(D)
      /\ s.Step = None /\ t.Step # None => StepsIn(E) = {p}
  BY LoadTakesStep
<1>4. SUFFICES ASSUME NEW o \in Objects, o.kind = "plain"
               PROVE  Times(o, kept \o new) = TimesIn(o, UsedIn(E, type))
                         + (IF t.Step = None THEN 0 ELSE Cardinality(RoundsIn(E)) * Times(o, new))
  BY DEF Counted
<1> DEFINE here == IF f.name.first = type THEN Times(o, f.objects) ELSE 0
<1>5. here \in Nat
  <2>1. Times(o, f.objects) \in Nat
    BY <1>2, TimesType
  <2> QED BY <2>1
<1>6. TimesIn(o, UsedIn(E, type)) = TimesIn(o, UsedIn(D, type)) + here
      /\ TimesIn(o, UsedIn(D, type)) \in Nat
  <2>1. UsedIn(E, type) = IF f.name.first = type THEN UsedIn(D, type) \cup {p} ELSE UsedIn(D, type)
    BY <1>1, UsedWith
  <2>2. UsedIn(D, type) \in SUBSET Places /\ p \in Places \ UsedIn(D, type)
    BY <1>1 DEF UsedIn
  <2>3. /\ TimesIn(o, UsedIn(D, type)) \in Nat
        /\ TimesIn(o, UsedIn(D, type) \cup {p}) = TimesIn(o, UsedIn(D, type)) + Times(o, f.objects)
    BY <1>1, <2>2, TimesInWith
  <2> HIDE DEF f, E
  <2>4. CASE f.name.first = type
    BY <2>1, <2>3, <2>4
  <2>5. CASE f.name.first # type
    BY <2>1, <2>3, <2>5
  <2> QED BY <2>4, <2>5
<1>7. Times(o, list) = TimesIn(o, UsedIn(D, type))
         + (IF s.Step = None THEN 0 ELSE Cardinality(RoundsIn(D)) * Times(o, old))
  BY <1>4 DEF Counted
<1>8. Times(o, kept) = Times(o, list) + here
  <2>1. o.kind # "TestFile"
    BY <1>4
  <2>2. Times(o, Added(list, f, type)) = Times(o, list) + here
    <3> HIDE DEF f
    <3> QED BY <1>2, <2>1, AddedIs
  <2> QED BY <1>4, <2>2
<1>9. /\ Times(o, kept \o new) = Times(o, kept) + Times(o, new)
      /\ Times(o, new) \in Nat /\ Times(o, old) \in Nat /\ Times(o, list) \in Nat
  BY TimesType, TimesConcat
<1> DEFINE r == Cardinality(RoundsIn(D))
           R == Cardinality(RoundsIn(E))
<1>10. /\ r \in Nat
       /\ StepsIn(E) = StepsIn(D) => R = r + 1
       /\ StepsIn(E) = {p} => R = 1
  BY <1>1, RoundsWith
<1> HIDE DEF here, r, R, E, f
<1>11. CASE t.Step = None
  <2>1. s.Step = None
    BY <1>3, <1>11
  <2>2. Times(o, new) = 0
    BY <1>11, TimesEmpty
  <2> QED BY <1>5, <1>6, <1>7, <1>8, <1>9, <1>11, <2>1, <2>2
<1>12. CASE t.Step # None /\ s.Step = None
  <2>1. R = 1
    BY <1>3, <1>10, <1>12
  <2>2. R * Times(o, new) = Times(o, new)
    BY <1>9, <2>1, Once
  <2> QED BY <1>5, <1>6, <1>7, <1>8, <1>9, <1>12, <2>2 DEF R
<1>13. CASE t.Step # None /\ s.Step # None
  <2>1. R = r + 1 /\ new = old
    BY <1>3, <1>10, <1>13
  <2>2. R * Times(o, new) = r * Times(o, old) + Times(o, new) /\ r * Times(o, old) \in Nat
    BY <1>9, <1>10, <2>1, Once
  <2>3. Times(o, list) = TimesIn(o, UsedIn(D, type)) + r * Times(o, old)
    BY <1>7, <1>13 DEF r
  <2>4. Times(o, kept \o new) = TimesIn(o, UsedIn(E, type)) + R * Times(o, new)
    BY <1>5, <1>6, <1>8, <1>9, <2>2, <2>3
  <2> QED BY <1>13, <2>4 DEF R
<1> QED BY <1>11, <1>12, <1>13

\* So are the objects in the three lists.
LEMMA LoadTakesObjects ==
    ASSUME NEW s, NEW D, NEW p, Loadable(s, D, p)
    PROVE  ObjectsTaken(Load(s, File(p)), D \cup {p})
<1> DEFINE f == File(p)
           t == Load(s, f)
           E == D \cup {p}
           apply == Added(s.Apply, f, "apply")
           asserts == Added(s.Asserts, f, "assert")
           errors == Added(s.Errors, f, "errors")
<1>1. /\ entries \in Contents /\ p \in Places
      /\ s \in Steps /\ ObjectsTaken(s, D)
      /\ ~Broken(f) /\ ~Skipped(f) /\ ~Refused(s, Populate(s, f))
  BY DEF Loadable, Taken
<1>2. f \in Files
  BY <1>1, FileType
<1>3. Parse(f.name).type = f.name.first
  BY <1>1, <1>2, FileIs
<1>4. /\ t \in Steps
      /\ t.Apply = Without(apply, "TestStep") \o Named(t, "apply")
      /\ t.Asserts = Without(asserts, "TestAssert") \o Named(t, "assert")
      /\ t.Errors = errors \o Named(t, "error")
  <2> HIDE DEF f
  <2> QED BY <1>1, <1>2, <1>3, LoadIs
<1>5. s.Asserts \in Seq(Objects) /\ s.Apply \in Seq(Objects) /\ s.Errors \in Seq(Objects)
  BY <1>1 DEF Steps
<1>6. apply \in Seq(Objects) /\ asserts \in Seq(Objects) /\ errors \in Seq(Objects)
  <2> HIDE DEF f
  <2> QED BY <1>2, <1>5, AddedIs
<1>7. \A list \in {"apply", "assert", "error"} :
         /\ Named(s, list) \in Seq(Objects) /\ Named(t, list) \in Seq(Objects)
         /\ s.Step # None => Named(t, list) = Named(s, list)
         /\ t.Step = None => Named(t, list) = <<>>
  <2>1. s.Step # None => t.Step = s.Step
    BY LoadTakesStep
  <2> HIDE DEF t
  <2>2. \A list \in {"apply", "assert", "error"} :
           Named(s, list) \in Seq(Objects) /\ Named(t, list) \in Seq(Objects)
    BY <1>1, <1>4, NamedIs
  <2> QED BY <2>1, <2>2 DEF Named
<1>8. "TestStep" \in Kinds /\ "TestAssert" \in Kinds
  BY DEF Kinds
<1>9. /\ Without(apply, "TestStep") \in Seq(Objects)
      /\ \A o \in Objects : o.kind = "plain" =>
            Times(o, Without(apply, "TestStep")) = Times(o, apply)
  <2> HIDE DEF apply
  <2> QED BY <1>6, <1>8, WithoutIs
<1>10. /\ Without(asserts, "TestAssert") \in Seq(Objects)
       /\ \A o \in Objects : o.kind = "plain" =>
             Times(o, Without(asserts, "TestAssert")) = Times(o, asserts)
  <2> HIDE DEF asserts
  <2> QED BY <1>6, <1>8, WithoutIs
<1>11. Counted(t, E, Without(apply, "TestStep") \o Named(t, "apply"), "apply", Named(t, "apply"))
  <2>1. Counted(s, D, s.Apply, "apply", Named(s, "apply"))
    BY <1>1 DEF ObjectsTaken
  <2> DEFINE kept == Without(apply, "TestStep")
             old == Named(s, "apply")
             new == Named(t, "apply")
  <2>2. /\ kept \in Seq(Objects) /\ old \in Seq(Objects) /\ new \in Seq(Objects)
        /\ s.Step # None => new = old
        /\ t.Step = None => new = <<>>
        /\ \A o \in Objects : o.kind = "plain" =>
              Times(o, kept) = Times(o, Added(s.Apply, File(p), "apply"))
    BY <1>7, <1>9
  <2> HIDE DEF kept, old, new, t
  <2>3. t = Load(s, File(p))
    BY DEF t
  <2>4. Counted(t, E, kept \o new, "apply", new)
    BY <1>5, <2>1, <2>2, <2>3, LoadCounts DEF old
  <2> QED BY <2>4 DEF kept, new
<1>12. Counted(t, E, Without(asserts, "TestAssert") \o Named(t, "assert"), "assert",
               Named(t, "assert"))
  <2>1. Counted(s, D, s.Asserts, "assert", Named(s, "assert"))
    BY <1>1 DEF ObjectsTaken
  <2> DEFINE kept == Without(asserts, "TestAssert")
             old == Named(s, "assert")
             new == Named(t, "assert")
  <2>2. /\ kept \in Seq(Objects) /\ old \in Seq(Objects) /\ new \in Seq(Objects)
        /\ s.Step # None => new = old
        /\ t.Step = None => new = <<>>
        /\ \A o \in Objects : o.kind = "plain" =>
              Times(o, kept) = Times(o, Added(s.Asserts, File(p), "assert"))
    BY <1>7, <1>10
  <2> HIDE DEF kept, old, new, t
  <2>3. t = Load(s, File(p))
    BY DEF t
  <2>4. Counted(t, E, kept \o new, "assert", new)
    BY <1>5, <2>1, <2>2, <2>3, LoadCounts DEF old
  <2> QED BY <2>4 DEF kept, new
<1>13. Counted(t, E, errors \o Named(t, "error"), "errors", Named(t, "error"))
  <2>1. Counted(s, D, s.Errors, "errors", Named(s, "error"))
    BY <1>1 DEF ObjectsTaken
  <2> DEFINE old == Named(s, "error")
             new == Named(t, "error")
  <2>2. /\ old \in Seq(Objects) /\ new \in Seq(Objects)
        /\ s.Step # None => new = old
        /\ t.Step = None => new = <<>>
        /\ \A o \in Objects : o.kind = "plain" =>
              Times(o, errors) = Times(o, Added(s.Errors, File(p), "errors"))
    BY <1>7
  <2> HIDE DEF old, new, t
  <2>3. t = Load(s, File(p))
    BY DEF t
  <2>4. Counted(t, E, errors \o new, "errors", new)
    <3> HIDE DEF errors
    <3> QED BY <1>5, <1>6, <2>1, <2>2, <2>3, LoadCounts DEF old
  <2> QED BY <2>4 DEF new
<1> HIDE DEF t, apply, asserts, errors
<1>14. ObjectsTaken(t, E)
  BY <1>4, <1>11, <1>12, <1>13 DEF ObjectsTaken
<1> QED BY <1>14 DEF t

\* The step after the file has in it what the files up to this one say.
LEMMA LoadTakes ==
    ASSUME NEW s, NEW D, NEW p, Loadable(s, D, p)
    PROVE  /\ Load(s, File(p)) \in Steps /\ Load(s, File(p)).index = s.index
           /\ Taken(Load(s, File(p)), D \cup {p})
<1> DEFINE f == File(p)
<1>1. /\ entries \in Contents /\ p \in Places
      /\ s \in Steps /\ ~Broken(f) /\ ~Skipped(f) /\ ~Refused(s, Populate(s, f))
  BY DEF Loadable
<1>2. f \in Files
  BY <1>1, FileType
<1>3. Parse(f.name).type = f.name.first
  BY <1>1, <1>2, FileIs
<1>4. Load(s, f) \in Steps /\ Load(s, f).index = s.index
  <2> HIDE DEF f
  <2> QED BY <1>1, <1>2, <1>3, LoadIs
<1> QED BY <1>4, LoadTakesStep, LoadTakesAssert, LoadTakesObjects DEF Taken

-----------------------------------------------------------------------------
(* The inductive invariant.                                                *)

\* The files of the step in hand: those that are loaded come before those
\* that are left, and the step has in it what they say.
FilesInv ==
    pc = "files" =>
       /\ files \subseteq Owned(cur.index)
       /\ \A p \in Owned(cur.index) \ files, q \in files : Before(p, q)
       /\ Taken(cur, Owned(cur.index) \ files)

\* A step that is built has in it what all its files say.
BuiltInv == \A s \in built : Taken(s, Owned(s.index))

\* Each index that was found is in the map still, in hand or built.
InHand == IF pc = "files" THEN {cur.index} ELSE {}
IndexInv == /\ pc = "collect" => built = {} /\ todo = {}
            /\ pc \in {"steps", "files", "sorted"} =>
                  {s.index : s \in built} \cup InHand \cup todo = Indices

\* The list of the steps is the set of those that were built, in order.
SortedInv == /\ pc # "sorted" => steps = <<>>
             /\ pc = "sorted" => /\ todo = {} /\ Range(steps) = built
                                 /\ \A i, j \in DOMAIN steps :
                                       i < j => steps[i].index < steps[j].index

IInv == /\ entries \in Contents /\ IsFiniteSet(built)
        /\ TypeOK /\ FilesInv /\ BuiltInv /\ IndexInv /\ SortedInv

\* What the files say is the same as long as the directory is.
LEMMA SameDirectory ==
    ASSUME entries' = entries
    PROVE  /\ \A i : Owned(i)' = Owned(i)
           /\ \A s, D : Taken(s, D)' <=> Taken(s, D)
           /\ Indices' = Indices
<1>1. \A p : File(p)' = File(p)
  BY DEF File
<1>2. \A D, type : UsedIn(D, type)' = UsedIn(D, type)
  BY <1>1 DEF UsedIn, Selected
<1>3. \A D : UsedAllIn(D)' = UsedAllIn(D)
  BY <1>2, Zenon DEF UsedAllIn
<1>4. \A D : StepsIn(D)' = StepsIn(D)
  BY <1>1, <1>2, Zenon DEF StepsIn
<1>5. \A D : AssertsIn(D)' = AssertsIn(D)
  BY <1>1, <1>2, Zenon DEF AssertsIn
<1>6. \A D : RoundsIn(D)' = RoundsIn(D)
  BY <1>3, <1>4, Zenon DEF RoundsIn
<1>7. \A o, P : TimesIn(o, P)' = TimesIn(o, P)
  <2> TAKE o, P
  <2> DEFINE I(p) == {i \in DOMAIN File(p).objects : File(p).objects[i] = o}
             U == UNION {{p} \X I(p) : p \in P}
  <2>1. \A p : I(p)' = I(p)
    BY <1>1, Zenon
  <2>2. TimesIn(o, P) = Cardinality(U)
    BY DEF TimesIn
  <2>3. TimesIn(o, P)' = Cardinality(U')
    BY DEF TimesIn
  <2> HIDE DEF I
  <2>4. U' = U
    BY <2>1, Zenon
  <2> HIDE DEF U
  <2> QED BY <2>2, <2>3, <2>4
<1>8. \A s, D : StepTaken(s, D)' <=> StepTaken(s, D)
  BY <1>1, <1>4, <1>6, Zenon DEF StepTaken
<1>9. \A s, D : AssertTaken(s, D)' <=> AssertTaken(s, D)
  BY <1>1, <1>5, Zenon DEF AssertTaken
<1>10. \A s, D, list, type, paths :
          Counted(s, D, list, type, paths)' <=> Counted(s, D, list, type, paths)
  BY <1>2, <1>6, <1>7, Zenon DEF Counted
<1>11. \A s, D : ObjectsTaken(s, D)' <=> ObjectsTaken(s, D)
  BY <1>10, Zenon DEF ObjectsTaken
<1>12. \A s, D : Taken(s, D)' <=> Taken(s, D)
  BY <1>8, <1>9, <1>11, Zenon DEF Taken
<1>13. \A i : Owned(i)' = Owned(i)
  BY Zenon DEF Owned
<1>14. Indices' = Indices
  BY Zenon DEF Indices, Collected
<1> QED BY <1>12, <1>13, <1>14

\* The invariant holds at first, and each action keeps it.
LEMMA InvInit == ASSUME Init PROVE IInv
<1>1. /\ entries \in Contents /\ pc = "collect" /\ todo = {} /\ files = {} /\ cur = None
      /\ built = {} /\ steps = <<>>
  BY DEF Init
<1>2. IsFiniteSet(built)
  BY <1>1, FS_EmptySet
<1>3. TypeOK
  BY <1>1 DEF TypeOK
<1>4. FilesInv /\ BuiltInv /\ IndexInv /\ SortedInv
  BY <1>1 DEF FilesInv, BuiltInv, IndexInv, SortedInv
<1> QED BY <1>1, <1>2, <1>3, <1>4 DEF IInv

\* As long as the directory and what was built stay.
LEMMA BuiltStays ==
    ASSUME IInv, entries' = entries, built' = built
    PROVE  entries' \in Contents /\ IsFiniteSet(built') /\ BuiltInv'
<1>1. \A s \in built' : Taken(s, Owned(s.index))'
  BY SameDirectory DEF IInv, BuiltInv
<1> QED BY <1>1 DEF IInv, BuiltInv

LEMMA InvCollect == ASSUME IInv, Collect PROVE IInv'
<1>1. /\ pc = "collect" /\ todo' = Indices /\ pc' = "steps"
      /\ entries' = entries /\ files' = files /\ cur' = cur /\ built' = built /\ steps' = steps
  BY DEF Collect
<1>2. TypeOK'
  <2>1. Indices \subseteq 0..MaxIndex
    BY IndicesAre DEF IInv
  <2> QED BY <1>1, <2>1 DEF IInv, TypeOK
<1>3. IndexInv'
  <2>1. built' = {} /\ Indices' = Indices
    BY <1>1, SameDirectory DEF IInv, IndexInv
  <2> QED BY <1>1, <2>1 DEF IndexInv, InHand
<1>4. FilesInv' /\ SortedInv'
  BY <1>1 DEF IInv, FilesInv, SortedInv
<1> QED BY <1>1, <1>2, <1>3, <1>4, BuiltStays DEF IInv

LEMMA InvBeginStep == ASSUME IInv, BeginStep PROVE IInv'
<1>1. PICK i \in todo : /\ todo' = todo \ {i}
                        /\ cur' = NewStep(i)
                        /\ files' = CollectTestStepFiles(i)
  BY DEF BeginStep
<1>2. /\ pc = "steps" /\ pc' = "files"
      /\ entries' = entries /\ built' = built /\ steps' = steps
  BY DEF BeginStep
<1>3. i \in 0..MaxIndex /\ entries \in Contents
  BY DEF IInv, TypeOK
<1>4. files' = Owned(i) /\ Owned(i) \subseteq Places
  BY <1>1, <1>3, OwnedIs
<1>5. cur' \in Steps /\ Taken(cur', {}) /\ cur'.index = i
  BY <1>1, <1>3, TakenFromNothing DEF NewStep
<1>6. TypeOK'
  <2>1. files' \subseteq Nat \X Nat
    BY <1>3, <1>4, FileType
  <2> QED BY <1>1, <1>2, <1>5, <2>1 DEF IInv, TypeOK
<1>7. FilesInv'
  <2>1. Owned(cur.index)' = files' /\ Owned(cur.index)' \ files' = {}
    BY <1>2, <1>4, <1>5, SameDirectory
  <2>2. Taken(cur, {})'
    BY <1>2, <1>5, SameDirectory
  <2>3. Taken(cur, Owned(cur.index) \ files)'
    BY <2>1, <2>2
  <2> QED BY <2>1, <2>3 DEF FilesInv
<1>8. IndexInv'
  <2>1. {s.index : s \in built} \cup {} \cup todo = Indices
    BY <1>2 DEF IInv, IndexInv, InHand
  <2>2. InHand' = {i} /\ Indices' = Indices
    BY <1>2, <1>5, SameDirectory DEF InHand
  <2> QED BY <1>1, <1>2, <2>1, <2>2 DEF IndexInv
<1>9. SortedInv'
  BY <1>2 DEF IInv, SortedInv
<1> QED BY <1>2, <1>6, <1>7, <1>8, <1>9, BuiltStays DEF IInv

\* A file less that is left and one more that is loaded.
LEMMA NextFile ==
    ASSUME IInv, pc = "files", NEW p \in files, IsNext(p), entries' = entries, pc' = pc,
           files' = files \ {p}, cur' \in Steps, cur'.index = cur.index,
           Taken(cur', (Owned(cur.index) \ files) \cup {p})
    PROVE  FilesInv'
<1> DEFINE all == Owned(cur.index)
<1>1. /\ files \subseteq all
      /\ \A q \in all \ files, r \in files : Before(q, r)
  BY DEF IInv, FilesInv
<1>2. Owned(cur.index)' = all
  BY SameDirectory
<1> HIDE DEF all
<1>3. all \ files' = (all \ files) \cup {p} /\ files' \subseteq all
  BY <1>1
<1>4. \A q \in all \ files', r \in files' : Before(q, r)
  BY <1>1, <1>3 DEF IsNext
<1>5. Taken(cur, Owned(cur.index) \ files)'
  <2>1. Taken(cur', all \ files')
    BY <1>3 DEF all
  <2> QED BY <1>2, <2>1, SameDirectory
<1> QED BY <1>2, <1>3, <1>4, <1>5 DEF FilesInv

LEMMA InvSkipFile == ASSUME IInv, SkipFile PROVE IInv'
<1>1. PICK p \in files : /\ IsNext(p)
                         /\ ~Broken(File(p)) /\ Skipped(File(p))
                         /\ files' = files \ {p}
  BY DEF SkipFile
<1>2. /\ pc = "files" /\ pc' = pc /\ entries' = entries /\ todo' = todo
      /\ cur' = cur /\ built' = built /\ steps' = steps
  BY DEF SkipFile
<1>3. /\ entries \in Contents /\ cur \in Steps /\ files \subseteq Owned(cur.index)
      /\ Taken(cur, Owned(cur.index) \ files)
  BY <1>2 DEF IInv, TypeOK, FilesInv
<1>4. Owned(cur.index) \subseteq Places
  BY <1>3, OwnedIs DEF Steps
<1>5. Taken(cur, (Owned(cur.index) \ files) \cup {p})
  BY <1>1, <1>3, <1>4, TakenSkips
<1>6. FilesInv'
  BY <1>1, <1>2, <1>3, <1>5, NextFile
<1>7. TypeOK' /\ SortedInv'
  BY <1>1, <1>2 DEF IInv, TypeOK, SortedInv
<1>8. IndexInv'
  BY <1>1, <1>2, SameDirectory DEF IInv, IndexInv, InHand
<1> QED BY <1>2, <1>6, <1>7, <1>8, BuiltStays DEF IInv

LEMMA InvLoadYAML == ASSUME IInv, LoadYAML PROVE IInv'
<1>1. PICK p \in files : /\ IsNext(p)
                         /\ ~Broken(File(p)) /\ ~Skipped(File(p))
                         /\ ~Refused(cur, Populate(cur, File(p)))
                         /\ cur' = Load(cur, File(p))
                         /\ files' = files \ {p}
  BY DEF LoadYAML, Load
<1>2. /\ pc = "files" /\ pc' = pc /\ entries' = entries /\ todo' = todo
      /\ built' = built /\ steps' = steps
  BY DEF LoadYAML
<1>3. /\ entries \in Contents /\ cur \in Steps /\ files \subseteq Owned(cur.index)
      /\ \A q \in Owned(cur.index) \ files, r \in files : Before(q, r)
      /\ Taken(cur, Owned(cur.index) \ files)
  BY <1>2 DEF IInv, TypeOK, FilesInv
<1>4. Owned(cur.index) \subseteq Places
  BY <1>3, OwnedIs DEF Steps
<1> DEFINE D == Owned(cur.index) \ files
<1>5. Loadable(cur, D, p)
  BY <1>1, <1>3, <1>4 DEF Loadable
<1>6. cur' \in Steps /\ cur'.index = cur.index /\ Taken(cur', D \cup {p})
  <2> HIDE DEF D
  <2> QED BY <1>1, <1>5, LoadTakes
<1>7. FilesInv'
  BY <1>1, <1>2, <1>6, NextFile
<1>8. TypeOK' /\ SortedInv'
  BY <1>1, <1>2, <1>6 DEF IInv, TypeOK, SortedInv
<1>9. IndexInv'
  BY <1>1, <1>2, <1>6, SameDirectory DEF IInv, IndexInv, InHand
<1> QED BY <1>2, <1>7, <1>8, <1>9, BuiltStays DEF IInv

LEMMA InvFails == ASSUME IInv, CollectFails \/ LoadFails PROVE IInv'
<1>1. /\ pc \in {"collect", "files"} /\ pc' = "failed"
      /\ entries' = entries /\ todo' = todo /\ files' = files /\ cur' = cur
      /\ built' = built /\ steps' = steps
  BY DEF CollectFails, LoadFails
<1>2. TypeOK' /\ FilesInv' /\ IndexInv' /\ SortedInv'
  BY <1>1 DEF IInv, TypeOK, FilesInv, IndexInv, SortedInv
<1> QED BY <1>1, <1>2, BuiltStays DEF IInv

LEMMA InvEndStep == ASSUME IInv, EndStep PROVE IInv'
<1>1. /\ pc = "files" /\ files = {} /\ built' = built \cup {cur} /\ cur' = None /\ pc' = "steps"
      /\ entries' = entries /\ todo' = todo /\ files' = files /\ steps' = steps
  BY DEF EndStep
<1>2. cur \in Steps /\ Taken(cur, Owned(cur.index))
  <2>1. Owned(cur.index) \ files = Owned(cur.index)
    BY <1>1
  <2> QED BY <1>1, <2>1 DEF IInv, TypeOK, FilesInv
<1>3. TypeOK' /\ FilesInv' /\ SortedInv'
  BY <1>1, <1>2 DEF IInv, TypeOK, FilesInv, SortedInv
<1>4. IsFiniteSet(built')
  BY <1>1, FS_AddElement DEF IInv
<1>5. BuiltInv'
  <2>1. \A s \in built' : Taken(s, Owned(s.index))
    BY <1>1, <1>2 DEF IInv, BuiltInv
  <2> QED BY <1>1, <2>1, SameDirectory DEF BuiltInv
<1>6. IndexInv'
  <2>1. {s.index : s \in built'} = {s.index : s \in built} \cup {cur.index}
    BY <1>1
  <2>2. {s.index : s \in built} \cup {cur.index} \cup todo = Indices
    BY <1>1 DEF IInv, IndexInv, InHand
  <2>3. InHand' = {} /\ Indices' = Indices
    BY <1>1, SameDirectory DEF InHand
  <2> QED BY <1>1, <2>1, <2>2, <2>3 DEF IndexInv
<1> QED BY <1>1, <1>3, <1>4, <1>5, <1>6 DEF IInv

\* A list of as many different elements as the set has is a list of the set.
LEMMA SeqsOfSet ==
    ASSUME NEW S, IsFiniteSet(S), NEW s \in SetToSeqs(S)
    PROVE  s \in Seq(S) /\ Range(s) = S
<1> DEFINE n == Cardinality(S)
           T == 1..n
<1>1. s \in [T -> S] /\ \A i, j \in T : s[i] = s[j] => i = j
  BY DEF SetToSeqs, IsInjective
<1>2. n \in Nat
  BY FS_CardinalityType
<1>3. IsFiniteSet(T) /\ Cardinality(T) = n
  <2> HIDE DEF n
  <2>1. IsFiniteSet(1..n) /\ Cardinality(1..n) = IF 1 > n THEN 0 ELSE n - 1 + 1
    BY <1>2, FS_Interval
  <2> QED BY <1>2, <2>1
<1> HIDE DEF T
<1>4. s \in Injection(T, S)
  BY <1>1 DEF Injection, IsInjective
<1>5. s \in Surjection(T, S)
  BY <1>3, <1>4, FS_Injection
<1>6. Range(s) = S
  BY <1>1, <1>5 DEF Surjection, Range
<1>7. s \in Seq(S)
  BY <1>1, <1>2 DEF T
<1> QED BY <1>6, <1>7

LEMMA InvSort == ASSUME IInv, Sort PROVE IInv'
<1>1. PICK s \in SetToSeqs(built) : /\ \A i, j \in DOMAIN s : i < j => s[i].index < s[j].index
                                    /\ steps' = s
  BY DEF Sort
<1>2. /\ pc = "steps" /\ todo = {} /\ pc' = "sorted"
      /\ entries' = entries /\ todo' = todo /\ files' = files /\ cur' = cur /\ built' = built
  BY DEF Sort
<1>3. s \in Seq(built) /\ Range(s) = built
  BY SeqsOfSet DEF IInv
<1>4. SortedInv'
  BY <1>1, <1>2, <1>3 DEF SortedInv, Range
<1>5. TypeOK'
  <2>1. built \subseteq Steps
    BY DEF IInv, TypeOK
  <2>2. s \in Seq(Steps)
    BY <1>3, <2>1
  <2> QED BY <1>1, <1>2, <2>2 DEF IInv, TypeOK
<1>6. FilesInv' 
  BY <1>2 DEF FilesInv
<1>7. IndexInv'
  BY <1>2, SameDirectory DEF IInv, IndexInv, InHand
<1> QED BY <1>2, <1>4, <1>5, <1>6, <1>7, BuiltStays DEF IInv

LEMMA InvStays == ASSUME IInv, UNCHANGED vars PROVE IInv'
<1>1. /\ entries' = entries /\ pc' = pc /\ todo' = todo /\ files' = files /\ cur' = cur
      /\ built' = built /\ steps' = steps
  BY DEF vars
<1>2. TypeOK' /\ SortedInv'
  BY <1>1 DEF IInv, TypeOK, SortedInv
<1>3. IndexInv' /\ FilesInv'
  BY <1>1, SameDirectory DEF IInv, IndexInv, InHand, FilesInv
<1> QED BY <1>1, <1>2, <1>3, BuiltStays DEF IInv

\* The invariant is inductive.
THEOREM Invariance == Spec => []IInv
<1>1. Init => IInv
  BY InvInit
<1>2. IInv /\ [Next]_vars => IInv'
  BY InvCollect, InvBeginStep, InvSkipFile, InvLoadYAML, InvFails, InvEndStep, InvSort, InvStays
  DEF Next, Terminated
<1> QED BY <1>1, <1>2, PTL DEF Spec

-----------------------------------------------------------------------------
(* The properties.  They are about the steps of the case, when all of      *)
(* their files are loaded.                                                 *)

\* What is said of all files of a step.
LEMMA WholeStep ==
    ASSUME NEW i
    PROVE  /\ \A type : Used(i, type) = UsedIn(Owned(i), type)
           /\ UsedAll(i) = UsedAllIn(Owned(i))
           /\ TestSteps(i) = StepsIn(Owned(i))
           /\ TestAsserts(i) = AssertsIn(Owned(i))
           /\ \A s : s.index = i => Rounds(s) = Cardinality(RoundsIn(Owned(i)))
<1>1. \A type : Used(i, type) = UsedIn(Owned(i), type)
  BY DEF Used, UsedIn
<1>2. UsedAll(i) = UsedAllIn(Owned(i))
  BY <1>1, Zenon DEF UsedAll, UsedAllIn
<1>3. TestSteps(i) = StepsIn(Owned(i)) /\ TestAsserts(i) = AssertsIn(Owned(i))
  BY <1>1, Zenon DEF TestSteps, StepsIn, TestAsserts, AssertsIn
<1>4. ASSUME NEW s, s.index = i PROVE Rounds(s) = Cardinality(RoundsIn(Owned(i)))
  BY <1>2, <1>3, <1>4, Zenon DEF Rounds, RoundsIn
<1> QED BY <1>1, <1>2, <1>3, <1>4

\* The steps of the case have in them what all of their files say.
LEMMA StepsTaken ==
    ASSUME IInv, NEW s \in Range(steps)
    PROVE  s \in Steps /\ Taken(s, Owned(s.index))
<1>1. pc = "sorted" /\ Range(steps) = built
  BY DEF IInv, SortedInv, Range
<1> QED BY <1>1 DEF IInv, TypeOK, BuiltInv

\* With StepsTaken, the properties follow.
LEMMA InvObjectsKept == ASSUME IInv PROVE ObjectsKept
<1>1. SUFFICES ASSUME NEW s \in Range(steps), NEW o \in Objects, o.kind = "plain"
               PROVE  /\ Times(o, s.Apply) = TimesIn(o, Used(s.index, "apply"))
                            + (IF s.Step = None THEN 0 ELSE Rounds(s) *
                                 Times(o, IF s.Step = None THEN <<>> ELSE s.Step.apply))
                      /\ Times(o, s.Asserts) = TimesIn(o, Used(s.index, "assert"))
                            + (IF s.Step = None THEN 0 ELSE Rounds(s) *
                                 Times(o, IF s.Step = None THEN <<>> ELSE s.Step.assert))
                      /\ Times(o, s.Errors) = TimesIn(o, Used(s.index, "errors"))
                            + (IF s.Step = None THEN 0 ELSE Rounds(s) *
                                 Times(o, IF s.Step = None THEN <<>> ELSE s.Step.error))
  BY DEF ObjectsKept
<1>2. ObjectsTaken(s, Owned(s.index))
  BY StepsTaken DEF Taken
<1>3. /\ \A type : Used(s.index, type) = UsedIn(Owned(s.index), type)
      /\ Rounds(s) = Cardinality(RoundsIn(Owned(s.index)))
  BY WholeStep
<1>4. /\ Named(s, "apply") = IF s.Step = None THEN <<>> ELSE s.Step.apply
      /\ Named(s, "assert") = IF s.Step = None THEN <<>> ELSE s.Step.assert
      /\ Named(s, "error") = IF s.Step = None THEN <<>> ELSE s.Step.error
  BY DEF Named
<1> QED BY <1>1, <1>2, <1>3, <1>4, Zenon DEF ObjectsTaken, Counted

LEMMA InvOneTestStep == ASSUME IInv PROVE OneTestStep
<1>1. SUFFICES ASSUME NEW s \in Range(steps)
               PROVE  /\ \A p, q \in TestSteps(s.index) : p = q
                      /\ \A p \in TestSteps(s.index) :
                            /\ OfKind(File(p).objects, "TestStep") = <<s.Step>>
                            /\ s.loading = s.Step.loading
                      /\ TestSteps(s.index) = {} => s.Step = None /\ s.loading = None
                      /\ OfKind(s.Apply, "TestStep") # <<>> => Rounds(s) = 1
  BY DEF OneTestStep
<1>2. StepTaken(s, Owned(s.index))
  BY StepsTaken DEF Taken
<1>3. /\ TestSteps(s.index) = StepsIn(Owned(s.index))
      /\ Rounds(s) = Cardinality(RoundsIn(Owned(s.index)))
  BY WholeStep
<1> QED BY <1>2, <1>3 DEF StepTaken

LEMMA InvLastAssertHolds == ASSUME IInv PROVE LastAssertHolds
<1>1. SUFFICES ASSUME NEW s \in Range(steps),
                      (IF s.Step = None THEN <<>> ELSE OfKind(s.Step.assert, "TestAssert")) = <<>>
               PROVE  /\ TestAsserts(s.index) = {} => s.Assert = None
                      /\ \A p \in TestAsserts(s.index) :
                            (\A q \in TestAsserts(s.index) : ~Before(p, q))
                            => s.Assert = Last(OfKind(File(p).objects, "TestAssert"))
  BY DEF LastAssertHolds
<1>2. AssertTaken(s, Owned(s.index))
  BY StepsTaken DEF Taken
<1>3. TestAsserts(s.index) = AssertsIn(Owned(s.index))
  BY WholeStep
<1>4. OfKind(Named(s, "assert"), "TestAssert") = <<>>
  BY <1>1, OnlyEmpty DEF Named, OfKind
<1> QED BY <1>2, <1>3, <1>4 DEF AssertTaken

LEMMA InvStepsInOrder == ASSUME IInv PROVE StepsInOrder
<1>1. \A i, j \in DOMAIN steps : i < j => steps[i].index < steps[j].index
  <2>1. CASE pc # "sorted"
    BY <2>1 DEF IInv, SortedInv
  <2>2. CASE pc = "sorted"
    BY <2>2 DEF IInv, SortedInv
  <2> QED BY <2>1, <2>2
<1>2. pc = "sorted" => {s.index : s \in Range(steps)} = Indices
  BY DEF IInv, SortedInv, IndexInv, InHand
<1>3. Indices = {e.name.prefix : e \in {d \in Range(entries) :
                    d.name.matches /\ ~d.ignored /\ d.name.prefix \in 0..MaxIndex}}
  BY IndicesAre DEF IInv
<1>4. pc = "failed" => steps = <<>>
  BY DEF IInv, SortedInv
<1> QED BY <1>1, <1>2, <1>3, <1>4 DEF StepsInOrder

\* The loader's variables have their types: what is left to load are places
\* in the directory, and steps and lists hold objects of the files.
THEOREM TypeCorrect == Spec => []TypeOK
<1>1. IInv => TypeOK
  BY DEF IInv
<1> QED BY <1>1, Invariance, PTL

\* LoadYAML neither loses an object of a file, nor adds one twice, nor puts
\* it in another list: in the steps of the case each is as often as in the
\* selected files of the list's type and in what the TestStep names by path.
THEOREM KeepsObjects == Spec => []ObjectsKept
BY Invariance, InvObjectsKept, PTL

\* "more than 1 TestStep not allowed" holds over all files of a step.
THEOREM OneTestStepHolds == Spec => []OneTestStep
BY Invariance, InvOneTestStep, PTL

\* Of the TestAsserts of a step, the last one in the order of the files is
\* the one the step is run with.
THEOREM LastAssert == Spec => []LastAssertHolds
BY Invariance, InvLastAssertHolds, PTL

\* LoadTestSteps returns the steps in the order of their indices, one for
\* each index with an entry that counts; an error leaves none.
THEOREM InOrder == Spec => []StepsInOrder
BY Invariance, InvStepsInOrder, PTL
=============================================================================
