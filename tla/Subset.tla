------------------------------- MODULE Subset -------------------------------
(***************************************************************************)
(* IsSubset (internal/utils/subset.go) on the values that Kubernetes       *)
(* objects are made of: maps from strings, slices, and scalars with their  *)
(* Go type.  A scalar is its type and what it prints as, so that the       *)
(* string and the integer 1 differ in their type only.                     *)
(***************************************************************************)
EXTENDS Naturals, Sequences

CONSTANTS
    Values,     \* the values to look at, with all their parts
    Depth       \* how deep they are nested: no value is part of itself

Map(f) == [type |-> "map", at |-> f]
Slice(s) == [type |-> "slice", elems |-> s]
Scalar(type, is) == [type |-> type, is |-> is]
Text(s) == Scalar("string", s)

IsScalar(v) == v.type \notin {"map", "slice"}

Parts(v) == CASE v.type = "map" -> {v.at[k] : k \in DOMAIN v.at}
              [] v.type = "slice" -> {v.elems[i] : i \in DOMAIN v.elems}
              [] OTHER -> {}

ASSUME SubsetAssumption ==
    /\ Depth \in [Values -> Nat]
    /\ \A v \in Values :
          /\ \A p \in Parts(v) : p \in Values /\ Depth[p] < Depth[v]
          /\ v.type = "slice" => v.elems \in Seq(Values)

\* mutant: an expected slice may be the beginning of the actual one
SameLength_Prefix(e, a) == Len(e.elems) <= Len(a.elems)

SameLength(e, a) == Len(e.elems) = Len(a.elems)

\* Types first, then equality; elements of slices are compared one by one,
\* values of maps for the keys of the expected map.
IsSubset[e \in Values] == [a \in Values |->
    /\ e.type = a.type
    /\ \/ e = a
       \/ /\ e.type = "slice"
          /\ SameLength(e, a)
          /\ \A i \in DOMAIN e.elems : IsSubset[e.elems[i]][a.elems[i]]
       \/ /\ e.type = "map"
          /\ DOMAIN e.at \subseteq DOMAIN a.at
          /\ \A k \in DOMAIN e.at : IsSubset[e.at[k]][a.at[k]]]

-----------------------------------------------------------------------------
(* What a value says, for the properties: facts.  A fact is that there is  *)
(* a map, a slice of some length or a scalar, or it is one about a part.   *)

Here(what) == <<what>>
Under(step, facts) == {<<step, f>> : f \in facts}

Facts[v \in Values] ==
    CASE v.type = "map" ->
           {Here([type |-> "map"])}
           \cup UNION {Under([key |-> k], Facts[v.at[k]]) : k \in DOMAIN v.at}
      [] v.type = "slice" ->
           {Here([type |-> "slice", len |-> Len(v.elems)])}
           \cup UNION {Under([elem |-> i], Facts[v.elems[i]]) : i \in DOMAIN v.elems}
      [] OTHER -> {Here(v)}
=============================================================================
