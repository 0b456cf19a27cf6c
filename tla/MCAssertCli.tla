---------------------------- MODULE MCAssertCli -----------------------------
(***************************************************************************)
(* Two pods of the namespace, one of another namespace and a node, which   *)
(* has none.  The pods differ in the number of containers, in what is said *)
(* of them, and in the type of a field.                                    *)
(***************************************************************************)
EXTENDS AssertCli, FiniteSetsExt, TLC

One == Scalar("int64", "1")
C(image) == Map("image" :> Text(image))
CWithPolicy(image) == Map("image" :> Text(image) @@ "pull" :> Text("Always"))
Spec1 == Map("containers" :> Slice(<<CWithPolicy("a")>>) @@ "n" :> One)
Spec2 == Map("containers" :> Slice(<<C("a"), C("b")>>) @@ "n" :> Text("1"))
Web == Map("app" :> Text("web") @@ "tier" :> Text("front"))

Object(kind, metadata, spec) ==
    Map("kind" :> Text(kind) @@ "metadata" :> Map(metadata) @@ "spec" :> spec)
Nothing == [k \in {} |-> One]
Named(name) == "name" :> Text(name)
Labelled(labels) == "labels" :> labels
In(ns) == "namespace" :> Text(ns)

MCCandidates ==
    {Object("Pod", Named("p") @@ In("default") @@ Labelled(Web), s) : s \in {Spec1, Spec2}}
    \cup {Object("Pod", Named("q") @@ In("default"), s) : s \in {Spec1, Spec2}}
    \cup {Object("Pod", Named("p") @@ In("other") @@ Labelled(Web), Spec1),
          Object("Node", Named("p"), Map(Nothing))}

ByName == Object("Pod", Named("p"), Map("containers" :> Slice(<<C("a")>>)))
ByType == Object("Pod", Named("q"), Map("n" :> Text("1")))
ByLabel == Object("Pod", Labelled(Map("app" :> Text("web"))), Map("n" :> One))
Listed == Object("Pod", Nothing, Map("containers" :> Slice(<<C("a"), C("b")>>)))
Elsewhere == Object("Pod", In("other"), Map(Nothing))
ANode == Object("Node", Nothing, Map(Nothing))
NodeWithMore == Object("Node", Named("p"), Map("n" :> One))

MCDeclared == {<<>>, <<ByName>>, <<ByLabel>>, <<Elsewhere>>, <<NodeWithMore>>,
               <<ByName, Listed>>, <<ANode, ByType>>, <<ByType, ByName>>}

RECURSIVE WithParts(_)
WithParts(v) == {v} \cup UNION {WithParts(p) : p \in Parts(v)}
MCValues ==
    UNION {WithParts(v) : v \in MCCandidates
             \cup UNION {{d[i], SetNamespace(d[i])} : <<d, i>> \in
                            {<<e, j>> \in MCDeclared \X (1..2) : j \in DOMAIN e}}}
RECURSIVE DepthOf(_)
DepthOf(v) == IF Parts(v) = {} THEN 0 ELSE 1 + Max({DepthOf(p) : p \in Parts(v)})
MCDepth == [v \in MCValues |-> DepthOf(v)]
MCTimeouts == {-1, 0, 1, 2}
MCClusterKinds == {Text("Node")}
=============================================================================
