----------------------------- MODULE MCTestCase -----------------------------
(***************************************************************************)
(* Two parallel cases and, besides the default one, a kubeconfig with two  *)
(* contexts.  One case has an eager step in each of them, the other a lazy *)
(* step.  The first context leads to the default cluster or to another,    *)
(* the second to the other one.  Not every option is combined with every   *)
(* other: the settings that are left out only repeat conflicts of these.   *)
(***************************************************************************)
EXTENDS TestCase

CONSTANTS eager, lazy, aux, k1, k2, east, west

MCCase == {eager, lazy}
MCKubeconfig == {Default, aux}
MCContext == {NoContext, east, west}
East == [kc |-> aux, context |-> east]
West == [kc |-> aux, context |-> west]
OnEast == [kc |-> aux, context |-> east, lazy |-> FALSE]
OnWest == [kc |-> aux, context |-> west, lazy |-> FALSE]
MCSteps == [c \in MCCase |-> IF c = eager THEN <<OnEast, OnWest>>
                                          ELSE <<[OnWest EXCEPT !.lazy = TRUE]>>]
MCCluster == {k1, k2}

Route(far) == [p \in Client |->
                 IF p = West \/ (p = East /\ far) THEN k2 ELSE k1]
Run(u, far) == [userSupplied |-> u, skipDelete |-> FALSE, timed |-> TRUE,
                clusterOf |-> Route(far), forbidden |-> {}]
MCSettings ==
   {Run(FALSE, FALSE),
    [Run(FALSE, TRUE) EXCEPT !.skipDelete = TRUE],
    [Run(TRUE, FALSE) EXCEPT !.timed = FALSE]}
   \cup {[Run(u, TRUE) EXCEPT !.forbidden = {West}] : u \in BOOLEAN}
=============================================================================
