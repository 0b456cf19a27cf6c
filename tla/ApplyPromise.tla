---------------------------- MODULE ApplyPromise ----------------------------
(***************************************************************************)
(* What a test step may rely on when it applies an object: the object is   *)
(* created if it is not there and changed in place if it is, the outcome   *)
(* says which of the two happened last, a successful call writes no more,  *)
(* and exactly an object whose outcome is "created" is cleaned up, once.   *)
(* No requests, no retries, no goroutines.                                 *)
(***************************************************************************)
EXTENDS Naturals

CONSTANT SkipDelete

VARIABLES
    object,   \* the object of the cluster: its version and its creator
    theirs,   \* how often other users wrote it
    last,     \* the last write of the call: "none", "created" or "updated"
    outcome,  \* of the call: "none" yet, "created", "updated" or "failed"
    cleanup   \* "none", "registered" or "run"

pvars == <<object, theirs, last, outcome, cleanup>>

Nothing == [rv |-> 0, by |-> "none"]

PInit == /\ last = "none" /\ outcome = "none" /\ cleanup = "none"
         /\ object.by \in {"none", "other"}
         /\ theirs = 0

Others == /\ theirs' = theirs + 1
          /\ UNCHANGED <<last, outcome, cleanup>>

\* A call that failed may have requests on their way.
Writing == outcome \in {"none", "failed"} /\ UNCHANGED <<theirs, outcome, cleanup>>

Create == /\ Writing
          /\ object = Nothing /\ object'.by = "kuttl"
          /\ last' = "created"

Update == /\ Writing
          /\ object # Nothing
          /\ object'.by = object.by /\ object'.rv > object.rv
          /\ last' = "updated"

Return == /\ outcome = "none"
          /\ outcome' \in {last, "failed"} \ {"none"}
          /\ cleanup' = IF outcome' = "created" /\ ~SkipDelete THEN "registered" ELSE "none"
          /\ UNCHANGED <<object, theirs, last>>

Clean == /\ cleanup = "registered" /\ cleanup' = "run"
         /\ object' \in {object, Nothing}
         /\ UNCHANGED <<theirs, last, outcome>>

PNext == Others \/ Create \/ Update \/ Return \/ Clean

PSpec == PInit /\ [][PNext]_pvars
=============================================================================
