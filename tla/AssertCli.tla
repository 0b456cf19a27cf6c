----------------------------- MODULE AssertCli ------------------------------
(***************************************************************************)
(* kuttl assert and kuttl errors (internal/assert/assert.go): the objects  *)
(* of some files are compared with those of the cluster, in rounds a       *)
(* second apart, until a round finds no error or there was one round for   *)
(* each second of the timeout.  One object is CheckResource or             *)
(* CheckResourceAbsent of internal/step/step.go.                           *)
(*                                                                         *)
(* Objects are values of Subset: maps with "kind", "metadata" (itself a    *)
(* map with "name", "namespace" and "labels", each of which may be         *)
(* missing) and the rest.  Other users change the cluster at any moment,   *)
(* also between two reads of a round.                                      *)
(***************************************************************************)
EXTENDS Subset, Integers

CONSTANTS
    Candidates,   \* the objects that may be in the cluster
    Declared,     \* the sequences of objects that files may declare
    Timeouts,     \* values of --timeout to look at
    Namespace,    \* --namespace, which is not empty
    ClusterKinds  \* the kinds without namespaces

VARIABLES
    mode,       \* the command: "assert" or "errors"
    timeout,    \* timeout
    objects,    \* the declared objects, as Namespaced leaves them
    world,      \* the objects of the cluster
    pc,
    round,      \* rounds begun
    next,       \* the next object of this round
    testErrors, \* the objects of this round with an error
    verdict,    \* what the command returns
    held        \* history: objects of this round read when they were as wanted

vars == <<mode, timeout, objects, world, pc, round, next, testErrors, verdict, held>>
config == <<mode, timeout>>

Kind(o) == o.at["kind"]
Metadata(o) == o.at["metadata"]
Sets(o, key) == key \in DOMAIN Metadata(o).at
Get(o, key) == Metadata(o).at[key]
With(f, key, v) == [k \in DOMAIN f \cup {key} |-> IF k = key THEN v ELSE f[k]]
SetNamespace(o) ==
    [o EXCEPT !.at["metadata"] = Map(With(@.at, "namespace", Text(Namespace)))]

\* No two objects of the cluster share kind, namespace and name.
Identity(o) == [kind |-> Kind(o), name |-> Get(o, "name"),
                ns |-> IF Sets(o, "namespace") THEN Get(o, "namespace") ELSE Text("")]
Worlds == {w \in SUBSET Candidates : \A o, p \in w : Identity(o) = Identity(p) => o = p}

\* The form of an object: kind, name, namespace and labels are strings.
IsObject(o) ==
    /\ o \in Values /\ o = Map(o.at) /\ {"kind", "metadata"} \subseteq DOMAIN o.at
    /\ IsScalar(Kind(o)) /\ Metadata(o) = Map(Metadata(o).at)
    /\ \A key \in {"name", "namespace"} : Sets(o, key) => IsScalar(Get(o, key))
    /\ Sets(o, "labels") => /\ Get(o, "labels").type = "map"
                            /\ \A l \in DOMAIN Get(o, "labels").at :
                                  IsScalar(Get(o, "labels").at[l])

ASSUME AssertCliAssumption ==
    /\ Timeouts \subseteq Int
    /\ \A o \in Candidates :
          /\ IsObject(o) /\ Sets(o, "name")
          /\ Sets(o, "namespace") <=> Kind(o) \notin ClusterKinds
    /\ \A d \in Declared :
          /\ d \in Seq(Values)
          /\ \A i \in DOMAIN d :
                /\ IsObject(d[i]) /\ SetNamespace(d[i]) \in Values
                /\ Sets(d[i], "namespace") => Kind(d[i]) \notin ClusterKinds

ASSUME NamespaceAssumption == Namespace # ""

TypeOK == /\ mode \in {"assert", "errors"}
          /\ timeout \in Timeouts
          /\ objects \in Seq(Values)
          /\ world \in Worlds
          /\ pc \in {"load", "round", "check", "sleep", "report", "done"}
          /\ round \in Nat /\ (round > 0 => round <= timeout)
          /\ next \in 1..Len(objects) + 1
          /\ testErrors \subseteq 1..Len(objects)
          /\ held \subseteq 1..(next - 1)
          /\ verdict \in {"none", "unreadable", "valid", "invalid"}

Init == /\ mode \in {"assert", "errors"}
        /\ timeout \in Timeouts
        /\ objects \in Declared
        /\ world \in Worlds
        /\ pc = "load"
        /\ round = 0 /\ next = 1
        /\ testErrors = {} /\ verdict = "none"
        /\ held = {}

-----------------------------------------------------------------------------
\* Somebody creates, changes or deletes one object.
WorldMoves == /\ pc # "done"
              /\ \E o \in Candidates :
                    LET others == {p \in world : Identity(p) # Identity(o)}
                    IN world' \in {others, others \cup {o}} \ {world}
              /\ UNCHANGED <<config, objects, pc, round, next, testErrors, verdict, held>>

\* No arguments, or one of the files cannot be read.
LoadFails == /\ pc = "load"
             /\ pc' = "done" /\ verdict' = "unreadable"
             /\ UNCHANGED <<config, objects, world, round, next, testErrors, held>>

Load == /\ pc = "load"
        /\ pc' = "round"
        /\ UNCHANGED <<config, objects, world, round, next, testErrors, verdict, held>>

-----------------------------------------------------------------------------
(* One object.                                                             *)

\* Get, or list with the labels that are expected; without a namespace, all
\* namespaces are listed.
Read(e) ==
    {o \in world :
        /\ Kind(o) = Kind(e)
        /\ Sets(e, "namespace") => Sets(o, "namespace") /\ Get(o, "namespace") = Get(e, "namespace")
        /\ IF Sets(e, "name")
           THEN Get(o, "name") = Get(e, "name")
           ELSE Sets(e, "labels") =>
                   /\ Sets(o, "labels")
                   /\ \A l \in DOMAIN Get(e, "labels").at :
                         /\ l \in DOMAIN Get(o, "labels").at
                         /\ Get(o, "labels").at[l] = Get(e, "labels").at[l]}

Matching(e) == {o \in Read(e) : IsSubset[e][o]}

\* CheckResource returns no errors: one of the objects is as expected.
CheckResource(e) == Matching(e) # {}

\* CheckResourceAbsent returns nil: NotFound, or none is as expected.
CheckResourceAbsent(e) == Matching(e) = {}

\* Namespaced sets the namespace of the declared object itself, unless it
\* has one or its kind has none.
Namespaced(e) == IF Sets(e, "namespace") \/ Kind(e) \in ClusterKinds
                 THEN e ELSE SetNamespace(e)

\* What a declaration says, whatever way the objects are found.
IsIn(e, w) == \E o \in w : Facts[Namespaced(e)] \subseteq Facts[o]
Holds(e) == IF mode = "assert" THEN IsIn(e, world) ELSE ~IsIn(e, world)

-----------------------------------------------------------------------------
(* The rounds.                                                             *)

\* mutant: the errors of earlier rounds are kept
BeginRound_Keeps ==
    /\ pc = "round"
    /\ IF round < timeout
       THEN /\ pc' = "check" /\ round' = round + 1 /\ next' = 1
            /\ held' = {}
            /\ UNCHANGED testErrors
       ELSE pc' = "report" /\ UNCHANGED <<round, next, testErrors, held>>
    /\ UNCHANGED <<config, objects, world, verdict>>

\* mutant: one round too many
BeginRound_OneMore ==
    /\ pc = "round"
    /\ IF round <= timeout
       THEN /\ pc' = "check" /\ round' = round + 1 /\ next' = 1
            /\ testErrors' = {} /\ held' = {}
       ELSE pc' = "report" /\ UNCHANGED <<round, next, testErrors, held>>
    /\ UNCHANGED <<config, objects, world, verdict>>

\* mutant: rounds begin until one finds no errors
BeginRound_Forever ==
    /\ pc = "round"
    /\ pc' = "check" /\ next' = 1
    /\ testErrors' = {} /\ held' = {}
    /\ UNCHANGED <<config, objects, world, round, verdict>>

\* for range timeout: no round for a timeout of 0 or less.
BeginRound ==
    /\ pc = "round"
    /\ IF round < timeout
       THEN /\ pc' = "check" /\ round' = round + 1 /\ next' = 1
            /\ testErrors' = {} /\ held' = {}
       ELSE pc' = "report" /\ UNCHANGED <<round, next, testErrors, held>>
    /\ UNCHANGED <<config, objects, world, verdict>>

Answered ==
    LET e == Namespaced(objects[next])
        ok == IF mode = "assert" THEN CheckResource(e) ELSE CheckResourceAbsent(e)
    IN /\ objects' = [objects EXCEPT ![next] = e]
       /\ testErrors' = IF ok THEN testErrors ELSE testErrors \cup {next}
       /\ held' = IF Holds(e) THEN held \cup {next} ELSE held

\* There is no client, or the kind is not known yet, or Get or List fails.
Unanswered ==
    /\ objects' \in {objects, [objects EXCEPT ![next] = Namespaced(@)]}
    /\ testErrors' = testErrors \cup {next}
    /\ UNCHANGED held

CheckOne == /\ pc = "check" /\ next <= Len(objects)
            /\ Answered \/ Unanswered
            /\ next' = next + 1
            /\ UNCHANGED <<config, world, pc, round, verdict>>

EndRound == /\ pc = "check" /\ next > Len(objects)
            /\ pc' = IF testErrors = {} THEN "report" ELSE "sleep"
            /\ UNCHANGED <<config, objects, world, round, next, testErrors, verdict, held>>

\* A second passes, also after the last round.
Wake == /\ pc = "sleep"
        /\ pc' = "round"
        /\ UNCHANGED <<config, objects, world, round, next, testErrors, verdict, held>>

Report == /\ pc = "report"
          /\ pc' = "done"
          /\ verdict' = IF testErrors = {} THEN "valid" ELSE "invalid"
          /\ UNCHANGED <<config, objects, world, round, next, testErrors, held>>

Terminated == pc = "done" /\ UNCHANGED vars

Command == LoadFails \/ Load \/ BeginRound \/ CheckOne \/ EndRound \/ Wake \/ Report

Next == Command \/ WorldMoves \/ Terminated

Spec == Init /\ [][Next]_vars

\* The command runs and its requests are answered, well or not.
FairSpec == Spec /\ WF_vars(Command)

-----------------------------------------------------------------------------
(* Properties.                                                             *)

\* A command with a timeout says "valid" only if one round found every
\* declared object in the cluster, each saying all that the file says, or
\* none of them for errors: at the moment of its own read, while the
\* cluster changes, and after any number of rounds that did not.
ValidMeansSeen == verdict = "valid" /\ timeout > 0 => held = DOMAIN objects

\* A command says "not valid" only at the end of its time, and only if the
\* last round met an object that was not as wanted or could not be read.
InvalidOnlyAtEnd == verdict = "invalid" => /\ round = timeout
                                           /\ held # DOMAIN objects

\* Every command ends, whatever happens to the cluster.
CommandEnds == <>(pc = "done")
=============================================================================
