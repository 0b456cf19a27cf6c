------------------------------ MODULE TestCase ------------------------------
(***************************************************************************)
(* Test cases of one run (internal/testcase/case.go) and the namespaces    *)
(* they create and delete.  The cases run in parallel.  Each works in a    *)
(* namespace of its own, with a generated name, or all of them in the one  *)
(* the user supplied; a case needs its namespace in the cluster of every   *)
(* kubeconfig and context its steps use.                                   *)
(*                                                                         *)
(* Case.Run: setup creates the namespace through every eager client, then  *)
(* the steps run, those with a lazy kubeconfig after creating it through   *)
(* theirs.  What a step applied and each namespace are removed by          *)
(* t.Cleanup functions, last registered first, after Run has returned.     *)
(* Every step applies one object.  A request to create something whose     *)
(* answer did not come may be served later, at any time or never.          *)
(***************************************************************************)
EXTENDS Naturals, Sequences, SequencesExt

CONSTANTS
    Case,         \* the test cases
    Kubeconfig,   \* kubeconfig paths
    Default,      \* the path "": the client of the harness
    Context,      \* the contexts of a kubeconfig
    NoContext,    \* the context "": the current one
    Cluster,
    Settings,     \* the options and clusters to look at: see Setting
    Steps,        \* each case's sequence of StepConfig
    UserNs,       \* the name the user supplied
    NoCase,       \* the owner of a namespace that was there before the run
    MaxGarbled    \* bound: namespace creations whose answer cannot be parsed

StepConfig == [kc : Kubeconfig, context : Context, lazy : BOOLEAN]
Client == [kc : Kubeconfig, context : Context]
Setting == [userSupplied : BOOLEAN, skipDelete : BOOLEAN, timed : BOOLEAN,
            clusterOf : [Client -> Cluster], forbidden : SUBSET Client]
DefaultClient == [kc |-> Default, context |-> NoContext]

ASSUME TestCaseAssumption ==
    /\ Default \in Kubeconfig
    /\ NoContext \in Context
    /\ Settings \subseteq Setting
    /\ Steps \in [Case -> Seq(StepConfig)]
    /\ UserNs \notin Case
    /\ NoCase \notin Case
    /\ MaxGarbled \in Nat

Name == Case \cup {UserNs}
Gone == [phase |-> "absent", owner |-> NoCase]

VARIABLES
    userSupplied, \* c.ns.userSupplied, the same for all cases of a run
    skipDelete,   \* c.skipDelete
    timed,        \* c.timeout > 0
    clusterOf,    \* the cluster each client leads to
    forbidden,    \* clients that may not create namespaces
    ns,           \* the namespaces: ns[cluster][name]
    objs,         \* the objects made by the steps, [case, step]
    stray,        \* those of them no cleanup was registered for
    lateObjs,     \* objects whose creation was asked for and may come later
    lateNs,       \* the same of namespaces, [case, cluster]
    pc,           \* what each case is doing
    todo,         \* its eager clients that are still to be set up
    cl,           \* the client it uses
    step,         \* its current step, 0 in setup
    stack,        \* the cleanup functions it registered
    failed,       \* test.Failed()
    reported,     \* the report has a failure for the case
    dirty,        \* history: a cleanup of the case reported an error
    unclear,      \* history: the case cannot know that it made a namespace
    garbled       \* count for the bound

config == <<userSupplied, skipDelete, timed, clusterOf, forbidden>>
applied == <<objs, stray, lateObjs>>
cluster == <<ns, lateNs, applied>>
verdict == <<failed, reported>>
history == <<dirty, unclear, garbled>>
vars == <<config, cluster, pc, todo, cl, step, stack, verdict, history>>

NsName(c) == IF userSupplied THEN UserNs ELSE c
NsAt(c, k) == ns[clusterOf[k]][NsName(c)]
NsCleanup(k, existed) == [kind |-> "ns", cl |-> k, existed |-> existed, step |-> 0]
ObjCleanup(k, i) == [kind |-> "obj", cl |-> k, existed |-> FALSE, step |-> i]

\* Step.Setup: a context without a kubeconfig is not used.
StepClient(s) == IF s.kc = Default THEN DefaultClient
                                   ELSE [kc |-> s.kc, context |-> s.context]

Cleanup == [kind : {"ns", "obj"}, cl : Client, existed : BOOLEAN, step : Nat]

TypeOK == /\ {userSupplied, skipDelete, timed} \subseteq BOOLEAN
          /\ clusterOf \in [Client -> Cluster]
          /\ forbidden \subseteq Client
          /\ ns \in [Cluster -> [Name -> [phase : {"absent", "active", "terminating"},
                                         owner : Case \cup {NoCase}]]]
          /\ objs \cup stray \cup lateObjs \subseteq [case : Case, step : Nat]
          /\ \A o \in objs \cup lateObjs : o.step \in 1..Len(Steps[o.case])
          /\ lateNs \subseteq [case : Case, cluster : Cluster]
          /\ pc \in [Case -> {"clients", "setup", "create", "probe", "step", "body",
                              "cleanup", "await", "done"}]
          /\ todo \in [Case -> SUBSET Client]
          /\ cl \in [Case -> Client]
          /\ step \in [Case -> Nat]
          /\ stack \in [Case -> Seq(Cleanup)]
          /\ \A c \in Case : step[c] <= Len(Steps[c])
          /\ failed \in [Case -> BOOLEAN] /\ reported \in [Case -> BOOLEAN]
          /\ dirty \in [Case -> BOOLEAN] /\ unclear \in [Case -> BOOLEAN]
          /\ garbled \in 0..MaxGarbled

Init == /\ \E o \in Settings : /\ userSupplied = o.userSupplied
                               /\ skipDelete = o.skipDelete
                               /\ timed = o.timed
                               /\ clusterOf = o.clusterOf
                               /\ forbidden = o.forbidden
        /\ \E pre \in IF userSupplied THEN SUBSET Cluster ELSE {{}} :
              ns = [k \in Cluster |-> [n \in Name |->
                       IF n = UserNs /\ k \in pre
                       THEN [phase |-> "active", owner |-> NoCase] ELSE Gone]]
        /\ objs = {} /\ stray = {} /\ lateObjs = {} /\ lateNs = {}
        /\ pc = [c \in Case |-> "clients"]
        /\ todo = [c \in Case |-> {}]
        /\ cl = [c \in Case |-> DefaultClient]
        /\ step = [c \in Case |-> 0]
        /\ stack = [c \in Case |-> <<>>]
        /\ failed = [c \in Case |-> FALSE]
        /\ reported = [c \in Case |-> FALSE]
        /\ dirty = [c \in Case |-> FALSE]
        /\ unclear = [c \in Case |-> FALSE]
        /\ garbled = 0

Go(c, to) == pc' = [pc EXCEPT ![c] = to]

\* The failure of setup or of a step is reported and fails the test.  Run
\* returns: maybeReportEvents changes nothing, rep.Done closes the report of
\* the case, and the cleanup functions follow.
Fail(c) == /\ Go(c, "cleanup")
           /\ failed' = [failed EXCEPT ![c] = TRUE]
           /\ reported' = [reported EXCEPT ![c] = TRUE]

-----------------------------------------------------------------------------
(* setup and the lazy part of Run.                                         *)

\* mutant: only the default client is set up
EagerClients_Default(c) == {DefaultClient}

\* One client for each path: that of the first eager step that names it.
EagerClients(c) ==
    LET now == {i \in DOMAIN Steps[c] : ~Steps[c][i].lazy}
        first == {i \in now : /\ Steps[c][i].kc # Default
                              /\ \A j \in now : Steps[c][j].kc = Steps[c][i].kc
                                                 => i <= j}
    IN {DefaultClient} \cup {StepClient(Steps[c][i]) : i \in first}

GetEagerClients(c) == /\ pc[c] = "clients"
                      /\ \/ /\ Go(c, "setup")
                            /\ todo' = [todo EXCEPT ![c] = EagerClients(c)]
                            /\ UNCHANGED verdict
                         \/ Fail(c) /\ UNCHANGED todo
                      /\ UNCHANGED <<config, cluster, cl, step, stack, history>>

\* The clients come from a map, in any order.
NextClient(c) == /\ pc[c] = "setup"
                 /\ \E k \in todo[c] : /\ cl' = [cl EXCEPT ![c] = k]
                                       /\ todo' = [todo EXCEPT ![c] = @ \ {k}]
                 /\ Go(c, "create")
                 /\ UNCHANGED <<config, cluster, step, stack, verdict, history>>

NextStep(c) == /\ \/ pc[c] = "step"
                  \/ pc[c] = "setup" /\ todo[c] = {}
               /\ IF step[c] = Len(Steps[c])
                  THEN Go(c, "cleanup") /\ UNCHANGED <<step, cl, verdict>>
                  ELSE LET s == Steps[c][step[c] + 1] IN
                       /\ step' = [step EXCEPT ![c] = @ + 1]
                       /\ cl' = [cl EXCEPT ![c] = StepClient(s)]
                       /\ \/ Go(c, IF s.lazy THEN "create" ELSE "body")
                             /\ UNCHANGED verdict
                          \/ s.lazy /\ Fail(c)   \* no client for the lazy kubeconfig
               /\ UNCHANGED <<config, cluster, todo, stack, history>>

-----------------------------------------------------------------------------
(* createNamespace and didNsExist.                                         *)

\* createNamespace returns nil: register the cleanup and go on.
NsUsable(c, existed) ==
    /\ stack' = IF skipDelete THEN stack
                ELSE [stack EXCEPT ![c] = Append(@, NsCleanup(cl[c], existed))]
    /\ Go(c, IF step[c] = 0 THEN "setup" ELSE "body")
    /\ UNCHANGED verdict

\* Create is answered: a new namespace, or AlreadyExists, also for one that
\* is being deleted.
CreateNs(c) ==
    /\ pc[c] = "create" /\ cl[c] \notin forbidden
    /\ \/ /\ NsAt(c, cl[c]).phase = "absent"
          /\ ns' = [ns EXCEPT ![clusterOf[cl[c]]][NsName(c)] =
                       [phase |-> "active", owner |-> c]]
          /\ NsUsable(c, FALSE)
       \/ /\ NsAt(c, cl[c]).phase # "absent"
          /\ UNCHANGED ns
          /\ NsUsable(c, TRUE)
    /\ UNCHANGED <<config, applied, lateNs, todo, cl, step, history>>

\* The namespace is made but the answer cannot be parsed: RetryClient.Create
\* sends the request again.
CreateNsGarbled(c) ==
    /\ pc[c] = "create" /\ cl[c] \notin forbidden
    /\ NsAt(c, cl[c]).phase = "absent"
    /\ garbled < MaxGarbled
    /\ garbled' = garbled + 1
    /\ ns' = [ns EXCEPT ![clusterOf[cl[c]]][NsName(c)] =
                 [phase |-> "active", owner |-> c]]
    /\ unclear' = [unclear EXCEPT ![c] = @ \/ userSupplied]
    /\ UNCHANGED <<config, applied, lateNs, pc, todo, cl, step, stack, verdict, dirty>>

\* Any other error: the request is refused, perhaps after one that was served,
\* or it has no answer in time and may still be served.
CreateNsFails(c) ==
    /\ pc[c] = "create" /\ cl[c] \notin forbidden
    /\ Fail(c)
    /\ \/ /\ unclear' = [unclear EXCEPT ![c] = @ \/ NsAt(c, cl[c]).owner = c]
          /\ UNCHANGED lateNs
       \/ /\ lateNs' = lateNs \cup {[case |-> c, cluster |-> clusterOf[cl[c]]]}
          /\ unclear' = [unclear EXCEPT ![c] = TRUE]
    /\ UNCHANGED <<config, ns, applied, todo, cl, step, stack, dirty, garbled>>

CreateNsForbidden(c) ==
    /\ pc[c] = "create" /\ cl[c] \in forbidden
    /\ Go(c, "probe")
    /\ UNCHANGED <<config, cluster, todo, cl, step, stack, verdict, history>>

\* didNsExist asks for the namespace: it is there, it is not, or this may
\* not be asked either and the user is trusted.
Probe(c) ==
    /\ pc[c] = "probe"
    /\ \/ NsAt(c, cl[c]).phase # "absent" /\ NsUsable(c, TRUE)
       \/ NsAt(c, cl[c]).phase = "absent" /\ Fail(c) /\ UNCHANGED stack
       \/ NsUsable(c, TRUE)
    /\ UNCHANGED <<config, cluster, todo, cl, step, history>>

-----------------------------------------------------------------------------
(* A step.                                                                 *)

\* mutant: the index is that of the next step
Applied_Next(c) == [case |-> c, step |-> step[c] + 1]

\* What Create applies in the current step.
Applied(c) == [case |-> c, step |-> step[c]]

\* What CreateOrUpdate tells of the object in a namespace that is there.  It
\* made the object: Create registers its cleanup.  It made the object, but
\* the answer could not be parsed, and its repetition found it: it calls the
\* object updated.  It updated an object that was there before.
ApplyAnswered(c) ==
    \/ /\ objs' = objs \cup {Applied(c)}
       /\ stack' = IF skipDelete THEN stack
                   ELSE [stack EXCEPT ![c] = Append(@, ObjCleanup(cl[c], step[c]))]
       /\ UNCHANGED stray
    \/ /\ objs' = objs \cup {Applied(c)}
       /\ stray' = stray \cup {Applied(c)}
       /\ UNCHANGED stack
    \/ UNCHANGED <<objs, stray, stack>>

\* The step passes or fails after its Create; or Create ends with an error,
\* after which the object may still be made, or be there already.
RunStep(c) ==
    /\ pc[c] = "body"
    /\ \/ /\ NsAt(c, cl[c]).phase = "active"
          /\ ApplyAnswered(c) /\ UNCHANGED lateObjs
          /\ \/ Go(c, "step") /\ UNCHANGED verdict
             \/ Fail(c)
       \/ /\ Fail(c)
          /\ lateObjs' = lateObjs \cup {Applied(c)}
          /\ UNCHANGED <<objs, stray, stack>>
    /\ UNCHANGED <<config, ns, lateNs, todo, cl, step, history>>

-----------------------------------------------------------------------------
(* The cleanup functions.                                                  *)

Top(c) == Last(stack[c])
Pop(c) == /\ stack' = [stack EXCEPT ![c] = Front(@)]
          /\ Go(c, "cleanup")
CleanupOf(c, kind) == pc[c] = "cleanup" /\ stack[c] # <<>> /\ Top(c).kind = kind

\* mutant: a namespace is kept because the user supplied it, or because it existed
KeepNs_Either(c) == userSupplied \/ Top(c).existed
\* mutant: the user's namespace is deleted like any other
KeepNs_Never(c) == FALSE

KeepNs(c) == userSupplied /\ Top(c).existed

SkipNs(c) == /\ CleanupOf(c, "ns") /\ KeepNs(c)
             /\ Pop(c)
             /\ UNCHANGED <<config, cluster, todo, cl, step, verdict, history>>

\* deleteNamespace starts: NotFound is fine, and a namespace that is being
\* deleted already stays so.
DeleteNs(c) ==
    /\ CleanupOf(c, "ns") /\ ~KeepNs(c)
    /\ Go(c, "await")
    /\ ns' = [ns EXCEPT ![clusterOf[Top(c).cl]][NsName(c)].phase =
                 IF @ = "active" THEN "terminating" ELSE @]
    /\ UNCHANGED <<config, applied, lateNs, todo, cl, step, stack, verdict, history>>

\* mutant: the poll for the end of the namespace never has a deadline
AwaitNs_Forever(c) ==
    /\ pc[c] = "await"
    /\ NsAt(c, Top(c).cl).phase = "absent"
    /\ Pop(c) /\ UNCHANGED <<failed, dirty>>
    /\ UNCHANGED <<config, cluster, todo, cl, step, reported, unclear, garbled>>

\* The poll ends when no namespace has the name, or with the timeout if there
\* is one.
AwaitNs(c) ==
    /\ pc[c] = "await"
    /\ \/ NsAt(c, Top(c).cl).phase = "absent" /\ UNCHANGED <<failed, dirty>>
       \/ /\ timed
          /\ failed' = [failed EXCEPT ![c] = TRUE]
          /\ dirty' = [dirty EXCEPT ![c] = TRUE]
    /\ Pop(c)
    /\ UNCHANGED <<config, cluster, todo, cl, step, reported, unclear, garbled>>

\* One more Get that finds a namespace, or fails.
PollNs(c) == pc[c] = "await" /\ UNCHANGED vars

\* The cleanup of an applied object does not wait for the object to go.
DeleteObj(c) ==
    /\ CleanupOf(c, "obj")
    /\ objs' = objs \ {[case |-> c, step |-> Top(c).step]}
    /\ Pop(c)
    /\ UNCHANGED <<config, ns, lateNs, stray, lateObjs, todo, cl, step, verdict, history>>

\* A Delete that is refused fails the test; the next cleanup goes on.
CleanupFails(c) ==
    /\ pc[c] = "cleanup" /\ stack[c] # <<>>
    /\ Top(c).kind = "ns" => ~KeepNs(c)
    /\ failed' = [failed EXCEPT ![c] = TRUE]
    /\ dirty' = [dirty EXCEPT ![c] = TRUE]
    /\ Pop(c)
    /\ UNCHANGED <<config, cluster, todo, cl, step, reported, unclear, garbled>>

Finish(c) == /\ pc[c] = "cleanup" /\ stack[c] = <<>>
             /\ Go(c, "done")
             /\ UNCHANGED <<config, cluster, todo, cl, step, stack, verdict, history>>

-----------------------------------------------------------------------------
\* The namespace controller (external) empties and removes a namespace.
ObjCluster(o) == clusterOf[StepClient(Steps[o.case][o.step])]
Finalize(k, n) ==
    /\ ns[k][n].phase = "terminating"
    /\ ns' = [ns EXCEPT ![k][n] = Gone]
    /\ objs' = {o \in objs : ~(ObjCluster(o) = k /\ NsName(o.case) = n)}
    /\ stray' = stray \cap objs'
    /\ UNCHANGED <<config, lateNs, lateObjs, pc, todo, cl, step, stack, verdict, history>>

\* The API server (external) serves a request nobody waits for any more: it
\* does what it asks for if it still can.
ServeNs(q) ==
    /\ q \in lateNs
    /\ lateNs' = lateNs \ {q}
    /\ \/ /\ ns[q.cluster][NsName(q.case)].phase = "absent"
          /\ ns' = [ns EXCEPT ![q.cluster][NsName(q.case)] =
                       [phase |-> "active", owner |-> q.case]]
       \/ ns[q.cluster][NsName(q.case)].phase # "absent" /\ UNCHANGED ns
    /\ UNCHANGED <<config, applied, pc, todo, cl, step, stack, verdict, history>>

ServeObj(o) ==
    /\ o \in lateObjs
    /\ lateObjs' = lateObjs \ {o}
    /\ \/ /\ ns[ObjCluster(o)][NsName(o.case)].phase = "active"
          /\ objs' = objs \cup {o}
          /\ stray' = stray \cup {o}
       \/ /\ ns[ObjCluster(o)][NsName(o.case)].phase # "active"
          /\ UNCHANGED <<objs, stray>>
    /\ UNCHANGED <<config, ns, lateNs, pc, todo, cl, step, stack, verdict, history>>

CaseNext(c) ==
    \/ GetEagerClients(c) \/ NextClient(c) \/ NextStep(c)
    \/ CreateNs(c) \/ CreateNsGarbled(c) \/ CreateNsFails(c)
    \/ CreateNsForbidden(c) \/ Probe(c)
    \/ RunStep(c)
    \/ SkipNs(c) \/ DeleteNs(c) \/ AwaitNs(c) \/ PollNs(c) \/ DeleteObj(c)
    \/ CleanupFails(c) \/ Finish(c)

Terminated == (\A c \in Case : pc[c] = "done") /\ UNCHANGED vars

Next == \/ \E c \in Case : CaseNext(c)
        \/ \E k \in Cluster, n \in Name : Finalize(k, n)
        \/ \E q \in lateNs : ServeNs(q)
        \/ \E o \in lateObjs : ServeObj(o)
        \/ Terminated

Spec == Init /\ [][Next]_vars

\* Every case is a goroutine that the Go scheduler runs.  Nothing makes the
\* namespace controller finish, or the API server serve a late request.
FairSpec == Spec /\ \A c \in Case : WF_vars(CaseNext(c))

-----------------------------------------------------------------------------
(* Properties.                                                             *)

\* A namespace is deleted only by the case that made it, as that case starts
\* deleteNamespace: never one that was there before the run, and never the
\* one another case made.
OnlyCreatorDeletes ==
    [][\A k \in Cluster, n \in Name :
          ns[k][n].phase = "active" /\ ns'[k][n].phase = "terminating"
          => LET d == ns[k][n].owner
             IN d \in Case /\ pc[d] = "cleanup" /\ pc'[d] = "await"]_vars

\* getEagerClients has only the client of another context for the path of
\* the current, eager, step.
Overlooked(c) ==
    LET s == Steps[c][step[c]]
        same == {i \in DOMAIN Steps[c] : ~Steps[c][i].lazy /\ Steps[c][i].kc = s.kc}
        first == CHOOSE i \in same : \A j \in same : i <= j
    IN ~s.lazy /\ StepClient(Steps[c][first]) # StepClient(s)

\* With generated names, a step runs in a namespace that is there, whether
\* its kubeconfig is eager or lazy, unless its client may not create it or
\* an earlier eager step uses another context of the kubeconfig.
NamespaceReady ==
    \A c \in Case : /\ pc[c] = "body"
                    /\ ~userSupplied
                    /\ cl[c] \notin forbidden
                    /\ ~Overlooked(c)
                    => NsAt(c, cl[c]).phase = "active"

\* A case that is done leaves no namespace it made, if its cleanup met no
\* error and it could know which namespaces it had made, whoever else works
\* under the name.  It leaves an object only in the namespace the user
\* supplied, and only one that Create was told had been updated, or whose
\* creation Create had given up.
NothingLeftBehind ==
    \A c \in Case : /\ pc[c] = "done"
                    /\ ~skipDelete
                    /\ ~dirty[c]
                    /\ ~unclear[c]
                    => /\ \A k \in Cluster, n \in Name : ns[k][n].owner # c
                       /\ \A o \in objs : o.case = c => userSupplied /\ o \in stray

\* Every case that has a timeout ends, also when a namespace is never removed.
EveryCaseEnds == timed => \A c \in Case : <>(pc[c] = "done")
=============================================================================
