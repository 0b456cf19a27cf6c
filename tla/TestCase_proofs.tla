--------------------------- MODULE TestCase_proofs ---------------------------
(***************************************************************************)
(* Proofs about test cases, for any number of cases, kubeconfigs, contexts *)
(* and clusters, any sequences of steps and any settings.                  *)
(***************************************************************************)
EXTENDS TestCase, SequenceTheorems, WellFoundedInduction, TLAPS

(* The inductive invariant.                                                *)

\* Where a case is in Run and in its cleanup functions.
ControlInv(c) ==
    /\ pc[c] \in {"clients", "setup"} => step[c] = 0
    /\ pc[c] \in {"step", "body"} => step[c] > 0
    /\ step[c] > 0 => todo[c] = {}
    /\ pc[c] = "await" => stack[c] # <<>> /\ Top(c).kind = "ns"
    /\ pc[c] = "done" => stack[c] = <<>>

\* The client is that of the current step, which created a namespace itself
\* if it is lazy.
ClientInv(c) ==
    /\ pc[c] = "probe" => cl[c] \in forbidden
    /\ pc[c] \in {"create", "probe", "body"} /\ step[c] > 0
       => /\ cl[c] = StepClient(Steps[c][step[c]])
          /\ pc[c] # "body" => Steps[c][step[c]].lazy

\* The cleanup functions that did not start yet.
Pending(c) == {i \in 1..Len(stack[c]) : ~(pc[c] = "await" /\ i = Len(stack[c]))}

\* The case will delete the user's namespace only where it made it, once.
Made(e) == e.kind = "ns" /\ ~e.existed
MadeBy(k, c) == ns[k][UserNs].phase = "active" /\ ns[k][UserNs].owner = c
CreatorInv(c) ==
    userSupplied =>
    \A i \in 1..Len(stack[c]) :
        Made(stack[c][i])
        => /\ i \in Pending(c) => MadeBy(clusterOf[stack[c][i].cl], c)
           /\ \A j \in 1..Len(stack[c]) :
                 Made(stack[c][j]) /\ clusterOf[stack[c][i].cl] = clusterOf[stack[c][j].cl]
                 => i = j

\* Until its steps are over, the namespaces a case has set up are there.
Active(c, k) == ns[clusterOf[k]][c].phase = "active"
ReadyInv(c) ==
    ~userSupplied =>
    /\ pc[c] \notin {"cleanup", "await", "done"}
       => \A k \in Cluster : ns[k][c].phase # "terminating"
    /\ pc[c] \in {"setup", "create", "probe", "step", "body"}
       => \A k \in EagerClients(c) \ (todo[c] \cup forbidden) :
             \/ Active(c, k)
             \/ step[c] = 0 /\ pc[c] \in {"create", "probe"} /\ k = cl[c]
    /\ pc[c] = "body" /\ Steps[c][step[c]].lazy
       => cl[c] \in forbidden \/ Active(c, cl[c])

\* A cleanup function deletes the namespace of the case in cluster k, and has
\* not seen it gone yet.
Covered(c, k) ==
    \/ \E i \in 1..Len(stack[c]) : /\ stack[c][i].kind = "ns"
                                   /\ clusterOf[stack[c][i].cl] = k
                                   /\ ~(userSupplied /\ stack[c][i].existed)
    \/ /\ pc[c] = "create" /\ ~userSupplied
       /\ cl[c] \notin forbidden /\ clusterOf[cl[c]] = k

\* What a case makes and applies is left to a cleanup function.
CleanupInv(c) ==
    ~skipDelete /\ ~dirty[c]
    => /\ ~unclear[c]
          => \A k \in Cluster, n \in Name : ns[k][n].owner = c => Covered(c, k)
       /\ \A o \in objs :
             o.case = c
             => \/ o \in stray
                \/ \E i \in 1..Len(stack[c]) : /\ stack[c][i].kind = "obj"
                                               /\ stack[c][i].step = o.step

\* A namespace belongs to the case that made it, under the name of that
\* case; with generated names nobody else uses the name.
NameAt(k, n) == /\ ns[k][n].phase = "absent" => ns[k][n].owner = NoCase
                /\ ns[k][n].owner \in Case => n = NsName(ns[k][n].owner)
                /\ ~userSupplied /\ ns[k][n].phase # "absent" => ns[k][n].owner = n
NameInv == \A k \in Cluster, n \in Name : NameAt(k, n)

\* Who asked for a namespace that may come late cannot know of it.
LateInv == \A q \in lateNs : unclear[q.case]

\* An object is in a namespace that is there.
HomeInv == \A o \in objs : ns[ObjCluster(o)][NsName(o.case)].phase # "absent"

CaseInv(c) == ControlInv(c) /\ ClientInv(c) /\ CreatorInv(c) /\ ReadyInv(c) /\ CleanupInv(c)

IInv == TypeOK /\ NameInv /\ HomeInv /\ LateInv /\ \A c \in Case : CaseInv(c)

-----------------------------------------------------------------------------
(* Stacks and clients.                                                     *)

LEMMA Popped ==
    ASSUME NEW s \in Seq(Cleanup), s # <<>>
    PROVE  /\ Len(s) \in Nat /\ Len(s) > 0 /\ DOMAIN s = 1..Len(s)
           /\ Last(s) = s[Len(s)] /\ Last(s) \in Cleanup
           /\ Front(s) \in Seq(Cleanup)
           /\ DOMAIN Front(s) = 1..(Len(s) - 1) /\ Len(Front(s)) = Len(s) - 1
           /\ \A i \in 1..(Len(s) - 1) : Front(s)[i] = s[i]
<1>1. Len(s) \in Nat /\ Len(s) > 0 /\ DOMAIN s = 1..Len(s)
  BY EmptySeq, LenProperties
<1>2. \A i \in 1..Len(s) : s[i] \in Cleanup
  BY ElementOfSeq
<1>3. /\ SubSeq(s, 1, Len(s) - 1) \in Seq(Cleanup)
      /\ Len(SubSeq(s, 1, Len(s) - 1)) = Len(s) - 1
      /\ \A i \in 1..(Len(s) - 1) : SubSeq(s, 1, Len(s) - 1)[i] = s[i]
  <2>1. 1 \in Int /\ Len(s) - 1 \in Int /\ \A i \in 1..(Len(s) - 1) : s[i] \in Cleanup
    BY <1>1, <1>2
  <2>2. /\ SubSeq(s, 1, Len(s) - 1) \in Seq(Cleanup)
        /\ Len(SubSeq(s, 1, Len(s) - 1)) = IF 1 <= Len(s) - 1 THEN Len(s) - 1 - 1 + 1 ELSE 0
        /\ \A i \in 1..(Len(s) - 1 - 1 + 1) : SubSeq(s, 1, Len(s) - 1)[i] = s[1 + i - 1]
    BY <2>1, SubSeqProperties
  <2> QED BY <1>1, <2>2
<1>4. DOMAIN SubSeq(s, 1, Len(s) - 1) = 1..(Len(s) - 1)
  BY <1>3, LenProperties
<1> QED
  BY <1>1, <1>2, <1>3, <1>4 DEF Front, Last

LEMMA Pushed ==
    ASSUME NEW s \in Seq(Cleanup), NEW e \in Cleanup
    PROVE  /\ Len(s) \in Nat /\ DOMAIN s = 1..Len(s)
           /\ Append(s, e) \in Seq(Cleanup)
           /\ DOMAIN Append(s, e) = 1..(Len(s) + 1) /\ Len(Append(s, e)) = Len(s) + 1
           /\ \A i \in 1..Len(s) : Append(s, e)[i] = s[i]
           /\ Append(s, e)[Len(s) + 1] = e
BY AppendProperties, LenProperties

\* What a step names are clients, and so are the eager ones.
LEMMA Clients ==
    ASSUME NEW c \in Case
    PROVE  /\ Len(Steps[c]) \in Nat /\ DOMAIN Steps[c] = 1..Len(Steps[c])
           /\ \A i \in 1..Len(Steps[c]) : Steps[c][i] \in StepConfig
           /\ DefaultClient \in Client
           /\ \A s \in StepConfig : StepClient(s) \in Client
           /\ EagerClients(c) \subseteq Client
<1>1. Steps[c] \in Seq(StepConfig)
  BY TestCaseAssumption
<1>2. /\ Len(Steps[c]) \in Nat /\ DOMAIN Steps[c] = 1..Len(Steps[c])
      /\ \A i \in 1..Len(Steps[c]) : Steps[c][i] \in StepConfig
  BY <1>1, LenProperties, ElementOfSeq
<1>3. DefaultClient \in Client
  BY TestCaseAssumption DEF DefaultClient, Client
<1>4. \A s \in StepConfig : StepClient(s) \in Client
  BY <1>3 DEF StepConfig, StepClient, Client
<1> QED
  BY <1>2, <1>3, <1>4 DEF EagerClients

LEMMA InitIInv == Init => IInv
<1> SUFFICES ASSUME Init PROVE IInv
  OBVIOUS
<1>1. TypeOK
  <2>1. PICK o \in Settings : /\ userSupplied = o.userSupplied
                              /\ skipDelete = o.skipDelete
                              /\ timed = o.timed
                              /\ clusterOf = o.clusterOf
                              /\ forbidden = o.forbidden
    BY DEF Init
  <2>2. o \in Setting
    BY TestCaseAssumption
  <2>3. /\ {userSupplied, skipDelete, timed} \subseteq BOOLEAN
        /\ clusterOf \in [Client -> Cluster] /\ forbidden \subseteq Client
    <3>1. o.userSupplied \in BOOLEAN /\ o.skipDelete \in BOOLEAN /\ o.timed \in BOOLEAN
      BY <2>2 DEF Setting
    <3>2. o.clusterOf \in [Client -> Cluster] /\ o.forbidden \subseteq Client
      BY <2>2 DEF Setting
    <3> QED BY <2>1, <3>1, <3>2, Zenon
  <2>4. ns \in [Cluster -> [Name -> [phase : {"absent", "active", "terminating"},
                                     owner : Case \cup {NoCase}]]]
    BY DEF Init, Gone
  <2>5. \A c \in Case : DefaultClient \in Client /\ Len(Steps[c]) \in Nat
    BY Clients
  <2>6. stack \in [Case -> Seq(Cleanup)]
    BY EmptySeq DEF Init
  <2>7. cl \in [Case -> Client]
    BY <2>5 DEF Init
  <2>8. /\ failed \in [Case -> BOOLEAN] /\ reported \in [Case -> BOOLEAN]
        /\ dirty \in [Case -> BOOLEAN] /\ unclear \in [Case -> BOOLEAN]
    BY DEF Init
  <2>9. step \in [Case -> Nat] /\ \A c \in Case : step[c] <= Len(Steps[c])
    BY <2>5 DEF Init
  <2> QED
    BY <2>3, <2>4, <2>6, <2>7, <2>8, <2>9, TestCaseAssumption DEF Init, TypeOK
<1>2. NameInv
  BY TestCaseAssumption DEF Init, NameInv, NameAt, Gone
<1>4. HomeInv /\ LateInv
  BY DEF Init, HomeInv, LateInv
<1>3. ASSUME NEW c \in Case PROVE CaseInv(c)
  <2>1. ControlInv(c) /\ ClientInv(c)
    BY DEF Init, ControlInv, ClientInv
  <2>2. CreatorInv(c)
    BY EmptySeq DEF Init, CreatorInv
  <2>3. ReadyInv(c)
    BY TestCaseAssumption DEF Init, ReadyInv, Gone, Name
  <2>4. CleanupInv(c)
    BY TestCaseAssumption DEF Init, CleanupInv, Gone
  <2> QED BY <2>1, <2>2, <2>3, <2>4 DEF CaseInv
<1> QED
  BY <1>1, <1>2, <1>3, <1>4 DEF IInv

-----------------------------------------------------------------------------
(* The types.                                                              *)

NsType == [Cluster -> [Name -> [phase : {"absent", "active", "terminating"},
                                owner : Case \cup {NoCase}]]]

\* What createNamespace registers and where it goes on.
LEMMA UsableType ==
    ASSUME TypeOK, NEW c \in Case, NEW existed \in BOOLEAN, NsUsable(c, existed)
    PROVE  /\ stack' \in [Case -> Seq(Cleanup)]
           /\ pc' = [pc EXCEPT ![c] = IF step[c] = 0 THEN "setup" ELSE "body"]
           /\ UNCHANGED verdict
<1>1. NsCleanup(cl[c], existed) \in Cleanup
  BY DEF TypeOK, NsCleanup, Cleanup
<1>2. Append(stack[c], NsCleanup(cl[c], existed)) \in Seq(Cleanup)
  BY <1>1, AppendProperties DEF TypeOK
<1> QED
  BY <1>2 DEF NsUsable, Go, TypeOK

LEMMA PopType ==
    ASSUME TypeOK, NEW c \in Case, stack[c] # <<>>, Pop(c)
    PROVE  stack' \in [Case -> Seq(Cleanup)] /\ pc' = [pc EXCEPT ![c] = "cleanup"]
<1>1. Front(stack[c]) \in Seq(Cleanup)
  BY Popped DEF TypeOK
<1> QED
  BY <1>1 DEF Pop, Go, TypeOK

LEMMA FailType ==
    ASSUME TypeOK, NEW c \in Case, Fail(c)
    PROVE  /\ pc' = [pc EXCEPT ![c] = "cleanup"]
           /\ failed' \in [Case -> BOOLEAN] /\ reported' \in [Case -> BOOLEAN]
BY DEF TypeOK, Fail, Go

\* A case makes its namespace, or changes the phase of it.
LEMMA NsWriteType ==
    ASSUME TypeOK, NEW c \in Case
    PROVE  /\ NsName(c) \in Name
           /\ clusterOf[cl[c]] \in Cluster
           /\ [ns EXCEPT ![clusterOf[cl[c]]][NsName(c)] = [phase |-> "active", owner |-> c]]
              \in NsType
           /\ \A k \in Cluster :
                 [ns EXCEPT ![k][NsName(c)].phase = IF @ = "active" THEN "terminating" ELSE @]
                 \in NsType
<1>1. NsName(c) \in Name
  BY DEF NsName, Name
<1>2. clusterOf[cl[c]] \in Cluster
  BY DEF TypeOK
<1>3. [phase |-> "active", owner |-> c] \in [phase : {"absent", "active", "terminating"},
                                           owner : Case \cup {NoCase}]
  OBVIOUS
<1>4. ASSUME NEW k \in Cluster
      PROVE  [ns[k][NsName(c)] EXCEPT
                !.phase = IF ns[k][NsName(c)].phase = "active" THEN "terminating"
                          ELSE ns[k][NsName(c)].phase]
             \in [phase : {"absent", "active", "terminating"}, owner : Case \cup {NoCase}]
  <2>1. ns[k][NsName(c)] \in [phase : {"absent", "active", "terminating"},
                             owner : Case \cup {NoCase}]
    BY <1>1 DEF TypeOK
  <2> QED BY <2>1
<1> QED
  BY <1>1, <1>2, <1>3, <1>4 DEF TypeOK, NsType

LEMMA NextTypeOK == IInv /\ [Next]_vars => TypeOK'
<1> SUFFICES ASSUME IInv, [Next]_vars PROVE TypeOK'
  OBVIOUS
<1> USE DEF IInv
<1>0. ns \in NsType
  BY DEF TypeOK, NsType
<1>1. ASSUME NEW c \in Case, CaseNext(c) PROVE TypeOK'
  <2> USE DEF config, cluster, applied, verdict, history
  <2>1. CASE GetEagerClients(c)
    <3>1. EagerClients(c) \subseteq Client
      BY Clients
    <3>2. CASE Fail(c) /\ UNCHANGED todo
      BY <2>1, <3>2, FailType DEF GetEagerClients, TypeOK
    <3>3. CASE Go(c, "setup") /\ todo' = [todo EXCEPT ![c] = EagerClients(c)] /\ UNCHANGED verdict
      BY <2>1, <3>1, <3>3 DEF GetEagerClients, Go, TypeOK
    <3> QED BY <2>1, <3>2, <3>3 DEF GetEagerClients
  <2>2. CASE NextClient(c)
    BY <2>2 DEF NextClient, Go, TypeOK
  <2>3. CASE NextStep(c)
    <3>1. CASE step[c] = Len(Steps[c])
      BY <2>3, <3>1 DEF NextStep, Go, TypeOK
    <3>2. CASE step[c] # Len(Steps[c])
      <4>1. step[c] + 1 \in 1..Len(Steps[c])
        BY <3>2, Clients DEF TypeOK
      <4>2. StepClient(Steps[c][step[c] + 1]) \in Client
        BY <4>1, Clients
      <4>0. /\ step' = [step EXCEPT ![c] = @ + 1]
            /\ cl' = [cl EXCEPT ![c] = StepClient(Steps[c][step[c] + 1])]
        BY <2>3, <3>2 DEF NextStep
      <4>3. step' \in [Case -> Nat] /\ cl' \in [Case -> Client]
        BY <4>0, <4>1, <4>2 DEF TypeOK
      <4>6. \A d \in Case : step'[d] <= Len(Steps[d])
        BY <4>0, <4>1 DEF TypeOK
      <4>4. CASE Fail(c)
        BY <2>3, <3>2, <4>3, <4>4, <4>6, FailType DEF NextStep, TypeOK
      <4>5. CASE UNCHANGED verdict /\ pc' = [pc EXCEPT ![c] = IF Steps[c][step[c] + 1].lazy
                                                            THEN "create" ELSE "body"]
        BY <2>3, <3>2, <4>3, <4>5, <4>6 DEF NextStep, TypeOK
      <4> QED BY <2>3, <3>2, <4>4, <4>5 DEF NextStep, Go
    <3> QED BY <3>1, <3>2
  <2>4. CASE CreateNs(c)
    <3>1. ns' \in NsType
      BY <1>0, <2>4, NsWriteType DEF CreateNs
    <3>2. stack' \in [Case -> Seq(Cleanup)] /\ UNCHANGED verdict
          /\ pc' = [pc EXCEPT ![c] = IF step[c] = 0 THEN "setup" ELSE "body"]
      BY <2>4, UsableType DEF CreateNs
    <3> QED BY <2>4, <3>1, <3>2 DEF CreateNs, TypeOK, NsType
  <2>5. CASE CreateNsGarbled(c)
    <3>1. ns' \in NsType
      BY <2>5, NsWriteType DEF CreateNsGarbled, TypeOK
    <3> QED BY <2>5, <3>1, TestCaseAssumption DEF CreateNsGarbled, TypeOK, NsType
  <2>6. CASE CreateNsFails(c)
    <3>1. lateNs' \subseteq [case : Case, cluster : Cluster]
      BY <2>6, NsWriteType DEF CreateNsFails, TypeOK
    <3>2. unclear' \in [Case -> BOOLEAN]
      <4>1. CASE unclear' = [unclear EXCEPT ![c] = TRUE]
        BY <4>1 DEF TypeOK
      <4>2. CASE unclear' = [unclear EXCEPT ![c] = @ \/ NsAt(c, cl[c]).owner = c]
        <5>1. (unclear[c] \/ NsAt(c, cl[c]).owner = c) \in BOOLEAN
          BY Zenon DEF TypeOK
        <5> QED BY Zenon, <4>2, <5>1 DEF TypeOK
      <4> QED BY <2>6, <4>1, <4>2 DEF CreateNsFails
    <3>3. /\ pc' = [pc EXCEPT ![c] = "cleanup"]
          /\ failed' \in [Case -> BOOLEAN] /\ reported' \in [Case -> BOOLEAN]
      BY <2>6, FailType DEF CreateNsFails
    <3> QED BY <2>6, <3>1, <3>2, <3>3 DEF CreateNsFails, TypeOK
  <2>7. CASE CreateNsForbidden(c)
    BY <2>7 DEF CreateNsForbidden, Go, TypeOK
  <2>8. CASE Probe(c)
    <3>1. CASE Fail(c) /\ UNCHANGED stack
      BY <2>8, <3>1 DEF Probe, Go, Fail, TypeOK
    <3>2. CASE NsUsable(c, TRUE)
      <4>1. stack' \in [Case -> Seq(Cleanup)] /\ UNCHANGED verdict
            /\ pc' = [pc EXCEPT ![c] = IF step[c] = 0 THEN "setup" ELSE "body"]
        BY <3>2, UsableType
      <4> QED BY <2>8, <4>1 DEF Probe, TypeOK
    <3> QED BY <2>8, <3>1, <3>2 DEF Probe
  <2>9. CASE RunStep(c)
    <3>1. Applied(c) \in [case : Case, step : Nat]
          /\ Applied(c).case = c /\ Applied(c).step \in 1..Len(Steps[c])
      BY <2>9, Clients DEF RunStep, Applied, TypeOK, CaseInv, ControlInv
    <3>2. /\ objs' \cup stray' \cup lateObjs' \subseteq [case : Case, step : Nat]
          /\ \A o \in objs' \cup lateObjs' : o.step \in 1..Len(Steps[o.case])
          /\ UNCHANGED <<config, ns, lateNs, todo, cl, step, history>>
      BY <2>9, <3>1 DEF RunStep, ApplyAnswered, TypeOK
    <3>3. Append(stack[c], ObjCleanup(cl[c], step[c])) \in Seq(Cleanup)
      BY AppendProperties DEF ObjCleanup, Cleanup, TypeOK
    <3>4. stack' \in [Case -> Seq(Cleanup)]
      BY <2>9, <3>3 DEF RunStep, ApplyAnswered, TypeOK
    <3>5. CASE Fail(c)
      BY <3>2, <3>4, <3>5, FailType DEF TypeOK
    <3>6. CASE Go(c, "step") /\ UNCHANGED verdict
      BY <3>2, <3>4, <3>6 DEF Go, TypeOK
    <3> QED BY <2>9, <3>5, <3>6 DEF RunStep
  <2>10. CASE SkipNs(c)
    BY <2>10, PopType DEF SkipNs, CleanupOf, TypeOK
  <2>11. CASE DeleteNs(c)
    <3>1. clusterOf[Top(c).cl] \in Cluster
      BY <2>11, Popped DEF DeleteNs, CleanupOf, Top, TypeOK, Cleanup
    <3>2. ns' \in NsType
      BY Zenon, <2>11, <3>1, NsWriteType DEF DeleteNs, TypeOK, NsType
    <3> QED BY Zenon, <2>11, <3>2 DEF DeleteNs, Go, TypeOK, NsType
  <2>12. CASE AwaitNs(c)
    <3>1. stack' \in [Case -> Seq(Cleanup)] /\ pc' = [pc EXCEPT ![c] = "cleanup"]
      BY <2>12, PopType DEF AwaitNs, CaseInv, ControlInv
    <3>2. failed' \in [Case -> BOOLEAN] /\ dirty' \in [Case -> BOOLEAN]
      BY <2>12 DEF AwaitNs, TypeOK
    <3> QED BY <2>12, <3>1, <3>2 DEF AwaitNs, TypeOK
  <2>13. CASE PollNs(c)
    BY <2>13 DEF PollNs, vars, TypeOK
  <2>14. CASE DeleteObj(c)
    BY <2>14, PopType DEF DeleteObj, CleanupOf, TypeOK
  <2>15. CASE CleanupFails(c)
    <3>1. stack' \in [Case -> Seq(Cleanup)] /\ pc' = [pc EXCEPT ![c] = "cleanup"]
      BY <2>15, PopType DEF CleanupFails
    <3> QED BY <2>15, <3>1 DEF CleanupFails, TypeOK
  <2>16. CASE Finish(c)
    BY <2>16 DEF Finish, Go, TypeOK
  <2> QED
    BY <1>1, <2>1, <2>2, <2>3, <2>4, <2>5, <2>6, <2>7, <2>8, <2>9, <2>10, <2>11,
       <2>12, <2>13, <2>14, <2>15, <2>16 DEF CaseNext
<1>2. ASSUME NEW k \in Cluster, NEW n \in Name, Finalize(k, n) PROVE TypeOK'
  <2>1. ns' \in NsType
    BY <1>2 DEF Finalize, Gone, TypeOK, NsType
  <2> QED BY <1>2, <2>1 DEF Finalize, config, verdict, history, TypeOK, NsType
<1>4. ASSUME NEW q \in lateNs, ServeNs(q) PROVE TypeOK'
  <2>1. ns' \in NsType
    <3>1. q.case \in Case /\ q.cluster \in Cluster /\ NsName(q.case) \in Name
      BY DEF TypeOK, NsName, Name
    <3>2. [phase |-> "active", owner |-> q.case] \in
            [phase : {"absent", "active", "terminating"}, owner : Case \cup {NoCase}]
      BY <3>1
    <3>3. CASE ns' = ns
      BY <1>0, <3>3
    <3>4. CASE ns' = [ns EXCEPT ![q.cluster][NsName(q.case)] =
                         [phase |-> "active", owner |-> q.case]]
      BY <1>0, <3>1, <3>2, <3>4 DEF NsType
    <3> QED BY <1>4, <3>3, <3>4 DEF ServeNs
  <2> QED
    BY <1>4, <2>1 DEF ServeNs, config, applied, verdict, history, TypeOK, NsType
<1>5. ASSUME NEW o \in lateObjs, ServeObj(o) PROVE TypeOK'
  BY <1>5 DEF ServeObj, config, verdict, history, TypeOK
<1>3. CASE UNCHANGED vars
  BY <1>3 DEF vars, config, cluster, applied, verdict, history, TypeOK
<1> QED
  BY <1>1, <1>2, <1>3, <1>4, <1>5 DEF Next, Terminated

-----------------------------------------------------------------------------
(* What a step of a case does: to the other cases, to the namespaces and   *)
(* to its stack.                                                           *)

\* A step of a case leaves the other cases alone.
LEMMA Frame ==
    ASSUME TypeOK, NEW c \in Case, CaseNext(c), NEW d \in Case, d # c
    PROVE  /\ UNCHANGED config
           /\ pc'[d] = pc[d] /\ todo'[d] = todo[d] /\ cl'[d] = cl[d]
           /\ step'[d] = step[d] /\ stack'[d] = stack[d]
           /\ dirty'[d] = dirty[d] /\ unclear'[d] = unclear[d]
<1> USE DEF TypeOK, config, history
<1>1. CASE GetEagerClients(c) \/ NextClient(c) \/ NextStep(c)
  BY <1>1 DEF GetEagerClients, NextClient, NextStep, Go, Fail
<1>2. CASE CreateNs(c) \/ CreateNsForbidden(c) \/ Probe(c)
  BY <1>2 DEF CreateNs, CreateNsForbidden, Probe, NsUsable, Go, Fail
<1>3. CASE CreateNsGarbled(c) \/ CreateNsFails(c)
  BY <1>3 DEF CreateNsGarbled, CreateNsFails, Go, Fail
<1>4. CASE RunStep(c)
  BY <1>4 DEF RunStep, ApplyAnswered, Go, Fail
<1>5. CASE SkipNs(c) \/ AwaitNs(c) \/ DeleteObj(c) \/ CleanupFails(c)
  BY <1>5 DEF SkipNs, AwaitNs, DeleteObj, CleanupFails, Pop, Go
<1>6. CASE DeleteNs(c) \/ PollNs(c) \/ Finish(c)
  BY <1>6 DEF DeleteNs, PollNs, Finish, Go, vars
<1> QED
  BY <1>1, <1>2, <1>3, <1>4, <1>5, <1>6 DEF CaseNext

Makes(c, k, n) == /\ pc[c] = "create" /\ cl[c] \notin forbidden
                  /\ k = clusterOf[cl[c]] /\ n = NsName(c)
                  /\ ns[k][n].phase = "absent"
                  /\ ns'[k][n] = [phase |-> "active", owner |-> c]
Deletes(c, k, n) == /\ DeleteNs(c)
                    /\ k = clusterOf[Top(c).cl] /\ n = NsName(c)
                    /\ ns[k][n].phase = "active"
                    /\ ns'[k][n].phase = "terminating"
                    /\ ns'[k][n].owner = ns[k][n].owner

\* A case changes a namespace only by making or deleting its own.
LEMMA NsStep ==
    ASSUME TypeOK, NEW c \in Case, CaseNext(c), NEW k \in Cluster, NEW n \in Name
    PROVE  ns'[k][n] = ns[k][n] \/ Makes(c, k, n) \/ Deletes(c, k, n)
<1>0. ns \in NsType
  BY DEF TypeOK, NsType
<1>1. CASE pc[c] = "create" /\ cl[c] \notin forbidden
           /\ ns[clusterOf[cl[c]]][NsName(c)].phase = "absent"
           /\ ns' = [ns EXCEPT ![clusterOf[cl[c]]][NsName(c)] =
                        [phase |-> "active", owner |-> c]]
  BY <1>0, <1>1, NsWriteType DEF Makes, NsType
<1>2. CASE DeleteNs(c)
  <2>1. clusterOf[Top(c).cl] \in Cluster /\ NsName(c) \in Name
    BY <1>2, Popped, NsWriteType DEF DeleteNs, CleanupOf, Top, TypeOK, Cleanup
  <2>2. ns' = [ns EXCEPT ![clusterOf[Top(c).cl]][NsName(c)].phase =
                  IF @ = "active" THEN "terminating" ELSE @]
    BY <1>2 DEF DeleteNs
  <2>3. CASE k = clusterOf[Top(c).cl] /\ n = NsName(c)
    <3>1. ns'[k][n] = [ns[k][n] EXCEPT !.phase = IF ns[k][n].phase = "active"
                                                THEN "terminating" ELSE ns[k][n].phase]
      BY <1>0, <2>1, <2>2, <2>3 DEF NsType
    <3>2. ns[k][n] \in [phase : {"absent", "active", "terminating"},
                        owner : Case \cup {NoCase}]
      BY <1>0 DEF NsType
    <3> QED BY <1>2, <2>3, <3>1, <3>2 DEF Deletes
  <2>4. CASE ~(k = clusterOf[Top(c).cl] /\ n = NsName(c))
    BY <1>0, <2>1, <2>2, <2>4 DEF NsType
  <2> QED BY <2>3, <2>4
<1>3. CASE UNCHANGED ns
  BY <1>3
<1>4. CASE CreateNs(c) \/ CreateNsGarbled(c)
  BY <1>1, <1>3, <1>4 DEF CreateNs, CreateNsGarbled, NsAt
<1> QED
  BY <1>2, <1>3, <1>4
  DEF CaseNext, GetEagerClients, NextClient, NextStep, CreateNsFails, CreateNsForbidden,
      Probe, RunStep, SkipNs, AwaitNs, PollNs, DeleteObj, CleanupFails, Finish, cluster, vars

\* Only the cleanup of a case shortens its stack, by the function that runs.
Popping(c) == /\ pc[c] \in {"cleanup", "await"} /\ stack[c] # <<>>
              /\ stack'[c] = Front(stack[c]) /\ pc'[c] = "cleanup"
LEMMA PopStep ==
    ASSUME TypeOK, NEW c \in Case, ControlInv(c),
           SkipNs(c) \/ AwaitNs(c) \/ DeleteObj(c) \/ CleanupFails(c)
    PROVE  Popping(c) /\ UNCHANGED <<ns, cl, todo, step>>
BY DEF SkipNs, AwaitNs, DeleteObj, CleanupFails, CleanupOf, Pop, Go, Popping,
       ControlInv, TypeOK, cluster

\* createNamespace adds its cleanup, unless cleanups are skipped.
Pushing(c, existed) ==
    /\ pc[c] \in {"create", "probe"}
    /\ stack'[c] = IF skipDelete THEN stack[c]
                   ELSE Append(stack[c], NsCleanup(cl[c], existed))
    /\ pc'[c] = IF step[c] = 0 THEN "setup" ELSE "body"
LEMMA PushStep ==
    ASSUME TypeOK, NEW c \in Case, NEW existed \in BOOLEAN,
           NsUsable(c, existed), pc[c] \in {"create", "probe"}
    PROVE  Pushing(c, existed) /\ NsCleanup(cl[c], existed) \in Cleanup
BY DEF NsUsable, Go, Pushing, TypeOK, NsCleanup, Cleanup

LEMMA StackType ==
    ASSUME TypeOK, NEW c \in Case
    PROVE  /\ stack[c] \in Seq(Cleanup) /\ Len(stack[c]) \in Nat
           /\ \A i \in 1..Len(stack[c]) :
                 stack[c][i] \in Cleanup /\ clusterOf[stack[c][i].cl] \in Cluster
<1>1. stack[c] \in Seq(Cleanup)
  BY DEF TypeOK
<1>2. \A i \in 1..Len(stack[c]) : stack[c][i] \in Cleanup
  BY <1>1, ElementOfSeq
<1> QED
  BY <1>1, <1>2, LenProperties DEF TypeOK, Cleanup

\* The options and the routing do not change.
LEMMA ConfigFixed ==
    ASSUME NEW c \in Case, CaseNext(c)
    PROVE  UNCHANGED <<userSupplied, skipDelete, clusterOf, forbidden>>
BY DEF CaseNext, GetEagerClients, NextClient, NextStep, CreateNs, CreateNsGarbled,
       CreateNsFails, CreateNsForbidden, Probe, RunStep, SkipNs, DeleteNs, AwaitNs,
       PollNs, DeleteObj, CleanupFails, Finish, config, vars

\* Where an object is.
LEMMA ObjPlace ==
    ASSUME TypeOK, NEW o \in objs \cup lateObjs
    PROVE  /\ o.case \in Case /\ o = [case |-> o.case, step |-> o.step]
           /\ ObjCluster(o) \in Cluster /\ NsName(o.case) \in Name
<1>1. o \in [case : Case, step : Nat] /\ o.step \in 1..Len(Steps[o.case])
  BY DEF TypeOK
<1>2. StepClient(Steps[o.case][o.step]) \in Client
  BY <1>1, Clients
<1> QED BY <1>1, <1>2 DEF TypeOK, ObjCluster, NsName, Name

\* A case applies objects of its own only.
LEMMA ObjStep ==
    ASSUME NEW c \in Case, CaseNext(c)
    PROVE  /\ stray \subseteq stray'
           /\ \A o \in objs' : o \in objs \/ (RunStep(c) /\ o = Applied(c))
<1>1. CASE RunStep(c)
  <2>1. (objs' = objs \/ objs' = objs \cup {Applied(c)}) /\ stray \subseteq stray'
    BY <1>1 DEF RunStep, ApplyAnswered
  <2> QED BY <1>1, <2>1
<1>2. CASE ~RunStep(c)
  <2>1. objs' \subseteq objs /\ stray' = stray
    BY <1>2
    DEF CaseNext, GetEagerClients, NextClient, NextStep, CreateNs, CreateNsGarbled,
        CreateNsFails, CreateNsForbidden, Probe, SkipNs, DeleteNs, AwaitNs, PollNs,
        DeleteObj, CleanupFails, Finish, cluster, applied, vars
  <2> QED BY <2>1
<1> QED BY <1>1, <1>2

\* A case deletes a namespace that it made itself.
LEMMA DeletesOwn ==
    ASSUME IInv, NEW c \in Case, NEW k \in Cluster, NEW n \in Name, Deletes(c, k, n)
    PROVE  ns[k][n].owner = c /\ pc[c] = "cleanup"
<1>1. pc[c] = "cleanup" /\ stack[c] # <<>> /\ Top(c).kind = "ns" /\ ~KeepNs(c)
      /\ k = clusterOf[Top(c).cl] /\ n = NsName(c) /\ ns[k][n].phase = "active"
  BY DEF Deletes, DeleteNs, CleanupOf
<1>2. CASE userSupplied
  <2>1. Len(stack[c]) \in 1..Len(stack[c]) /\ Top(c) = stack[c][Len(stack[c])]
    BY <1>1, Popped DEF IInv, TypeOK, Top
  <2>2. Made(Top(c)) /\ Len(stack[c]) \in Pending(c)
    BY <1>1, <1>2, <2>1 DEF KeepNs, Made, Pending
  <2>3. MadeBy(k, c)
    BY <1>1, <1>2, <2>1, <2>2 DEF IInv, CaseInv, CreatorInv
  <2> QED BY <1>1, <1>2, <2>3 DEF MadeBy, NsName
<1>3. CASE ~userSupplied
  BY <1>1, <1>3 DEF IInv, NameInv, NameAt, NsName
<1> QED BY <1>1, <1>2, <1>3

-----------------------------------------------------------------------------
(* The invariant is kept.                                                  *)

LEMMA NextNameInv ==
    ASSUME IInv, NEW c \in Case, CaseNext(c)
    PROVE  NameInv'
<1> SUFFICES ASSUME NEW k \in Cluster, NEW n \in Name PROVE NameAt(k, n)'
  BY DEF NameInv
<1>0. userSupplied' = userSupplied
  BY DEF CaseNext, GetEagerClients, NextClient, NextStep, CreateNs, CreateNsGarbled,
         CreateNsFails, CreateNsForbidden, Probe, RunStep, SkipNs, DeleteNs, AwaitNs,
         PollNs, DeleteObj, CleanupFails, Finish, config, vars
<1>1. CASE ns'[k][n] = ns[k][n]
  BY <1>0, <1>1 DEF IInv, NameInv, NameAt, NsName
<1>2. CASE Makes(c, k, n)
  BY <1>0, <1>2 DEF Makes, NameAt, NsName
<1>3. CASE Deletes(c, k, n)
  BY <1>0, <1>3 DEF Deletes, IInv, NameInv, NameAt, NsName
<1> QED
  BY <1>1, <1>2, <1>3, NsStep DEF IInv

LEMMA NextHomeInv ==
    ASSUME IInv, NEW c \in Case, CaseNext(c)
    PROVE  HomeInv'
<1> SUFFICES ASSUME NEW o \in objs' PROVE (ns[ObjCluster(o)][NsName(o.case)].phase # "absent")'
  BY DEF HomeInv
<1>0. UNCHANGED <<userSupplied, clusterOf>>
  BY Frame, ConfigFixed
<1>1. ObjCluster(o)' = ObjCluster(o) /\ NsName(o.case)' = NsName(o.case)
  BY <1>0 DEF ObjCluster, NsName
<1>2. CASE o \in objs
  <2>1. ObjCluster(o) \in Cluster /\ NsName(o.case) \in Name
    BY <1>2, ObjPlace DEF IInv
  <2>2. ns[ObjCluster(o)][NsName(o.case)].phase # "absent"
    BY <1>2 DEF IInv, HomeInv
  <2>3. ns'[ObjCluster(o)][NsName(o.case)].phase # "absent"
    BY <2>1, <2>2, NsStep DEF IInv, Makes, Deletes
  <2> QED BY <1>1, <2>3
<1>3. CASE RunStep(c) /\ o = Applied(c) /\ o \notin objs
  <2>1. NsAt(c, cl[c]).phase = "active" /\ UNCHANGED ns
    BY <1>3 DEF RunStep
  <2>2. ObjCluster(o) = clusterOf[cl[c]] /\ NsName(o.case) = NsName(c)
    <3>1. pc[c] = "body" /\ step[c] > 0
      BY <1>3 DEF RunStep, IInv, CaseInv, ControlInv
    <3>2. cl[c] = StepClient(Steps[c][step[c]])
      BY <3>1 DEF IInv, CaseInv, ClientInv
    <3>3. o.case = c /\ o.step = step[c]
      BY <1>3 DEF Applied
    <3> QED BY <3>2, <3>3 DEF ObjCluster
  <2> QED BY <1>1, <2>1, <2>2 DEF NsAt
<1> QED BY <1>2, <1>3, ObjStep

LEMMA NextLateInv ==
    ASSUME IInv, NEW c \in Case, CaseNext(c)
    PROVE  LateInv'
<1>1. CASE CreateNsFails(c)
  <2>1. CASE /\ lateNs' = lateNs \cup {[case |-> c, cluster |-> clusterOf[cl[c]]]}
             /\ unclear' = [unclear EXCEPT ![c] = TRUE]
    BY <2>1 DEF IInv, LateInv, TypeOK
  <2>2. CASE /\ lateNs' = lateNs
             /\ unclear' = [unclear EXCEPT ![c] = @ \/ NsAt(c, cl[c]).owner = c]
    <3>1. \A q \in lateNs : q.case \in Case /\ unclear[q.case]
      BY DEF IInv, LateInv, TypeOK
    <3>2. \A d \in Case : unclear[d] => unclear'[d]
      BY Zenon, <2>2 DEF IInv, TypeOK
    <3> QED BY <2>2, <3>1, <3>2 DEF LateInv
  <2> QED BY <1>1, <2>1, <2>2 DEF CreateNsFails
<1>2. CASE CreateNsGarbled(c)
  <2>1. /\ lateNs' = lateNs
        /\ unclear' = [unclear EXCEPT ![c] = @ \/ userSupplied]
    BY <1>2 DEF CreateNsGarbled
  <2>2. \A q \in lateNs : q.case \in Case /\ unclear[q.case]
    BY DEF IInv, LateInv, TypeOK
  <2>3. \A d \in Case : unclear[d] => unclear'[d]
    BY Zenon, <2>1 DEF IInv, TypeOK
  <2> QED BY <2>1, <2>2, <2>3 DEF LateInv
<1>3. CASE ~CreateNsFails(c) /\ ~CreateNsGarbled(c)
  <2>1. UNCHANGED <<lateNs, unclear>>
    BY <1>3
    DEF CaseNext, GetEagerClients, NextClient, NextStep, CreateNs, CreateNsForbidden,
        Probe, RunStep, SkipNs, DeleteNs, AwaitNs, PollNs, DeleteObj, CleanupFails,
        Finish, cluster, history, vars
  <2> QED BY <2>1 DEF IInv, LateInv
<1> QED BY <1>1, <1>2, <1>3

LEMMA OthersInv ==
    ASSUME IInv, NEW c \in Case, CaseNext(c), NEW d \in Case, d # c
    PROVE  CaseInv(d)'
<1>0. /\ UNCHANGED <<userSupplied, skipDelete, clusterOf, forbidden>>
      /\ pc'[d] = pc[d] /\ todo'[d] = todo[d] /\ cl'[d] = cl[d]
      /\ step'[d] = step[d] /\ stack'[d] = stack[d]
      /\ dirty'[d] = dirty[d] /\ unclear'[d] = unclear[d]
  BY Frame DEF IInv, config
<1>1. ControlInv(d)' /\ ClientInv(d)'
  BY <1>0 DEF IInv, CaseInv, ControlInv, ClientInv, Top
<1>2. CreatorInv(d)'
  <2>1. ASSUME userSupplied, NEW k \in Cluster, MadeBy(k, d) PROVE MadeBy(k, d)'
    <3>1. UserNs \in Name /\ ~Makes(c, k, UserNs) /\ ~Deletes(c, k, UserNs)
      BY <2>1, DeletesOwn DEF Name, Makes, MadeBy
    <3>2. ns'[k][UserNs] = ns[k][UserNs]
      BY <3>1, NsStep DEF IInv
    <3> QED BY <2>1, <3>2 DEF MadeBy
  <2>2. \A i \in 1..Len(stack[d]) : clusterOf[stack[d][i].cl] \in Cluster
    BY StackType DEF IInv
  <2> QED BY <1>0, <2>1, <2>2 DEF IInv, CaseInv, CreatorInv, Pending
<1>3. ReadyInv(d)'
  <2>1. ASSUME ~userSupplied, NEW k \in Cluster PROVE ns'[k][d] = ns[k][d]
    <3>1. d \in Name /\ ~Makes(c, k, d) /\ ~Deletes(c, k, d)
      BY <2>1 DEF Name, Makes, Deletes, NsName
    <3> QED BY <3>1, NsStep DEF IInv
  <2>2. \A k \in Client : clusterOf[k] \in Cluster
    BY DEF IInv, TypeOK
  <2>3. EagerClients(d) \subseteq Client /\ cl[d] \in Client
    BY Clients DEF IInv, TypeOK
  <2> QED BY <1>0, <2>1, <2>2, <2>3 DEF IInv, CaseInv, ReadyInv, Active
<1>4. CleanupInv(d)'
  <2>1. ASSUME NEW k \in Cluster, NEW n \in Name, ns'[k][n].owner = d
        PROVE  ns[k][n].owner = d
    <3>1. ns'[k][n] = ns[k][n] \/ Makes(c, k, n) \/ Deletes(c, k, n)
      BY NsStep DEF IInv
    <3> QED BY <2>1, <3>1 DEF Makes, Deletes
  <2>2. stray \subseteq stray' /\ \A o \in objs' : o.case = d => o \in objs
    BY ObjStep DEF Applied
  <2>3. \A k \in Cluster : Covered(d, k) => Covered(d, k)'
    BY <1>0 DEF Covered
  <2> QED BY <1>0, <2>1, <2>2, <2>3 DEF IInv, CaseInv, CleanupInv
<1> QED
  BY <1>1, <1>2, <1>3, <1>4 DEF CaseInv

\* The namespace controller takes away only what is being deleted.
LEMMA FinalizeInv ==
    ASSUME IInv, NEW k \in Cluster, NEW n \in Name, Finalize(k, n)
    PROVE  NameInv' /\ HomeInv' /\ LateInv' /\ \A c \in Case : CaseInv(c)'
<1>0. /\ ns \in NsType /\ ns[k][n].phase = "terminating"
      /\ ns' = [ns EXCEPT ![k][n] = Gone]
      /\ objs' = {o \in objs : ~(ObjCluster(o) = k /\ NsName(o.case) = n)}
      /\ objs' \subseteq objs /\ stray' = stray \cap objs'
      /\ UNCHANGED <<config, pc, todo, cl, step, stack, verdict, history>>
  BY DEF Finalize, IInv, TypeOK, NsType
<1>1. ASSUME NEW j \in Cluster, NEW m \in Name
      PROVE  ns'[j][m] = ns[j][m] \/ (ns[j][m].phase = "terminating" /\ ns'[j][m] = Gone)
  <2>1. CASE j = k /\ m = n
    BY <1>0, <2>1 DEF NsType
  <2>2. CASE ~(j = k /\ m = n)
    BY <1>0, <2>2 DEF NsType
  <2> QED BY <2>1, <2>2
<1>2. NameInv'
  BY <1>0, <1>1, TestCaseAssumption DEF IInv, NameInv, NameAt, Gone, NsName, config
<1>4. HomeInv'
  <2> SUFFICES ASSUME NEW o \in objs'
               PROVE  (ns[ObjCluster(o)][NsName(o.case)].phase # "absent")'
    BY DEF HomeInv
  <2>1. UNCHANGED <<userSupplied, clusterOf>>
    BY <1>0 DEF config
  <2>2. ObjCluster(o)' = ObjCluster(o) /\ NsName(o.case)' = NsName(o.case)
    BY <2>1 DEF ObjCluster, NsName
  <2>3. o \in objs /\ ~(ObjCluster(o) = k /\ NsName(o.case) = n)
    BY <1>0
  <2>4. ObjCluster(o) \in Cluster /\ NsName(o.case) \in Name
    BY <2>3, ObjPlace DEF IInv
  <2>5. ns'[ObjCluster(o)][NsName(o.case)] = ns[ObjCluster(o)][NsName(o.case)]
    BY <1>0, <2>3, <2>4 DEF NsType
  <2> QED BY <2>2, <2>3, <2>5 DEF IInv, HomeInv
<1>3. ASSUME NEW c \in Case PROVE CaseInv(c)'
  <2> USE <1>0 DEF config, history
  <2>1. ControlInv(c)' /\ ClientInv(c)'
    BY DEF IInv, CaseInv, ControlInv, ClientInv, Top
  <2>2. CreatorInv(c)'
    <3>1. ASSUME NEW j \in Cluster, MadeBy(j, c) PROVE MadeBy(j, c)'
      <4>1. UserNs \in Name
        BY DEF Name
      <4> QED BY <1>1, <3>1, <4>1 DEF MadeBy
    <3>2. \A i \in 1..Len(stack[c]) : clusterOf[stack[c][i].cl] \in Cluster
      BY StackType DEF IInv
    <3> QED BY <3>1, <3>2 DEF IInv, CaseInv, CreatorInv, Pending
  <2>3. ReadyInv(c)'
    <3>1. \A j \in Client : clusterOf[j] \in Cluster
      BY DEF IInv, TypeOK
    <3>2. EagerClients(c) \subseteq Client /\ cl[c] \in Client /\ c \in Name
      BY Clients DEF IInv, TypeOK, Name
    <3>3. \A j \in Cluster : /\ ns'[j][c].phase = "terminating" => ns[j][c].phase = "terminating"
                             /\ ns[j][c].phase = "active" => ns'[j][c].phase = "active"
      BY <1>1, <3>2 DEF Gone
    <3> QED BY <3>1, <3>2, <3>3 DEF IInv, CaseInv, ReadyInv, Active
  <2>4. CleanupInv(c)'
    <3>1. \A j \in Cluster : Covered(c, j) => Covered(c, j)'
      BY DEF Covered
    <3>2. \A j \in Cluster, m \in Name : ns'[j][m].owner = c => ns'[j][m] = ns[j][m]
      BY <1>1, TestCaseAssumption DEF Gone
    <3>3. \A o \in objs' : o \in objs /\ (o \in stray => o \in stray')
      OBVIOUS
    <3> QED BY <3>1, <3>2, <3>3 DEF IInv, CaseInv, CleanupInv
  <2> QED BY <2>1, <2>2, <2>3, <2>4 DEF CaseInv
<1>5. LateInv'
  BY <1>0 DEF IInv, LateInv, Finalize, history
<1> QED BY <1>2, <1>3, <1>4, <1>5

\* A late request makes a namespace only for a case that cannot know of it.
LEMMA ServeNsInv ==
    ASSUME IInv, NEW q \in lateNs, ServeNs(q)
    PROVE  NameInv' /\ HomeInv' /\ LateInv' /\ \A c \in Case : CaseInv(c)'
<1>0. /\ ns \in NsType /\ q.case \in Case /\ q.cluster \in Cluster
      /\ NsName(q.case) \in Name
      /\ UNCHANGED <<config, applied, pc, todo, cl, step, stack, verdict, history>>
  BY DEF ServeNs, IInv, TypeOK, NsType, NsName, Name
<1>1. ASSUME NEW j \in Cluster, NEW m \in Name
      PROVE  \/ ns'[j][m] = ns[j][m]
             \/ /\ j = q.cluster /\ m = NsName(q.case)
                /\ ns[j][m].phase = "absent"
                /\ ns'[j][m] = [phase |-> "active", owner |-> q.case]
  <2>1. CASE UNCHANGED ns
    BY <2>1
  <2>2. CASE /\ ns[q.cluster][NsName(q.case)].phase = "absent"
             /\ ns' = [ns EXCEPT ![q.cluster][NsName(q.case)] =
                          [phase |-> "active", owner |-> q.case]]
    BY <1>0, <2>2 DEF NsType
  <2> QED BY <2>1, <2>2 DEF ServeNs
<1>2. NameInv'
  BY <1>0, <1>1, TestCaseAssumption DEF IInv, NameInv, NameAt, NsName, config
<1>3. HomeInv'
  <2> SUFFICES ASSUME NEW o \in objs
               PROVE  (ns[ObjCluster(o)][NsName(o.case)].phase # "absent")'
    BY <1>0 DEF HomeInv, applied
  <2>1. ObjCluster(o)' = ObjCluster(o) /\ NsName(o.case)' = NsName(o.case)
    BY <1>0 DEF ObjCluster, NsName, config
  <2>2. ObjCluster(o) \in Cluster /\ NsName(o.case) \in Name
    BY ObjPlace DEF IInv
  <2> QED BY <1>1, <2>1, <2>2 DEF IInv, HomeInv
<1>4. ASSUME NEW c \in Case PROVE CaseInv(c)'
  <2> USE <1>0 DEF config, history, applied
  <2>1. ControlInv(c)' /\ ClientInv(c)'
    BY DEF IInv, CaseInv, ControlInv, ClientInv, Top
  <2>2. CreatorInv(c)'
    <3>1. ASSUME NEW j \in Cluster, MadeBy(j, c) PROVE MadeBy(j, c)'
      <4>1. UserNs \in Name
        BY DEF Name
      <4> QED BY <1>1, <3>1, <4>1 DEF MadeBy
    <3>2. \A i \in 1..Len(stack[c]) : clusterOf[stack[c][i].cl] \in Cluster
      BY StackType DEF IInv
    <3> QED BY <3>1, <3>2 DEF IInv, CaseInv, CreatorInv, Pending
  <2>3. ReadyInv(c)'
    <3>1. \A j \in Client : clusterOf[j] \in Cluster
      BY DEF IInv, TypeOK
    <3>2. EagerClients(c) \subseteq Client /\ cl[c] \in Client /\ c \in Name
      BY Clients DEF IInv, TypeOK, Name
    <3>3. \A j \in Cluster : /\ ns'[j][c].phase = "terminating" => ns[j][c].phase = "terminating"
                             /\ ns[j][c].phase = "active" => ns'[j][c].phase = "active"
      BY <1>1, <3>2
    <3> QED BY <3>1, <3>2, <3>3 DEF IInv, CaseInv, ReadyInv, Active
  <2>4. CleanupInv(c)'
    <3>1. \A j \in Cluster : Covered(c, j) => Covered(c, j)'
      BY DEF Covered
    <3>2. ~unclear[c] => \A j \in Cluster, m \in Name :
                           ns'[j][m].owner = c => ns'[j][m] = ns[j][m]
      BY <1>1 DEF IInv, LateInv
    <3> QED BY <3>1, <3>2 DEF IInv, CaseInv, CleanupInv
  <2> QED BY <2>1, <2>2, <2>3, <2>4 DEF CaseInv
<1>5. LateInv'
  BY <1>0 DEF IInv, LateInv, ServeNs, history
<1> QED BY <1>2, <1>3, <1>4, <1>5

\* An object that is made late is a stray one.
LEMMA ServeObjInv ==
    ASSUME IInv, NEW o \in lateObjs, ServeObj(o)
    PROVE  NameInv' /\ HomeInv' /\ LateInv' /\ \A c \in Case : CaseInv(c)'
<1>0. UNCHANGED <<config, ns, lateNs, pc, todo, cl, step, stack, verdict, history>>
  BY DEF ServeObj
<1>1. \/ UNCHANGED <<objs, stray>>
      \/ /\ ns[ObjCluster(o)][NsName(o.case)].phase = "active"
         /\ objs' = objs \cup {o} /\ stray' = stray \cup {o}
  BY DEF ServeObj
<1>2. NameInv' /\ LateInv'
  BY <1>0 DEF IInv, NameInv, NameAt, NsName, LateInv, config, history
<1>3. HomeInv'
  <2>1. \A p : ObjCluster(p)' = ObjCluster(p) /\ NsName(p.case)' = NsName(p.case)
    BY <1>0 DEF ObjCluster, NsName, config
  <2> QED BY <1>0, <1>1, <2>1 DEF IInv, HomeInv
<1>4. ASSUME NEW c \in Case PROVE CaseInv(c)'
  <2> USE <1>0 DEF config, history
  <2>1. ControlInv(c)' /\ ClientInv(c)' /\ CreatorInv(c)' /\ ReadyInv(c)'
    BY DEF IInv, CaseInv, ControlInv, ClientInv, Top, CreatorInv, MadeBy, Pending,
           ReadyInv, Active
  <2>2. CleanupInv(c)'
    <3>1. \A j \in Cluster : Covered(c, j) => Covered(c, j)'
      BY DEF Covered
    <3>2. \A p \in objs' : p \in stray' \/ (p \in objs /\ p \notin stray)
      BY <1>1
    <3> QED BY <3>1, <3>2 DEF IInv, CaseInv, CleanupInv
  <2> QED BY <2>1, <2>2 DEF CaseInv
<1> QED BY <1>2, <1>3, <1>4

LEMMA OwnControlInv ==
    ASSUME IInv, NEW c \in Case, CaseNext(c)
    PROVE  ControlInv(c)' /\ ClientInv(c)'
<1> USE DEF ControlInv, ClientInv, Top
<1>0. TypeOK /\ ControlInv(c) /\ ClientInv(c)
  BY DEF IInv, CaseInv
<1>1. CASE GetEagerClients(c) \/ NextClient(c)
  BY <1>0, <1>1 DEF GetEagerClients, NextClient, Go, Fail, TypeOK, config
<1>2. CASE NextStep(c)
  <2>1. CASE step[c] = Len(Steps[c]) \/ Fail(c)
    BY <1>0, <1>2, <2>1 DEF NextStep, Go, Fail, TypeOK, config
  <2>2. CASE /\ step[c] # Len(Steps[c])
             /\ pc' = [pc EXCEPT ![c] = IF Steps[c][step[c] + 1].lazy
                                        THEN "create" ELSE "body"]
    <3>1. step'[c] = step[c] + 1 /\ cl'[c] = StepClient(Steps[c][step[c] + 1])
          /\ UNCHANGED <<todo, stack>>
      BY <1>0, <1>2, <2>2 DEF NextStep, TypeOK
    <3>2. step[c] \in Nat /\ (step[c] > 0 \/ todo[c] = {})
      BY <1>0, <1>2 DEF NextStep, TypeOK
    <3>3. pc'[c] \in {"create", "body"} /\ (pc'[c] = "create" => Steps[c][step[c] + 1].lazy)
      BY <1>0, <2>2 DEF TypeOK
    <3> QED BY <1>0, <3>1, <3>2, <3>3
  <2> QED BY <1>2, <2>1, <2>2 DEF NextStep, Go
<1>3. CASE CreateNs(c)
  <2>1. PICK existed \in BOOLEAN : Pushing(c, existed)
    BY <1>0, <1>3, PushStep DEF CreateNs
  <2> QED BY <1>0, <1>3, <2>1 DEF CreateNs, Pushing, TypeOK, config
<1>4. CASE Probe(c)
  <2>1. CASE Fail(c)
    BY <1>0, <1>4, <2>1 DEF Probe, Fail, Go, TypeOK, config
  <2>2. CASE NsUsable(c, TRUE)
    <3>1. Pushing(c, TRUE)
      BY <1>0, <1>4, <2>2, PushStep DEF Probe
    <3> QED BY <1>0, <1>4, <3>1 DEF Probe, Pushing, TypeOK, config
  <2> QED BY <1>4, <2>1, <2>2 DEF Probe
<1>5. CASE CreateNsGarbled(c) \/ CreateNsFails(c) \/ CreateNsForbidden(c)
  BY <1>0, <1>5
  DEF CreateNsGarbled, CreateNsFails, CreateNsForbidden, Fail, Go, TypeOK, config
<1>6. CASE RunStep(c)
  <2>1. pc[c] = "body" /\ pc'[c] \in {"step", "cleanup"} /\ UNCHANGED <<todo, cl, step, forbidden>>
    BY <1>0, <1>6 DEF RunStep, Fail, Go, TypeOK, config
  <2> QED BY <1>0, <2>1
<1>7. CASE SkipNs(c) \/ AwaitNs(c) \/ DeleteObj(c) \/ CleanupFails(c)
  BY <1>0, <1>7, PopStep DEF Popping
<1>8. CASE DeleteNs(c)
  BY <1>0, <1>8 DEF DeleteNs, CleanupOf, Go, TypeOK, config
<1>9. CASE PollNs(c) \/ Finish(c)
  BY <1>0, <1>9 DEF PollNs, Finish, Go, TypeOK, config, vars
<1> QED
  BY <1>1, <1>2, <1>3, <1>4, <1>5, <1>6, <1>7, <1>8, <1>9 DEF CaseNext

\* A pop leaves what is below, a push what was there.
LEMMA PopKeeps ==
    ASSUME TypeOK, NEW c \in Case, Popping(c)
    PROVE  /\ Len(stack[c]) \in Nat /\ Len(stack[c]) > 0
           /\ Len(stack'[c]) = Len(stack[c]) - 1
           /\ \A i \in 1..(Len(stack[c]) - 1) : stack'[c][i] = stack[c][i]
           /\ Top(c) = stack[c][Len(stack[c])]
BY Popped DEF Popping, TypeOK, Top

LEMMA PushKeeps ==
    ASSUME TypeOK, NEW c \in Case, NEW e \in Cleanup, stack'[c] = Append(stack[c], e)
    PROVE  /\ Len(stack[c]) \in Nat
           /\ Len(stack'[c]) = Len(stack[c]) + 1
           /\ \A i \in 1..Len(stack[c]) : stack'[c][i] = stack[c][i]
           /\ stack'[c][Len(stack[c]) + 1] = e
BY Pushed DEF TypeOK

LEMMA OwnCreatorInv ==
    ASSUME IInv, NEW c \in Case, CaseNext(c)
    PROVE  CreatorInv(c)'
<1>0. TypeOK /\ ControlInv(c) /\ CreatorInv(c)
  BY DEF IInv, CaseInv
<1>1. UNCHANGED <<userSupplied, skipDelete, clusterOf, forbidden>>
  BY DEF CaseNext, GetEagerClients, NextClient, NextStep, CreateNs, CreateNsGarbled,
         CreateNsFails, CreateNsForbidden, Probe, RunStep, SkipNs, DeleteNs, AwaitNs,
         PollNs, DeleteObj, CleanupFails, Finish, config, vars
<1> SUFFICES ASSUME userSupplied PROVE CreatorInv(c)'
  BY <1>1 DEF CreatorInv
<1> USE <1>0, <1>1 DEF CreatorInv
<1>2. \A i \in 1..Len(stack[c]) : clusterOf[stack[c][i].cl] \in Cluster
  BY StackType
<1>3. UserNs \in Name /\ NsName(c) = UserNs
  BY DEF Name, NsName
<1> DEFINE Still(k) == ns'[k][UserNs].phase = "active" /\ ns'[k][UserNs].owner = c
<1>4. ASSUME NEW k \in Cluster, MadeBy(k, c), ~Deletes(c, k, UserNs) PROVE Still(k)
  <2>1. ~Makes(c, k, UserNs)
    BY <1>4 DEF Makes, MadeBy
  <2>2. ns'[k][UserNs] = ns[k][UserNs]
    BY <1>3, <1>4, <2>1, NsStep
  <2> QED BY <1>4, <2>2 DEF MadeBy
<1>5. CASE stack'[c] = stack[c] /\ ~DeleteNs(c) /\ pc[c] # "await"
  BY <1>2, <1>4, <1>5 DEF Deletes, Pending, MadeBy
<1>6. CASE DeleteNs(c)
  <2>1. UNCHANGED stack /\ pc[c] = "cleanup" /\ pc'[c] = "await" /\ stack[c] # <<>>
        /\ Top(c).kind = "ns" /\ ~Top(c).existed
    BY <1>6 DEF DeleteNs, CleanupOf, KeepNs, Go, TypeOK
  <2>2. Len(stack[c]) \in Nat /\ Top(c) = stack[c][Len(stack[c])] /\ Len(stack[c]) > 0
    BY <2>1, Popped DEF TypeOK, Top
  <2>3. ASSUME NEW i \in Pending(c)', Made(stack[c][i])
        PROVE  Still(clusterOf[stack[c][i].cl])
    <3>1. i \in 1..Len(stack[c]) /\ i # Len(stack[c]) /\ i \in Pending(c)
      BY <2>1 DEF Pending
    <3>2. clusterOf[stack[c][i].cl] # clusterOf[Top(c).cl]
      BY <2>1, <2>2, <2>3, <3>1 DEF Made
    <3>3. MadeBy(clusterOf[stack[c][i].cl], c) /\ clusterOf[stack[c][i].cl] \in Cluster
      BY <1>2, <2>3, <3>1
    <3>4. ~Deletes(c, clusterOf[stack[c][i].cl], UserNs)
      BY <3>2 DEF Deletes
    <3> QED BY <1>4, <3>3, <3>4
  <2> QED BY Zenon, <2>1, <2>3 DEF MadeBy
<1>7. CASE Popping(c) /\ UNCHANGED ns
  <2>1. /\ Len(stack[c]) \in Nat /\ Len(stack'[c]) = Len(stack[c]) - 1
        /\ \A i \in 1..(Len(stack[c]) - 1) : stack'[c][i] = stack[c][i]
    BY <1>7, PopKeeps
  <2>2. \A i \in 1..Len(stack'[c]) :
           i \in Pending(c) /\ i \in 1..Len(stack[c]) /\ stack'[c][i] = stack[c][i]
    BY <2>1 DEF Pending
  <2>3. \A k \in Cluster : MadeBy(k, c) => Still(k)
    BY <1>7 DEF MadeBy
  <2> QED BY Zenon, <1>2, <2>2, <2>3 DEF MadeBy
<1>8. ASSUME NEW e \in Cleanup, stack'[c] = Append(stack[c], e), pc[c] # "await",
             ~DeleteNs(c),
             Made(e) => LET k == clusterOf[e.cl] IN Makes(c, k, UserNs)
      PROVE  CreatorInv(c)'
  <2>1. /\ Len(stack[c]) \in Nat /\ Len(stack'[c]) = Len(stack[c]) + 1
        /\ \A i \in 1..Len(stack[c]) : stack'[c][i] = stack[c][i]
        /\ stack'[c][Len(stack[c]) + 1] = e
    BY <1>8, PushKeeps
  <2>2. ASSUME NEW i \in 1..Len(stack[c]), Made(stack[c][i])
        PROVE  /\ MadeBy(clusterOf[stack[c][i].cl], c) /\ Still(clusterOf[stack[c][i].cl])
               /\ Made(e) => clusterOf[e.cl] # clusterOf[stack[c][i].cl]
    <3>1. i \in Pending(c)
      BY <1>8 DEF Pending
    <3>2. MadeBy(clusterOf[stack[c][i].cl], c)
      BY <2>2, <3>1
    <3> QED BY Zenon, <1>2, <1>4, <1>8, <3>2 DEF Deletes, Makes, MadeBy
  <2>3. Made(e) => Still(clusterOf[e.cl])
    BY <1>8 DEF Makes, MadeBy
  <2>4. \A i \in 1..Len(stack'[c]) :
           \/ i \in 1..Len(stack[c]) /\ stack'[c][i] = stack[c][i]
           \/ i = Len(stack[c]) + 1 /\ stack'[c][i] = e
    BY <2>1
  <2>5. ASSUME NEW i \in 1..Len(stack'[c]), NEW j \in 1..Len(stack'[c]),
               Made(stack'[c][i]), Made(stack'[c][j]),
               clusterOf[stack'[c][i].cl] = clusterOf[stack'[c][j].cl]
        PROVE  i = j
    <3>1. CASE i \in 1..Len(stack[c]) /\ j \in 1..Len(stack[c])
      BY <2>1, <2>5, <3>1
    <3>2. CASE i = Len(stack[c]) + 1 \/ j = Len(stack[c]) + 1
      BY Zenon, <2>1, <2>2, <2>4, <2>5, <3>2
    <3> QED BY <2>4, <3>1, <3>2
  <2>6. ASSUME NEW i \in 1..Len(stack'[c]), Made(stack'[c][i])
        PROVE  Still(clusterOf'[stack'[c][i].cl])
    BY <2>2, <2>3, <2>4, <2>6
  <2> QED BY <2>5, <2>6 DEF MadeBy
<1>9. CASE CreateNs(c)
  <2>1. PICK existed \in BOOLEAN : Pushing(c, existed) /\ NsCleanup(cl[c], existed) \in Cleanup
                                   /\ (~existed => Makes(c, clusterOf[cl[c]], UserNs))
    <3>1. CASE /\ NsAt(c, cl[c]).phase = "absent" /\ NsUsable(c, FALSE)
               /\ ns' = [ns EXCEPT ![clusterOf[cl[c]]][NsName(c)] =
                            [phase |-> "active", owner |-> c]]
      <4>1. Pushing(c, FALSE) /\ NsCleanup(cl[c], FALSE) \in Cleanup
        BY <1>9, <3>1, PushStep DEF CreateNs
      <4>2. ns \in NsType /\ clusterOf[cl[c]] \in Cluster
        BY NsWriteType DEF TypeOK, NsType
      <4>3. Makes(c, clusterOf[cl[c]], UserNs)
        BY <1>3, <1>9, <3>1, <4>2 DEF CreateNs, Makes, NsAt, NsType
      <4> QED BY <4>1, <4>3
    <3>2. CASE NsUsable(c, TRUE)
      BY <1>9, <3>2, PushStep DEF CreateNs
    <3> QED BY <1>9, <3>1, <3>2 DEF CreateNs
  <2>2. Made(NsCleanup(cl[c], existed)) => Makes(c, clusterOf[NsCleanup(cl[c], existed).cl], UserNs)
    BY <2>1 DEF Made, NsCleanup
  <2>3. pc[c] = "create" /\ ~DeleteNs(c)
    BY <1>9 DEF CreateNs, DeleteNs, CleanupOf
  <2> QED BY <1>5, <1>8, <2>1, <2>2, <2>3 DEF Pushing
<1>10. CASE Probe(c)
  <2>1. CASE Fail(c) /\ UNCHANGED stack
    BY <1>5, <1>10, <2>1 DEF Probe, DeleteNs, CleanupOf
  <2>2. CASE NsUsable(c, TRUE)
    <3>1. Pushing(c, TRUE) /\ NsCleanup(cl[c], TRUE) \in Cleanup
      BY <1>10, <2>2, PushStep DEF Probe
    <3>2. pc[c] = "probe" /\ ~DeleteNs(c) /\ ~Made(NsCleanup(cl[c], TRUE))
      BY <1>10 DEF Probe, DeleteNs, CleanupOf, Made, NsCleanup
    <3> QED BY <1>5, <1>8, <3>1, <3>2 DEF Pushing
  <2> QED BY <1>10, <2>1, <2>2 DEF Probe
<1>11. CASE RunStep(c)
  <2>1. pc[c] = "body" /\ ~DeleteNs(c)
    BY <1>11 DEF RunStep, DeleteNs, CleanupOf
  <2>2. ObjCleanup(cl[c], step[c]) \in Cleanup /\ ~Made(ObjCleanup(cl[c], step[c]))
    BY DEF ObjCleanup, Cleanup, Made, TypeOK
  <2>3. stack'[c] = stack[c] \/ stack'[c] = Append(stack[c], ObjCleanup(cl[c], step[c]))
    BY <1>11 DEF RunStep, ApplyAnswered, TypeOK
  <2> QED BY <1>5, <1>8, <2>1, <2>2, <2>3
<1>12. CASE SkipNs(c) \/ AwaitNs(c) \/ DeleteObj(c) \/ CleanupFails(c)
  BY <1>7, <1>12, PopStep
<1>13. CASE GetEagerClients(c) \/ NextClient(c) \/ NextStep(c) \/ CreateNsGarbled(c)
            \/ CreateNsFails(c) \/ CreateNsForbidden(c) \/ Finish(c)
  BY <1>5, <1>13
  DEF GetEagerClients, NextClient, NextStep, CreateNsGarbled, CreateNsFails,
      CreateNsForbidden, Finish, DeleteNs, CleanupOf
<1>14. CASE PollNs(c)
  BY <1>14 DEF PollNs, vars, cluster, Pending, MadeBy
<1> QED
  BY <1>6, <1>9, <1>10, <1>11, <1>12, <1>13, <1>14 DEF CaseNext

LEMMA OwnReadyInv ==
    ASSUME IInv, NEW c \in Case, CaseNext(c)
    PROVE  ReadyInv(c)'
<1>0. TypeOK /\ ControlInv(c) /\ ClientInv(c) /\ ReadyInv(c)
  BY DEF IInv, CaseInv
<1>1. UNCHANGED <<userSupplied, skipDelete, clusterOf, forbidden>>
  BY ConfigFixed
<1> SUFFICES ASSUME ~userSupplied PROVE ReadyInv(c)'
  BY <1>1 DEF ReadyInv
<1> USE <1>0, <1>1 DEF ReadyInv
<1>2. /\ EagerClients(c) \subseteq Client /\ cl[c] \in Client
      /\ \A k \in Client : clusterOf[k] \in Cluster
      /\ c \in Name /\ NsName(c) = c
  BY Clients DEF TypeOK, Name, NsName
<1>3. ASSUME pc[c] # "cleanup", NEW k \in Cluster
      PROVE  /\ ns'[k][c] = ns[k][c] \/ Makes(c, k, c)
             /\ ns'[k][c].phase = "terminating" => ns[k][c].phase = "terminating"
             /\ ns[k][c].phase = "active" => ns'[k][c].phase = "active"
  <2>1. ~Deletes(c, k, c)
    BY <1>3 DEF Deletes, DeleteNs, CleanupOf
  <2>2. ns'[k][c] = ns[k][c] \/ Makes(c, k, c)
    BY <1>2, <2>1, NsStep
  <2> QED BY <2>2 DEF Makes
<1>4. CASE pc'[c] \in {"cleanup", "await", "done"}
  BY <1>4
<1>5. CASE GetEagerClients(c)
  BY <1>2, <1>3, <1>4, <1>5 DEF GetEagerClients, Go, Fail, TypeOK
<1>6. CASE NextClient(c)
  BY <1>2, <1>3, <1>6 DEF NextClient, Go, TypeOK, ControlInv, Active
<1>7. CASE NextStep(c)
  <2>1. CASE step[c] = Len(Steps[c]) \/ Fail(c)
    BY <1>4, <1>7, <2>1 DEF NextStep, Go, Fail, TypeOK
  <2>2. CASE /\ step[c] # Len(Steps[c])
             /\ pc' = [pc EXCEPT ![c] = IF Steps[c][step[c] + 1].lazy
                                        THEN "create" ELSE "body"]
    <3>1. /\ step'[c] = step[c] + 1 /\ UNCHANGED <<todo, ns>>
          /\ pc[c] \in {"setup", "step"}
          /\ pc'[c] \in {"create", "body"} /\ (pc'[c] = "body" => ~Steps[c][step'[c]].lazy)
      BY <1>7, <2>2 DEF NextStep, TypeOK, cluster
    <3> QED BY <1>2, <1>3, <3>1 DEF Active
  <2> QED BY <1>7, <2>1, <2>2 DEF NextStep, Go
<1>8. CASE /\ \E existed \in BOOLEAN : Pushing(c, existed)
           /\ UNCHANGED <<todo, cl, step>>
           /\ cl[c] \in forbidden \/ ns'[clusterOf[cl[c]]][c].phase = "active"
  <2>1. pc[c] \in {"create", "probe"} /\ pc'[c] \in {"setup", "body"}
    BY <1>8 DEF Pushing
  <2> QED BY <1>2, <1>3, <1>8, <2>1 DEF Active
<1>9. CASE CreateNs(c)
  <2>1. (\E existed \in BOOLEAN : Pushing(c, existed)) /\ UNCHANGED <<todo, cl, step>>
    BY <1>9, PushStep DEF CreateNs
  <2>2. ns'[clusterOf[cl[c]]][c].phase = "active"
    <3>1. CASE ns[clusterOf[cl[c]]][c].phase = "absent"
      BY <1>2, <1>9, <3>1 DEF CreateNs, NsAt, TypeOK
    <3>2. CASE ns[clusterOf[cl[c]]][c].phase # "absent"
      <4>1. ns[clusterOf[cl[c]]][c].phase \in {"active", "absent", "terminating"}
        BY <1>2 DEF TypeOK
      <4>2. ns[clusterOf[cl[c]]][c].phase # "terminating"
        BY <1>2, <1>9 DEF CreateNs
      <4> QED BY <1>2, <1>9, <3>2, <4>1, <4>2 DEF CreateNs, NsAt
    <3> QED BY <3>1, <3>2
  <2> QED BY <1>8, <2>1, <2>2
<1>10. CASE Probe(c)
  <2>1. CASE Fail(c)
    BY <1>4, <2>1 DEF Fail, Go, TypeOK
  <2>2. CASE NsUsable(c, TRUE)
    BY <1>8, <1>10, <2>2, PushStep DEF Probe, ClientInv
  <2> QED BY <1>10, <2>1, <2>2 DEF Probe
<1>11. CASE CreateNsGarbled(c)
  BY <1>2, <1>3, <1>11 DEF CreateNsGarbled, Active
<1>12. CASE CreateNsFails(c)
  BY <1>4, <1>12 DEF CreateNsFails, Fail, Go, TypeOK
<1>13. CASE CreateNsForbidden(c)
  BY <1>2, <1>3, <1>13 DEF CreateNsForbidden, Go, TypeOK, Active
<1>14. CASE RunStep(c)
  <2>1. pc'[c] \in {"step", "cleanup"} /\ pc[c] = "body" /\ UNCHANGED <<todo, cl, step>>
    BY <1>14 DEF RunStep, Fail, Go, TypeOK
  <2> QED BY <1>2, <1>3, <1>4, <2>1 DEF Active
<1>15. CASE SkipNs(c) \/ AwaitNs(c) \/ DeleteObj(c) \/ CleanupFails(c)
  BY <1>4, <1>15, PopStep DEF Popping
<1>16. CASE DeleteNs(c) \/ Finish(c)
  BY <1>4, <1>16 DEF DeleteNs, Finish, Go, TypeOK
<1>17. CASE PollNs(c)
  BY <1>17 DEF PollNs, vars, cluster, Active
<1> QED
  BY <1>5, <1>6, <1>7, <1>9, <1>10, <1>11, <1>12, <1>13, <1>14, <1>15, <1>16, <1>17
  DEF CaseNext

\* Nothing takes back that a cleanup failed or a namespace was not known.
LEMMA Remembered ==
    ASSUME TypeOK, NEW c \in Case, CaseNext(c)
    PROVE  /\ ~dirty'[c] => ~dirty[c]
           /\ ~unclear'[c] => ~unclear[c]
BY Zenon DEF CaseNext, GetEagerClients, NextClient, NextStep, CreateNs, CreateNsGarbled,
       CreateNsFails, CreateNsForbidden, Probe, RunStep, SkipNs, DeleteNs, AwaitNs,
       PollNs, DeleteObj, CleanupFails, Finish, history, vars, TypeOK

\* A namespace the case made is covered afterwards.
LEMMA OwnCovered ==
    ASSUME IInv, NEW c \in Case, CaseNext(c), ~skipDelete, ~dirty'[c], ~unclear'[c],
           NEW k \in Cluster, NEW n \in Name, ns'[k][n].owner = c
    PROVE  Covered(c, k)'
<1>0. TypeOK /\ ControlInv(c) /\ CleanupInv(c)
  BY DEF IInv, CaseInv
<1>1. UNCHANGED <<userSupplied, skipDelete, clusterOf, forbidden>>
  BY ConfigFixed
<1> USE <1>0, <1>1 DEF Covered
<1>2. ~dirty[c] /\ ~unclear[c]
  BY Remembered
<1>3. n = NsName(c) /\ (Covered(c, k) \/ Makes(c, k, n))
  <2>1. CASE ns'[k][n] = ns[k][n]
    BY <1>2, <2>1 DEF IInv, NameInv, NameAt, CleanupInv
  <2>2. CASE Deletes(c, k, n)
    BY <1>2, <2>2 DEF Deletes, IInv, NameInv, NameAt, CleanupInv
  <2>3. CASE Makes(c, k, n)
    BY <2>3 DEF Makes
  <2> QED BY <2>1, <2>2, <2>3, NsStep
<1>4. stack[c] \in Seq(Cleanup) /\ Len(stack[c]) \in Nat
  BY StackType
<1>5. CASE stack'[c] = stack[c] /\ pc[c] # "create"
  <2>1. ~Makes(c, k, n)
    BY <1>5 DEF Makes
  <2> QED BY <1>3, <1>5, <2>1
<1>6. ASSUME NEW e \in Cleanup, stack'[c] = Append(stack[c], e),
             \/ pc[c] # "create"
             \/ e.kind = "ns" /\ clusterOf[e.cl] = clusterOf[cl[c]]
                /\ (Makes(c, k, n) => ~e.existed)
      PROVE  Covered(c, k)'
  <2>1. /\ Len(stack'[c]) = Len(stack[c]) + 1
        /\ \A i \in 1..Len(stack[c]) : stack'[c][i] = stack[c][i]
        /\ stack'[c][Len(stack[c]) + 1] = e
    BY <1>6, PushKeeps
  <2>2. \A i \in 1..(Len(stack[c]) + 1) : i \in 1..Len(stack'[c])
    BY <2>1
  <2>3. CASE \E i \in 1..Len(stack[c]) : /\ stack[c][i].kind = "ns"
                                         /\ clusterOf[stack[c][i].cl] = k
                                         /\ ~(userSupplied /\ stack[c][i].existed)
    <3>1. PICK i \in 1..Len(stack[c]) : /\ stack[c][i].kind = "ns"
                                        /\ clusterOf[stack[c][i].cl] = k
                                        /\ ~(userSupplied /\ stack[c][i].existed)
      BY <2>3
    <3>2. i \in 1..Len(stack'[c]) /\ stack'[c][i] = stack[c][i]
      BY <1>4, <2>1, <2>2
    <3> QED BY <3>1, <3>2
  <2>4. CASE pc[c] = "create" /\ clusterOf[cl[c]] = k /\ (~userSupplied \/ Makes(c, k, n))
    <3>1. Len(stack[c]) + 1 \in 1..Len(stack'[c]) /\ stack'[c][Len(stack[c]) + 1] = e
      BY <1>4, <2>1, <2>2
    <3> QED BY <1>6, <2>4, <3>1
  <2> QED BY <1>3, <2>3, <2>4 DEF Makes
<1>7. CASE CreateNs(c)
  <2>1. PICK existed \in BOOLEAN : /\ Pushing(c, existed)
                                   /\ NsCleanup(cl[c], existed) \in Cleanup
                                   /\ Makes(c, k, n) => ~existed
    <3>1. CASE NsAt(c, cl[c]).phase = "absent" /\ NsUsable(c, FALSE)
      BY <1>7, <3>1, PushStep DEF CreateNs
    <3>2. CASE NsAt(c, cl[c]).phase # "absent" /\ NsUsable(c, TRUE)
      BY <1>7, <3>2, PushStep DEF CreateNs, Makes, NsAt
    <3> QED BY <1>7, <3>1, <3>2 DEF CreateNs
  <2>2. pc[c] = "create"
    BY <1>7 DEF CreateNs
  <2>3. NsCleanup(cl[c], existed).kind = "ns" /\ NsCleanup(cl[c], existed).cl = cl[c]
        /\ NsCleanup(cl[c], existed).existed = existed
    BY DEF NsCleanup
  <2> QED BY <1>6, <2>1, <2>2, <2>3 DEF Pushing
<1>8. CASE Probe(c)
  <2>1. CASE Fail(c) /\ UNCHANGED stack
    BY <1>5, <1>8, <2>1 DEF Probe
  <2>2. CASE NsUsable(c, TRUE)
    <3>1. Pushing(c, TRUE) /\ NsCleanup(cl[c], TRUE) \in Cleanup
      BY <1>8, <2>2, PushStep DEF Probe
    <3>2. pc[c] = "probe"
      BY <1>8 DEF Probe
    <3> QED BY <1>6, <3>1, <3>2 DEF Pushing
  <2> QED BY <1>8, <2>1, <2>2 DEF Probe
<1>9. CASE RunStep(c)
  <2>1. pc[c] = "body"
    BY <1>9 DEF RunStep
  <2>2. ObjCleanup(cl[c], step[c]) \in Cleanup
    BY DEF ObjCleanup, Cleanup, TypeOK
  <2>3. stack'[c] = stack[c] \/ stack'[c] = Append(stack[c], ObjCleanup(cl[c], step[c]))
    BY <1>9 DEF RunStep, ApplyAnswered, TypeOK
  <2> QED BY <1>5, <1>6, <2>1, <2>2, <2>3
<1>10. CASE CreateNsGarbled(c)
  <2>1. ~userSupplied /\ pc[c] = "create" /\ cl[c] \notin forbidden
        /\ UNCHANGED <<pc, cl, stack>>
    BY <1>10 DEF CreateNsGarbled, TypeOK
  <2> QED BY <1>3, <2>1 DEF Makes
<1>11. CASE CreateNsFails(c)
  <2>1. stack' = stack /\ ns' = ns /\ cl[c] \in Client
    BY <1>11 DEF CreateNsFails, TypeOK
  <2>2. ns[clusterOf[cl[c]]][NsName(c)].owner # c
    <3>1. unclear' = [unclear EXCEPT ![c] = @ \/ NsAt(c, cl[c]).owner = c]
      BY <1>11 DEF CreateNsFails, TypeOK
    <3>2. unclear'[c] = (unclear[c] \/ NsAt(c, cl[c]).owner = c)
      BY Zenon, <3>1 DEF TypeOK
    <3> QED BY Zenon, <3>2 DEF NsAt
  <2>3. k # clusterOf[cl[c]]
    BY <1>3, <2>1, <2>2
  <2> QED BY <1>3, <2>1, <2>3 DEF Makes
<1>12. CASE CreateNsForbidden(c)
  BY <1>3, <1>12 DEF CreateNsForbidden, Makes
<1>13. CASE DeleteNs(c)
  BY <1>5, <1>13 DEF DeleteNs, CleanupOf
<1>14. CASE SkipNs(c) \/ AwaitNs(c) \/ DeleteObj(c)
  <2>1. Popping(c)
    BY <1>14, PopStep
  <2>2. /\ Len(stack[c]) > 0 /\ Len(stack'[c]) = Len(stack[c]) - 1
        /\ \A i \in 1..(Len(stack[c]) - 1) : stack'[c][i] = stack[c][i]
        /\ Top(c) = stack[c][Len(stack[c])]
    BY <2>1, PopKeeps
  <2>3. PICK i \in 1..Len(stack[c]) : /\ stack[c][i].kind = "ns"
                                      /\ clusterOf[stack[c][i].cl] = k
                                      /\ ~(userSupplied /\ stack[c][i].existed)
    BY <1>3, <2>1 DEF Makes, Popping
  <2>4. i # Len(stack[c])
    <3>1. CASE SkipNs(c) \/ DeleteObj(c)
      BY <2>2, <2>3, <3>1 DEF SkipNs, DeleteObj, CleanupOf, KeepNs
    <3>2. CASE AwaitNs(c)
      <4>1. NsAt(c, Top(c).cl).phase = "absent" /\ ns' = ns
        <5>1. dirty' = [dirty EXCEPT ![c] = TRUE] => dirty'[c]
          BY DEF TypeOK
        <5> QED BY <3>2, <5>1 DEF AwaitNs, cluster
      <4>2. clusterOf[Top(c).cl] # k
        BY <1>3, <4>1, TestCaseAssumption DEF NsAt, IInv, NameInv, NameAt
      <4> QED BY <2>2, <2>3, <4>2
    <3> QED BY <1>14, <3>1, <3>2
  <2>5. i \in 1..Len(stack'[c])
    BY <1>4, <2>2, <2>3, <2>4
  <2> QED BY <2>2, <2>3, <2>5
<1>15. CASE CleanupFails(c)
  BY <1>15 DEF CleanupFails, TypeOK
<1>16. CASE GetEagerClients(c) \/ NextClient(c) \/ NextStep(c) \/ Finish(c)
  BY <1>5, <1>16 DEF GetEagerClients, NextClient, NextStep, Finish
<1>17. CASE PollNs(c)
  BY <1>3, <1>17 DEF PollNs, vars, cluster, Makes
<1> QED
  BY <1>7, <1>8, <1>9, <1>10, <1>11, <1>12, <1>13, <1>14, <1>15, <1>16, <1>17 DEF CaseNext

\* The cleanup of an object the case applied is on its stack.
LEMMA OwnObjects ==
    ASSUME IInv, NEW c \in Case, CaseNext(c), ~skipDelete, ~dirty'[c],
           NEW o \in objs \cap objs', o.case = c, o \notin stray
    PROVE  \E i \in 1..Len(stack'[c]) : /\ stack'[c][i].kind = "obj"
                                        /\ stack'[c][i].step = o.step
<1>0. TypeOK /\ ControlInv(c)
  BY DEF IInv, CaseInv
<1> USE <1>0
<1>1. ~dirty[c]
  BY Remembered
<1>2. PICK i \in 1..Len(stack[c]) : stack[c][i].kind = "obj" /\ stack[c][i].step = o.step
  BY <1>1 DEF IInv, CaseInv, CleanupInv
<1>3. CASE stack'[c] = stack[c]
  BY <1>2, <1>3
<1>4. ASSUME NEW e \in Cleanup, stack'[c] = Append(stack[c], e)
      PROVE  i \in 1..Len(stack'[c]) /\ stack'[c][i] = stack[c][i]
  BY <1>4, PushKeeps
<1>5. CASE CreateNs(c) \/ Probe(c)
  <2>1. CASE \E existed \in BOOLEAN : Pushing(c, existed) /\ NsCleanup(cl[c], existed) \in Cleanup
    BY <1>2, <1>3, <1>4, <2>1 DEF Pushing
  <2>2. CASE Probe(c) /\ Fail(c) /\ UNCHANGED stack
    BY <1>3, <2>2
  <2> QED BY <1>5, <2>1, <2>2, PushStep DEF CreateNs, Probe
<1>6. CASE RunStep(c)
  <2>1. ObjCleanup(cl[c], step[c]) \in Cleanup
    BY DEF ObjCleanup, Cleanup, TypeOK
  <2>2. stack'[c] = stack[c] \/ stack'[c] = Append(stack[c], ObjCleanup(cl[c], step[c]))
    BY <1>6 DEF RunStep, ApplyAnswered, TypeOK
  <2> QED BY <1>2, <1>3, <1>4, <2>1, <2>2
<1>7. CASE SkipNs(c) \/ AwaitNs(c) \/ DeleteObj(c)
  <2>1. Popping(c)
    BY <1>7, PopStep
  <2>2. /\ Len(stack[c]) \in Nat /\ Len(stack[c]) > 0 /\ Len(stack'[c]) = Len(stack[c]) - 1
        /\ \A j \in 1..(Len(stack[c]) - 1) : stack'[c][j] = stack[c][j]
        /\ Top(c) = stack[c][Len(stack[c])]
    BY <2>1, PopKeeps
  <2>3. i # Len(stack[c])
    <3>1. CASE SkipNs(c) \/ AwaitNs(c)
      BY <1>2, <2>2, <3>1 DEF SkipNs, AwaitNs, CleanupOf, ControlInv
    <3>2. CASE DeleteObj(c)
      <4>1. o # [case |-> c, step |-> Top(c).step]
        BY <3>2 DEF DeleteObj
      <4>2. o = [case |-> c, step |-> o.step]
        BY DEF TypeOK
      <4> QED BY <1>2, <2>2, <4>1, <4>2
    <3> QED BY <1>7, <3>1, <3>2
  <2> QED BY <1>2, <2>2, <2>3
<1>8. CASE CleanupFails(c)
  BY <1>8 DEF CleanupFails, TypeOK
<1>9. CASE GetEagerClients(c) \/ NextClient(c) \/ NextStep(c) \/ CreateNsGarbled(c)
           \/ CreateNsFails(c) \/ CreateNsForbidden(c) \/ DeleteNs(c) \/ PollNs(c) \/ Finish(c)
  BY <1>3, <1>9
  DEF GetEagerClients, NextClient, NextStep, CreateNsGarbled, CreateNsFails,
      CreateNsForbidden, DeleteNs, PollNs, Finish, vars
<1> QED
  BY <1>5, <1>6, <1>7, <1>8, <1>9 DEF CaseNext

LEMMA OwnCleanupInv ==
    ASSUME IInv, NEW c \in Case, CaseNext(c)
    PROVE  CleanupInv(c)'
<1>1. UNCHANGED <<userSupplied, skipDelete, clusterOf, forbidden>>
  BY ConfigFixed
<1> SUFFICES ASSUME ~skipDelete, ~dirty'[c] PROVE CleanupInv(c)'
  BY <1>1 DEF CleanupInv
<1>2. ASSUME ~unclear'[c], NEW k \in Cluster, NEW n \in Name, ns'[k][n].owner = c
      PROVE  Covered(c, k)'
  BY <1>2, OwnCovered
<1>3. ASSUME NEW o \in objs', o.case = c, o \notin stray'
      PROVE  \E i \in 1..Len(stack'[c]) : /\ stack'[c][i].kind = "obj"
                                          /\ stack'[c][i].step = o.step
  <2>1. CASE o \in objs
    BY <1>3, <2>1, OwnObjects, ObjStep
  <2>2. CASE RunStep(c) /\ o = Applied(c) /\ o \notin objs
    <3>1. ObjCleanup(cl[c], step[c]) \in Cleanup
      BY DEF ObjCleanup, Cleanup, IInv, TypeOK
    <3>2. stack'[c] = Append(stack[c], ObjCleanup(cl[c], step[c]))
      BY <1>3, <2>2 DEF RunStep, ApplyAnswered, IInv, TypeOK
    <3>3. Len(stack[c]) + 1 \in 1..Len(stack'[c])
          /\ stack'[c][Len(stack[c]) + 1] = ObjCleanup(cl[c], step[c])
      BY <3>1, <3>2, PushKeeps DEF IInv
    <3> QED BY <2>2, <3>3 DEF ObjCleanup, Applied
  <2> QED BY <1>3, <2>1, <2>2, ObjStep
<1> QED
  BY <1>2, <1>3 DEF CleanupInv

LEMMA IInvHolds == Spec => []IInv
<1>1. IInv /\ [Next]_vars => IInv'
  <2> SUFFICES ASSUME IInv, [Next]_vars PROVE IInv'
    OBVIOUS
  <2>1. TypeOK'
    BY NextTypeOK
  <2>2. ASSUME NEW c \in Case, CaseNext(c) PROVE IInv'
    <3>1. CaseInv(c)'
      BY <2>2, OwnControlInv, OwnCreatorInv, OwnReadyInv, OwnCleanupInv DEF CaseInv
    <3>2. \A d \in Case : CaseInv(d)'
      BY <2>2, <3>1, OthersInv
    <3> QED BY <2>1, <2>2, <3>2, NextNameInv, NextHomeInv, NextLateInv DEF IInv
  <2>3. ASSUME NEW k \in Cluster, NEW n \in Name, Finalize(k, n) PROVE IInv'
    BY <2>1, <2>3, FinalizeInv DEF IInv
  <2>5. ASSUME NEW q \in lateNs, ServeNs(q) PROVE IInv'
    BY <2>1, <2>5, ServeNsInv DEF IInv
  <2>6. ASSUME NEW o \in lateObjs, ServeObj(o) PROVE IInv'
    BY <2>1, <2>6, ServeObjInv DEF IInv
  <2>4. CASE UNCHANGED vars
    <3> USE <2>4 DEF vars, config, cluster, applied, history
    <3>1. NameInv' /\ HomeInv' /\ LateInv'
      BY DEF IInv, NameInv, NameAt, NsName, HomeInv, ObjCluster, LateInv
    <3>2. ASSUME NEW c \in Case PROVE CaseInv(c)'
      <4>1. ControlInv(c)' /\ ClientInv(c)' /\ CreatorInv(c)'
        BY DEF IInv, CaseInv, ControlInv, ClientInv, Top, CreatorInv, Pending, MadeBy
      <4>2. ReadyInv(c)' /\ CleanupInv(c)'
        BY DEF IInv, CaseInv, ReadyInv, Active, CleanupInv, Covered
      <4> QED BY <4>1, <4>2 DEF CaseInv
    <3> QED BY <2>1, <3>1, <3>2 DEF IInv
  <2> QED
    BY <2>2, <2>3, <2>4, <2>5, <2>6 DEF Next, Terminated
<1> QED
  BY <1>1, InitIInv, PTL DEF Spec

-----------------------------------------------------------------------------
(* The theorems.                                                           *)

\* The type invariant of the cases, their stacks and the namespaces is kept
\* by every step.
THEOREM TypeCorrect == Spec => []TypeOK
BY IInvHolds, PTL DEF IInv

\* A namespace is deleted only by the case that made it, in its cleanup
\* (case.go, createNamespace and deleteNamespace).
THEOREM CreatorDeletes == Spec => OnlyCreatorDeletes
<1> DEFINE Deleter(d) == d \in Case /\ pc[d] = "cleanup" /\ pc'[d] = "await"
<1>1. ASSUME IInv, [Next]_vars, NEW k \in Cluster, NEW n \in Name,
             ns[k][n].phase = "active", ns'[k][n].phase = "terminating"
      PROVE  Deleter(ns[k][n].owner)
  <2>1. ASSUME NEW c \in Case, CaseNext(c)
        PROVE  Deleter(ns[k][n].owner)
    <3>1. Deletes(c, k, n)
      <4>1. ns'[k][n] = ns[k][n] \/ Makes(c, k, n) \/ Deletes(c, k, n)
        BY <1>1, <2>1, NsStep DEF IInv
      <4> QED BY <1>1, <4>1 DEF Makes
    <3>2. pc'[c] = "await"
      BY <1>1, <3>1 DEF Deletes, DeleteNs, Go, IInv, TypeOK
    <3> QED BY <1>1, <3>1, <3>2, DeletesOwn
  <2>3. ASSUME NEW q \in lateNs, ServeNs(q) PROVE FALSE
    <3>1. ns \in NsType /\ q.cluster \in Cluster /\ NsName(q.case) \in Name
      BY <1>1 DEF IInv, TypeOK, NsType, NsName, Name
    <3>2. CASE ns' = ns
      BY <1>1, <3>2
    <3>3. CASE ns' = [ns EXCEPT ![q.cluster][NsName(q.case)] =
                         [phase |-> "active", owner |-> q.case]]
      <4>1. ns'[k][n] = ns[k][n] \/ ns'[k][n] = [phase |-> "active", owner |-> q.case]
        BY <3>1, <3>3 DEF NsType
      <4> QED BY <1>1, <4>1
    <3> QED BY <2>3, <3>2, <3>3 DEF ServeNs
  <2>4. ASSUME NEW o \in lateObjs, ServeObj(o) PROVE FALSE
    BY <1>1, <2>4 DEF ServeObj
  <2>2. ASSUME NEW j \in Cluster, NEW m \in Name, Finalize(j, m) PROVE FALSE
    <3>1. ns \in NsType /\ ns[j][m].phase = "terminating" /\ ns' = [ns EXCEPT ![j][m] = Gone]
      BY <1>1, <2>2 DEF Finalize, IInv, TypeOK, NsType
    <3>2. ns'[k][n] = ns[k][n]
      BY <1>1, <3>1 DEF NsType
    <3> QED BY <1>1, <3>2
  <2> QED
    BY <1>1, <2>1, <2>2, <2>3, <2>4 DEF Next, Terminated, vars, cluster
<1>2. IInv /\ [Next]_vars
      => [\A k \in Cluster, n \in Name :
             ns[k][n].phase = "active" /\ ns'[k][n].phase = "terminating"
             => LET d == ns[k][n].owner
                IN d \in Case /\ pc[d] = "cleanup" /\ pc'[d] = "await"]_vars
  BY <1>1
<1> QED
  BY <1>2, IInvHolds, PTL DEF Spec, OnlyCreatorDeletes

\* The client of an eager step that is not overlooked is among those set up.
LEMMA EagerStep ==
    ASSUME TypeOK, NEW c \in Case, step[c] > 0, ~Steps[c][step[c]].lazy, ~Overlooked(c)
    PROVE  StepClient(Steps[c][step[c]]) \in EagerClients(c)
<1> DEFINE s == Steps[c][step[c]]
           same == {i \in DOMAIN Steps[c] : ~Steps[c][i].lazy /\ Steps[c][i].kc = s.kc}
           first == CHOOSE i \in same : \A j \in same : i <= j
<1>1. CASE s.kc = Default
  BY <1>1 DEF StepClient, EagerClients
<1>2. CASE s.kc # Default
  <2>1. step[c] \in same /\ same \subseteq Nat
    BY Clients DEF TypeOK
  <2>2. \E i \in same : \A j \in same : i <= j
    <3>1. PICK i \in same : \A j \in same : ~(<<j, i>> \in OpToRel(<, Nat))
      BY <2>1, WFMin, NatLessThanWellFounded
    <3>2. \A j \in same : ~(j < i)
      BY <2>1, <3>1 DEF OpToRel
    <3> QED BY <2>1, <3>2
  <2>3. first \in same /\ \A j \in same : first <= j
    BY <2>2
  <2>4. StepClient(Steps[c][first]) = StepClient(s)
    BY DEF Overlooked
  <2>5. StepClient(Steps[c][first]) \in EagerClients(c)
    BY Zenon, <1>2, <2>3 DEF EagerClients
  <2> QED BY <2>4, <2>5
<1> QED BY <1>1, <1>2

\* With generated names a step finds its namespace, unless its client may
\* not create it or it is one of those the eager setup overlooks.
THEOREM StepFindsNamespace == Spec => []NamespaceReady
<1>1. IInv => NamespaceReady
  <2> SUFFICES ASSUME IInv, NEW c \in Case, pc[c] = "body", ~userSupplied,
                      cl[c] \notin forbidden, ~Overlooked(c)
               PROVE  NsAt(c, cl[c]).phase = "active"
    BY DEF NamespaceReady
  <2> USE DEF IInv, CaseInv, NsAt, NsName
  <2>1. step[c] > 0 /\ todo[c] = {} /\ cl[c] = StepClient(Steps[c][step[c]])
    BY DEF ControlInv, ClientInv
  <2>2. CASE Steps[c][step[c]].lazy
    BY <2>2 DEF ReadyInv, Active
  <2>3. CASE ~Steps[c][step[c]].lazy
    BY <2>1, <2>3, EagerStep DEF ReadyInv, Active
  <2> QED BY <2>2, <2>3
<1> QED
  BY <1>1, IInvHolds, PTL

\* After its last cleanup function a case has left no namespace it made, if
\* none of them failed and it could know what it had made; and no object but
\* a stray one in the namespace the user supplied (case.go, createNamespace
\* and deleteNamespace; step.go, Create).
THEOREM CleansUp == Spec => []NothingLeftBehind
<1>1. IInv => NothingLeftBehind
  <2> SUFFICES ASSUME IInv, NEW c \in Case, pc[c] = "done", ~skipDelete, ~dirty[c],
                      ~unclear[c]
               PROVE  /\ \A k \in Cluster, n \in Name : ns[k][n].owner # c
                      /\ \A o \in objs : o.case = c => userSupplied /\ o \in stray
    BY DEF NothingLeftBehind
  <2>1. Len(stack[c]) = 0
    BY EmptySeq DEF IInv, CaseInv, ControlInv
  <2>2. \A k \in Cluster : ~Covered(c, k)
    BY <2>1 DEF Covered
  <2>3. \A k \in Cluster, n \in Name : ns[k][n].owner # c
    BY <2>2 DEF IInv, CaseInv, CleanupInv
  <2>4. ASSUME NEW o \in objs, o.case = c PROVE userSupplied /\ o \in stray
    <3>1. o \in stray
      BY <2>1, <2>4 DEF IInv, CaseInv, CleanupInv
    <3>2. ObjCluster(o) \in Cluster /\ NsName(c) \in Name
      BY <2>4, ObjPlace DEF IInv
    <3>3. ns[ObjCluster(o)][NsName(c)].phase # "absent"
      BY <2>4 DEF IInv, HomeInv
    <3>4. ~userSupplied => ns[ObjCluster(o)][NsName(c)].owner = c
      BY <3>2, <3>3 DEF IInv, NameInv, NameAt, NsName
    <3> QED BY <2>3, <3>1, <3>2, <3>4
  <2> QED
    BY <2>3, <2>4
<1> QED
  BY <1>1, IInvHolds, PTL
=============================================================================
