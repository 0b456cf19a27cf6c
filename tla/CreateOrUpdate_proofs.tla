------------------------ MODULE CreateOrUpdate_proofs ------------------------
(***************************************************************************)
(* Proofs about CreateOrUpdate: with or without retryOnError, a deadline   *)
(* and cleanups, and for any number of unparsable answers and of writes by *)
(* other users.                                                            *)
(***************************************************************************)
EXTENDS CreateOrUpdate, TLAPS

-----------------------------------------------------------------------------
(* The inductive invariant.                                                *)

\* The write that updated names.
Named == IF updated THEN "patch" ELSE "create"

\* What the attempt knows: between requests nothing is on the wire, a patch
\* follows a Get that found a version, and updated is set before the write.
AttemptInv == /\ stage \notin {"get", "patch", "create"} => wire = "unsent"
              /\ stage = "get" /\ wire = "answered" /\ reply = "ok" => seen # 0
              /\ stage = "patch" => updated /\ seen # 0
              /\ stage = "create" => ~updated
              /\ stage = "err" => reply # "ok"

\* A write that was answered well, and an attempt that ended well, are the
\* last write so far.
AnswerInv == /\ stage \in {"patch", "create"} /\ wire = "answered" /\ reply = "ok"
                => wrote = stage
             /\ stage = "ok" => wrote = Named

\* A request that was given up is the end of its attempt and of the call.
StrayInv == /\ stray # {} => \/ stage = "err" /\ reply = "Other"
                             \/ stage = "gone" /\ pc # "select" /\ err # "nil"
            /\ \A r \in stray : r.op = "patch" => r.seen = seen /\ seen # 0

\* A call that leaves the select without an error leaves nobody who could
\* still write, or change updated.
CallInv == /\ pc = "select" => err = "nil" /\ stage # "gone" /\ cleanup = "none"
           /\ pc = "check" => cleanup = "none"
           /\ pc # "select" /\ err = "nil" => stage = "gone" /\ stray = {} /\ wrote = Named
           /\ cleanup = "registered" => pc = "returned" /\ err = "nil" /\ wrote = "create"

\* What another user wrote has a version that the attempt has not read.
VersionInv == /\ seen <= rv
              /\ overtaken => obj = Absent \/ obj.rv > seen

\* An object of the call is replaced only after somebody deleted it.
OwnerInv == /\ wrote = "create" => created
            /\ created /\ pc # "cleaned" => obj.by = "kuttl" \/ ownGone

IInv == /\ TypeOK
        /\ AttemptInv
        /\ AnswerInv
        /\ StrayInv
        /\ CallInv
        /\ VersionInv
        /\ OwnerInv

LEMMA InitIInv == Init => IInv
<1> SUFFICES ASSUME Init PROVE IInv
  OBVIOUS
<1>1. TypeOK
  <2>1. obj \in {Absent} \cup [rv : 1..rv, by : {"kuttl", "other"}] /\ rv \in Nat
    BY DEF Init, Absent
  <2>2. stray \subseteq [op : {"patch", "create"}, seen : 0..rv]
    BY DEF Init
  <2>3. {updated, expired, created, overtaken, ownGone} \subseteq BOOLEAN
    BY Zenon DEF Init
  <2> QED
    BY <2>1, <2>2, <2>3 DEF Init, TypeOK, Replies
<1>2. AttemptInv /\ AnswerInv /\ StrayInv /\ CallInv /\ VersionInv /\ OwnerInv
  BY <1>1 DEF Init, TypeOK, AttemptInv, AnswerInv, StrayInv, CallInv, VersionInv, OwnerInv
<1> QED
  BY <1>1, <1>2 DEF IInv

-----------------------------------------------------------------------------
(* The object.                                                             *)

\* What TypeOK says of the object and its version.
LEMMA ObjectType ==
    ASSUME TypeOK
    PROVE  /\ rv \in Nat /\ obj.rv \in 0..rv
           /\ obj # Absent => obj.rv \in 1..rv /\ obj.by \in {"kuttl", "other"}
           /\ Absent.rv = 0 /\ Absent.by = "none"
BY DEF TypeOK, Absent

Versions(n) == {Absent} \cup [rv : 1..n, by : {"kuttl", "other"}]

\* The types after a write.
Newer == /\ rv' \in Nat /\ rv <= rv'
         /\ obj' \in Versions(rv')
         /\ wrote' \in {"none", "patch", "create"} /\ created' \in BOOLEAN

\* A write leaves an object with the newest version, or changes nothing.
LEMMA WriteResult ==
    ASSUME TypeOK, NEW op \in {"patch", "create"}, NEW rep,
           op = "patch" /\ rep = "ok" => obj # Absent,
           Write(op, rep)
    PROVE  /\ Newer
           /\ rv' # rv => rep = "ok" /\ obj'.rv > rv /\ obj' # Absent
<1>1. CASE rep = "ok"
  <2>1. /\ rv' = rv + 1
        /\ obj' = [rv |-> rv + 1, by |-> IF op = "create" THEN "kuttl" ELSE obj.by]
        /\ wrote' = op /\ created' = (created \/ op = "create")
    BY <1>1 DEF Write
  <2>2. rv \in Nat /\ (op = "create" \/ obj.by \in {"kuttl", "other"})
    BY <1>1, ObjectType
  <2>3. obj' \in Versions(rv') /\ obj'.rv > rv /\ obj' # Absent
    BY <2>1, <2>2 DEF Versions, Absent
  <2>4. wrote' \in {"none", "patch", "create"} /\ created' \in BOOLEAN
    BY <2>1 DEF TypeOK
  <2> QED BY <1>1, <2>1, <2>2, <2>3, <2>4 DEF Newer
<1>2. CASE rep # "ok"
  BY <1>2 DEF Write, TypeOK, Versions, Newer
<1> QED BY <1>1, <1>2

LEMMA NextTypeOK == IInv /\ [Next]_vars => TypeOK'
<1> SUFFICES ASSUME IInv, [Next]_vars PROVE TypeOK'
  OBVIOUS
<1> USE DEF IInv
<1> USE CreateOrUpdateAssumption
<1>0. /\ {updated, expired, created, overtaken, ownGone} \subseteq BOOLEAN
      /\ {rv, seen, garbled, others} \subseteq Nat
      /\ seen <= rv /\ obj \in Versions(rv)
  BY DEF TypeOK, VersionInv, Versions
<1>1. CASE ServeGet
  <2>1. seen' \in Nat
    BY <1>0, <1>1, ObjectType DEF ServeGet
  <2> QED
    BY <1>1, <2>1 DEF ServeGet, callVars, boundVars, TypeOK, Replies
<1>2. CASE ServePatch
  <2>1. /\ Write("patch", reply') /\ reply' \in Replies
        /\ reply' = "ok" => obj # Absent
    BY <1>2 DEF ServePatch, PatchReply, Replies
  <2>2. Newer
    BY <2>1, WriteResult
  <2>3. stray' \subseteq [op : {"patch", "create"}, seen : 0..rv']
    BY <1>0, <1>2, <2>2 DEF ServePatch, TypeOK, Newer
  <2> QED
    BY <1>0, <1>2, <2>1, <2>2, <2>3
    DEF ServePatch, callVars, boundVars, TypeOK, Versions, Newer
<1>3. CASE ServeCreate
  <2>1. Write("create", reply') /\ reply' \in Replies
    BY <1>3 DEF ServeCreate, CreateReply, Replies
  <2>2. Newer
    BY <2>1, WriteResult
  <2>3. stray' \subseteq [op : {"patch", "create"}, seen : 0..rv']
    BY <1>0, <1>3, <2>2 DEF ServeCreate, TypeOK, Newer
  <2> QED
    BY <1>0, <1>3, <2>1, <2>2, <2>3
    DEF ServeCreate, callVars, boundVars, TypeOK, Versions, Newer
<1>4. ASSUME NEW r \in stray, StrayLands(r) PROVE TypeOK'
  <2>1. PICK rep : Write(r.op, rep) /\ (r.op = "patch" /\ rep = "ok" => obj # Absent)
    BY <1>4 DEF StrayLands, PatchReply
  <2>2. r.op \in {"patch", "create"}
    BY DEF TypeOK
  <2>3. Newer
    BY <2>1, <2>2, WriteResult
  <2>4. stray' \subseteq [op : {"patch", "create"}, seen : 0..rv']
    BY <1>0, <1>4, <2>3 DEF StrayLands, TypeOK, Newer
  <2> QED
    BY <1>0, <1>4, <2>3, <2>4
    DEF StrayLands, callVars, attemptVars, boundVars, TypeOK, Versions, Newer
<1>5. CASE OtherWrites
  <2>1. rv' \in Nat /\ rv <= rv' /\ others' \in Nat
    BY <1>0, <1>5 DEF OtherWrites
  <2>2. obj' \in Versions(rv')
    BY <1>0, <1>5, ObjectType DEF OtherWrites, Versions
  <2>3. stray' \subseteq [op : {"patch", "create"}, seen : 0..rv']
    BY <1>0, <1>5, <2>1 DEF OtherWrites, TypeOK
  <2>4. ownGone' \in BOOLEAN /\ overtaken' \in BOOLEAN
    BY <1>0, <1>5 DEF OtherWrites
  <2> QED
    BY <1>0, <1>5, <2>1, <2>2, <2>3, <2>4
    DEF OtherWrites, callVars, attemptVars, TypeOK, Versions
<1>6. CASE Send
  BY <1>6
  DEF Send, Requesting, callVars, serverVars, histVars, boundVars, TypeOK, Replies
<1>7. CASE Garble
  BY <1>7 DEF Garble, Requesting, callVars, serverVars, histVars, TypeOK, Replies
<1>8. CASE RequestFails
  <2>1. stray' \subseteq [op : {"patch", "create"}, seen : 0..rv']
    BY <1>0, <1>8 DEF RequestFails, Abandon, Requesting, TypeOK
  <2> QED
    BY <1>8, <2>1 DEF RequestFails, callVars, histVars, boundVars, TypeOK, Replies
<1>9. CASE GetAnswered
  BY <1>9 DEF GetAnswered, serverVars, histVars, boundVars, TypeOK, Replies
<1>10. CASE WriteAnswered
  BY <1>10 DEF WriteAnswered, callVars, serverVars, histVars, boundVars, TypeOK, Replies
<1>11. CASE ContextEnds
  BY <1>11
  DEF ContextEnds, attemptVars, serverVars, histVars, boundVars, TypeOK, Replies
<1>12. CASE SelectDone
  BY <1>12 DEF SelectDone, serverVars, histVars, boundVars, TypeOK, Replies
<1>13. CASE SelectErr
  BY <1>13 DEF SelectErr, AttemptInv, serverVars, histVars, boundVars, TypeOK, Replies
<1>14. CASE SelectCtx
  BY <1>14 DEF SelectCtx, attemptVars, serverVars, histVars, boundVars, TypeOK, Replies
<1>15. CASE Finish
  BY <1>15 DEF Finish, attemptVars, serverVars, histVars, boundVars, TypeOK, Replies
<1>16. CASE RunCleanup
  BY <1>16 DEF RunCleanup, attemptVars, histVars, boundVars, TypeOK, Replies
<1>17. CASE Terminated
  BY <1>17
  DEF Terminated, vars, callVars, attemptVars, serverVars, histVars, boundVars,
      TypeOK, Replies
<1>18. CASE UNCHANGED vars
  BY <1>18
  DEF vars, callVars, attemptVars, serverVars, histVars, boundVars, TypeOK,
      Replies
<1> QED
  BY <1>1, <1>2, <1>3, <1>4, <1>5, <1>6, <1>7, <1>8, <1>9, <1>10, <1>11,
      <1>12, <1>13, <1>14, <1>15, <1>16, <1>17, <1>18 DEF Next

LEMMA NextIInv == IInv /\ TypeOK' /\ [Next]_vars => IInv'
<1> SUFFICES ASSUME IInv, TypeOK', [Next]_vars PROVE IInv'
  OBVIOUS
<1> USE DEF IInv
<1> DEFINE Goal == /\ AttemptInv'
                   /\ AnswerInv'
                   /\ StrayInv'
                   /\ CallInv'
                   /\ VersionInv'
                   /\ OwnerInv'
<1>1. CASE ServeGet
  BY <1>1
  DEF ServeGet, callVars, boundVars, AttemptInv, AnswerInv, StrayInv, CallInv,
      VersionInv, OwnerInv, Named, TypeOK
<1>2. CASE ServePatch
  <2>1. CASE reply' = "ok"
    <3>1. obj # Absent /\ obj.rv \in Nat /\ stray = {}
      BY <1>2, <2>1, ObjectType DEF ServePatch, PatchReply, StrayInv
    <3>2. /\ wrote' = "patch" /\ created' = created
          /\ obj' = [rv |-> rv + 1, by |-> obj.by] /\ rv' = rv + 1
      BY <1>2, <2>1 DEF ServePatch, Write, TypeOK
    <3>3. obj'.by = obj.by /\ obj'.rv > rv
      BY <3>2, ObjectType
    <3>4. AttemptInv' /\ AnswerInv' /\ StrayInv' /\ CallInv'
      BY <1>2, <2>1, <3>1, <3>2
      DEF ServePatch, callVars, AttemptInv, AnswerInv, StrayInv, CallInv, Named
    <3>5. VersionInv'
      BY <1>2, <3>2, <3>3, ObjectType DEF ServePatch, VersionInv, TypeOK
    <3>6. OwnerInv'
      BY <1>2, <3>2, <3>3 DEF ServePatch, callVars, OwnerInv
    <3> QED BY <3>4, <3>5, <3>6
  <2>2. CASE reply' # "ok"
    BY <1>2, <2>2
    DEF ServePatch, Write, callVars, boundVars, AttemptInv, AnswerInv, StrayInv,
        CallInv, VersionInv, OwnerInv, Named
  <2> QED BY <2>1, <2>2
<1>3. CASE ServeCreate
  BY <1>3
  DEF ServeCreate, Write, CreateReply, callVars, boundVars, AttemptInv, AnswerInv,
      StrayInv, CallInv, VersionInv, OwnerInv, Named, TypeOK
<1>4. ASSUME NEW r \in stray, StrayLands(r) PROVE Goal
  <2>1. AttemptInv' /\ AnswerInv' /\ StrayInv' /\ CallInv'
    <3>1. stage \in {"err", "gone"} /\ stray # {} /\ stray' \subseteq stray
      BY <1>4 DEF StrayLands, StrayInv
    <3>2. UNCHANGED <<pc, err, updated, cleanup, stage, wire, reply, seen>>
      BY <1>4 DEF StrayLands, callVars, attemptVars
    <3>3. AttemptInv' /\ AnswerInv' /\ StrayInv'
      BY <3>1, <3>2 DEF AttemptInv, AnswerInv, StrayInv
    <3>4. CallInv'
      BY <3>1, <3>2 DEF CallInv
    <3> QED BY <3>3, <3>4
  <2>2. PICK rep : Write(r.op, rep) /\ (r.op = "patch" /\ rep = "ok" => obj # Absent)
    BY <1>4 DEF StrayLands, PatchReply
  <2>3. r.op \in {"patch", "create"}
    BY DEF TypeOK
  <2>4. CASE rep = "ok"
    <3>1. /\ obj' = [rv |-> rv + 1, by |-> IF r.op = "create" THEN "kuttl" ELSE obj.by]
          /\ wrote' = r.op /\ created' = (created \/ r.op = "create") /\ rv' = rv + 1
      BY <2>2, <2>4 DEF Write
    <3>2. VersionInv'
      BY <1>4, <3>1, ObjectType DEF StrayLands, VersionInv, TypeOK
    <3>3. OwnerInv'
      BY <1>4, <2>2, <2>3, <2>4, <3>1 DEF StrayLands, callVars, OwnerInv
    <3> QED BY <2>1, <3>2, <3>3
  <2>5. CASE rep # "ok"
    BY <1>4, <2>1, <2>2, <2>5 DEF StrayLands, Write, callVars, VersionInv, OwnerInv
  <2> QED BY <2>4, <2>5
<1>5. CASE OtherWrites
  <2>1. AttemptInv' /\ AnswerInv' /\ StrayInv' /\ CallInv'
    BY <1>5
    DEF OtherWrites, callVars, attemptVars, AttemptInv, AnswerInv, StrayInv,
        CallInv, Named
  <2>2. CASE /\ rv' = rv + 1 /\ UNCHANGED ownGone
             /\ obj' = [rv |-> rv + 1, by |-> IF obj = Absent THEN "other" ELSE obj.by]
    <3>1. VersionInv'
      BY <1>5, <2>2, ObjectType DEF OtherWrites, VersionInv, TypeOK
    <3>2. OwnerInv'
      BY <1>5, <2>2, ObjectType DEF OtherWrites, callVars, OwnerInv
    <3> QED BY <2>1, <3>1, <3>2
  <2>3. CASE /\ obj # Absent /\ obj' = Absent /\ UNCHANGED rv
             /\ ownGone' = (ownGone \/ obj.by = "kuttl")
    BY <1>5, <2>1, <2>3 DEF OtherWrites, callVars, VersionInv, OwnerInv
  <2> QED BY <1>5, <2>2, <2>3 DEF OtherWrites
<1>6. CASE Send
  BY <1>6
  DEF Send, Requesting, callVars, serverVars, histVars, boundVars, AttemptInv,
      AnswerInv, StrayInv, CallInv, VersionInv, OwnerInv, Named
<1>7. CASE Garble
  BY <1>7
  DEF Garble, Requesting, callVars, serverVars, histVars, AttemptInv, AnswerInv,
      StrayInv, CallInv, VersionInv, OwnerInv, Named
<1>8. CASE RequestFails
  BY <1>8
  DEF RequestFails, Requesting, Abandon, callVars, histVars, boundVars,
      AttemptInv, AnswerInv, StrayInv, CallInv, VersionInv, OwnerInv, Named,
      TypeOK
<1>9. CASE GetAnswered
  BY <1>9
  DEF GetAnswered, serverVars, histVars, boundVars, AttemptInv, AnswerInv,
      StrayInv, CallInv, VersionInv, OwnerInv, Named, TypeOK
<1>10. CASE WriteAnswered
  BY <1>10
  DEF WriteAnswered, callVars, serverVars, histVars, boundVars, AttemptInv,
      AnswerInv, StrayInv, CallInv, VersionInv, OwnerInv, Named
<1>11. CASE ContextEnds
  BY <1>11
  DEF ContextEnds, attemptVars, serverVars, histVars, boundVars, AttemptInv,
      AnswerInv, StrayInv, CallInv, VersionInv, OwnerInv, Named, TypeOK
<1>12. CASE SelectDone
  BY <1>12
  DEF SelectDone, serverVars, histVars, boundVars, AttemptInv, AnswerInv,
      StrayInv, CallInv, VersionInv, OwnerInv, Named, TypeOK
<1>13. CASE SelectErr
  BY <1>13
  DEF SelectErr, Tolerated, serverVars, histVars, boundVars, AttemptInv,
      AnswerInv, StrayInv, CallInv, VersionInv, OwnerInv, Named, TypeOK, Replies
<1>14. CASE SelectCtx
  BY <1>14
  DEF SelectCtx, attemptVars, serverVars, histVars, boundVars, AttemptInv,
      AnswerInv, StrayInv, CallInv, VersionInv, OwnerInv, Named, TypeOK
<1>15. CASE Finish
  BY <1>15
  DEF Finish, attemptVars, serverVars, histVars, boundVars, AttemptInv, AnswerInv,
      StrayInv, CallInv, VersionInv, OwnerInv, Named, TypeOK
<1>16. CASE RunCleanup
  BY <1>16
  DEF RunCleanup, attemptVars, histVars, boundVars, AttemptInv, AnswerInv,
      StrayInv, CallInv, VersionInv, OwnerInv, Named, TypeOK
<1>17. CASE Terminated
  BY <1>17
  DEF Terminated, vars, callVars, attemptVars, serverVars, histVars, boundVars,
      AttemptInv, AnswerInv, StrayInv, CallInv, VersionInv, OwnerInv, Named
<1>18. CASE UNCHANGED vars
  BY <1>18
  DEF vars, callVars, attemptVars, serverVars, histVars, boundVars, AttemptInv,
      AnswerInv, StrayInv, CallInv, VersionInv, OwnerInv, Named
<1> QED
  BY <1>1, <1>2, <1>3, <1>4, <1>5, <1>6, <1>7, <1>8, <1>9, <1>10, <1>11,
      <1>12, <1>13, <1>14, <1>15, <1>16, <1>17, <1>18 DEF Next

LEMMA IInvHolds == Spec => []IInv
BY InitIInv, NextTypeOK, NextIInv, PTL DEF Spec

-----------------------------------------------------------------------------
(* The theorems.                                                           *)

\* The type invariant of the call, its attempt and the object on the server
\* is kept by every step (retry_client.go:311-354).
THEOREM TypeCorrect == Spec => []TypeOK
BY IInvHolds, PTL DEF IInv

\* A call that returns nil says by updated which of its writes was the last,
\* however many of its requests were repeated or abandoned.
THEOREM NilNamesLastWrite == Spec => []ResultNamesLastWrite
<1>1. IInv => ResultNamesLastWrite
  BY DEF IInv, CallInv, Named, ResultNamesLastWrite
<1> QED
  BY <1>1, IInvHolds, PTL

\* A patch overwrites nothing that its attempt has not read
\* (retry_client.go:332-345): the one of the goroutine, and one given up
\* that reaches the server late.
THEOREM PatchOverwritesNothing == Spec => NoLostUpdate
<1>1. IInv /\ Next /\ wrote' = "patch" /\ rv' # rv /\ others' = others => ~overtaken
  <2> SUFFICES ASSUME IInv, Next, wrote' = "patch", rv' # rv, others' = others
               PROVE  ~overtaken
    OBVIOUS
  <2> USE DEF IInv
  <2>1. PatchReply(seen) = "ok" /\ seen # 0 => ~overtaken
    BY ObjectType DEF PatchReply, VersionInv
  <2>2. CASE ServePatch
    BY <2>1, <2>2 DEF ServePatch, Write, PatchObject, AttemptInv
  <2>3. CASE ServeCreate
    BY <2>3 DEF ServeCreate, Write
  <2>4. ASSUME NEW r \in stray, StrayLands(r) PROVE ~overtaken
    <3>1. r.op = "patch" /\ PatchReply(r.seen) = "ok"
      BY <2>4 DEF StrayLands, Write, PatchObject
    <3> QED BY <2>1, <3>1 DEF StrayInv
  <2>5. CASE OtherWrites
    BY <2>5 DEF OtherWrites, TypeOK
  <2> QED
    BY <2>2, <2>3, <2>4, <2>5
    DEF Next, ServeGet, Send, Garble, RequestFails, GetAnswered, WriteAnswered,
        ContextEnds, SelectDone, SelectErr, SelectCtx, Finish, RunCleanup, Terminated,
        serverVars, vars
<1> QED
  BY <1>1, IInvHolds, PTL DEF Spec, NoLostUpdate

\* The cleanup of Step.Create (step.go:203-208) deletes an object of another
\* user only where that of the call was deleted by somebody else before.
THEOREM CleanupOnlyReplaced == Spec => CleanupSparesOthers
<1>1. IInv /\ cleanup = "registered" /\ obj.by = "other" => ownGone
  BY DEF IInv, CallInv, OwnerInv
<1> QED
  BY <1>1, IInvHolds, PTL DEF Spec, CleanupSparesOthers

-----------------------------------------------------------------------------
(* The refinement.                                                         *)

\* A write of the call is a Create or an Update of the promise, or nothing.
LEMMA WriteRefines ==
    ASSUME IInv, NEW op \in {"patch", "create"}, NEW rep, Write(op, rep),
           op = "patch" /\ rep = "ok" => obj # Absent,
           op = "create" /\ rep = "ok" => obj = Absent,
           outcome \in {"none", "failed"}, UNCHANGED <<others, outcome, cleanup>>
    PROVE  Promise!Create \/ Promise!Update \/ UNCHANGED Promise!pvars
<1>1. CASE rep = "ok"
  <2>1. /\ obj' = [rv |-> rv + 1, by |-> IF op = "create" THEN "kuttl" ELSE obj.by]
        /\ wrote' = op
    BY <1>1 DEF Write
  <2>2. obj.rv \in Nat /\ obj.rv < rv + 1
    BY ObjectType DEF IInv
  <2> QED
    BY <1>1, <2>1, <2>2
    DEF Promise!Create, Promise!Update, Promise!Writing, Promise!Nothing, Absent, last
<1>2. CASE rep # "ok"
  BY <1>2 DEF Write, Promise!pvars, last
<1> QED BY <1>1, <1>2

\* The nested retries, the requests on their way and the other users
\* implement ApplyPromise.
THEOREM ApplyRefinement == Spec => ImplementsApply
<1>1. Init => Promise!PInit
  BY DEF Init, Absent, Promise!PInit, outcome, last
<1>2. IInv /\ [Next]_vars => [Promise!PNext]_(Promise!pvars)
  <2> SUFFICES ASSUME IInv, [Next]_vars PROVE [Promise!PNext]_(Promise!pvars)
    OBVIOUS
  <2> USE DEF IInv, Promise!PNext
  <2>1. stage \in {"patch", "create"} \/ stray # {} => outcome \in {"none", "failed"}
    BY DEF CallInv, TypeOK, outcome
  <2>2. CASE ServePatch
    <3>1. Write("patch", reply') /\ (reply' = "ok" => obj # Absent)
      BY <2>2 DEF ServePatch, PatchReply
    <3>2. UNCHANGED <<others, outcome, cleanup>> /\ outcome \in {"none", "failed"}
      BY <2>1, <2>2 DEF ServePatch, callVars, boundVars, outcome
    <3> QED BY <3>1, <3>2, WriteRefines
  <2>3. CASE ServeCreate
    <3>1. Write("create", reply') /\ (reply' = "ok" => obj = Absent)
      BY <2>3 DEF ServeCreate, CreateReply
    <3>2. UNCHANGED <<others, outcome, cleanup>> /\ outcome \in {"none", "failed"}
      BY <2>1, <2>3 DEF ServeCreate, callVars, boundVars, outcome
    <3> QED BY <3>1, <3>2, WriteRefines
  <2>4. ASSUME NEW r \in stray, StrayLands(r)
        PROVE  Promise!Create \/ Promise!Update \/ UNCHANGED Promise!pvars
    <3>1. PICK rep : /\ Write(r.op, rep)
                     /\ r.op = "patch" /\ rep = "ok" => obj # Absent
                     /\ r.op = "create" /\ rep = "ok" => obj = Absent
      BY <2>4 DEF StrayLands, PatchReply, CreateReply
    <3>2. UNCHANGED <<others, outcome, cleanup>> /\ outcome \in {"none", "failed"}
      BY <2>1, <2>4 DEF StrayLands, callVars, boundVars, outcome
    <3>3. r.op \in {"patch", "create"}
      BY DEF TypeOK
    <3> QED BY <3>1, <3>2, <3>3, WriteRefines
  <2>5. CASE OtherWrites
    BY <2>5 DEF OtherWrites, callVars, Promise!Others, outcome, last
  <2>6. CASE Finish
    <3>1. outcome = "none" /\ UNCHANGED <<obj, others, last>>
      BY <2>6 DEF Finish, serverVars, histVars, boundVars, outcome, last
    <3>2. CASE err' = "nil"
      <4>1. wrote = (IF updated THEN "patch" ELSE "create")
        BY <2>6, <3>2 DEF Finish, CallInv, Named
      <4>2. outcome' = last /\ last # "none" /\ (last = "created" <=> ~updated)
        BY <2>6, <3>2, <4>1 DEF Finish, outcome, last
      <4> QED BY <2>6, <3>1, <3>2, <4>2 DEF Finish, Promise!Return
    <3>3. CASE err' # "nil"
      <4>1. outcome' = "failed" /\ cleanup' = "none"
        BY <2>6, <3>3 DEF Finish, outcome
      <4> QED BY <3>1, <4>1 DEF Promise!Return
    <3> QED BY <3>2, <3>3
  <2>7. CASE RunCleanup
    <3>1. UNCHANGED <<others, last, outcome>>
      BY <2>7 DEF RunCleanup, histVars, boundVars, outcome, last
    <3> QED
      BY <2>7, <3>1 DEF RunCleanup, Promise!Clean, Promise!Nothing, Absent, Promise!pvars
  <2>8. CASE GetAnswered
    <3>1. outcome \in {"none", "failed"}
      BY <2>8 DEF GetAnswered, CallInv, TypeOK, outcome
    <3>2. UNCHANGED <<pc, err, cleanup, obj, others, wrote>>
      BY <2>8 DEF GetAnswered, serverVars, histVars, boundVars
    <3> QED BY <3>1, <3>2 DEF Promise!pvars, outcome, last
  <2>9. CASE ServeGet \/ Send \/ Garble \/ RequestFails \/ WriteAnswered \/ ContextEnds
    BY <2>9
    DEF ServeGet, Send, Garble, RequestFails, WriteAnswered, ContextEnds, callVars,
        serverVars, histVars, boundVars, Promise!pvars, outcome, last
  <2>10. CASE SelectDone \/ SelectErr \/ SelectCtx
    BY <2>10
    DEF SelectDone, SelectErr, SelectCtx, serverVars, histVars, boundVars,
        Promise!pvars, outcome, last
  <2>11. CASE Terminated \/ UNCHANGED vars
    BY <2>11
    DEF Terminated, vars, callVars, serverVars, histVars, boundVars, Promise!pvars,
        outcome, last
  <2> QED
    BY <2>2, <2>3, <2>4, <2>5, <2>6, <2>7, <2>8, <2>9, <2>10, <2>11 DEF Next
<1> QED
  BY <1>1, <1>2, IInvHolds, PTL DEF Spec, ImplementsApply, Promise!PSpec
=============================================================================
