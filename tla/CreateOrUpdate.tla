--------------------------- MODULE CreateOrUpdate ---------------------------
(***************************************************************************)
(* CreateOrUpdate of internal/kubernetes/retry_client.go for one object,   *)
(* and what Step.Create (internal/step/step.go) makes of its result: a     *)
(* created object gets a cleanup that deletes it at the end of the test.   *)
(*                                                                         *)
(* Retries are nested.  The outer retry repeats Get and then Patch or      *)
(* Create when the answer is AlreadyExists or, with retryOnError,          *)
(* Conflict.  Each of the three is a RetryClient call, which repeats its   *)
(* request when the answer cannot be parsed (json.SyntaxError), even if    *)
(* the server has already done what it asked.  A request that was given up *)
(* when the context ended may still reach the server: it is stray.         *)
(* Meanwhile other users of the cluster write the same object.             *)
(***************************************************************************)
EXTENDS Naturals

CONSTANTS
    RetryOnError,   \* retryOnError
    SkipDelete,     \* Step.SkipDelete
    HasDeadline,    \* Step.Timeout > 0
    MaxGarbled,     \* bound: answers that cannot be parsed
    MaxOthers       \* bound: writes by other users of the cluster

ASSUME CreateOrUpdateAssumption ==
    /\ {RetryOnError, SkipDelete, HasDeadline} \subseteq BOOLEAN
    /\ MaxGarbled \in Nat
    /\ MaxOthers \in Nat

VARIABLES
    pc,        \* the caller: "select", "check", "returned" or "cleaned"
    err,       \* err of CreateOrUpdate: "nil" or why it failed
    updated,   \* the named result, shared with the goroutine of the attempt
    expired,   \* the deadline of ctx has passed
    stage,     \* the attempt: "get", "patch", "create", "ok", "err", "gone"
    wire,      \* its request: "unsent", "sent" or "answered"
    reply,     \* the answer of the server, or the error of the attempt
    seen,      \* the resource version in the object that Get returned
    stray,     \* abandoned requests that may still reach the server
    cleanup,   \* the cleanup of Step.Create: "none", "registered" or "run"
    obj,       \* the object on the server, or Absent
    rv,        \* the last resource version the server gave out
    garbled, others,       \* counts for the bounds
    created,   \* history: this call created the object
    wrote,     \* history: the last write of this call to the server
    overtaken, \* history: another user wrote since the Get of this attempt
    ownGone    \* history: another user deleted the object of this call

callVars == <<pc, err, updated, expired, cleanup>>
attemptVars == <<stage, wire, reply>>
serverVars == <<obj, rv, seen, stray>>
histVars == <<created, wrote, overtaken, ownGone>>
boundVars == <<garbled, others>>
vars == <<callVars, attemptVars, serverVars, histVars, boundVars>>

Absent == [rv |-> 0, by |-> "none"]
Replies == {"ok", "NotFound", "AlreadyExists", "Conflict", "Other"}

TypeOK == /\ pc \in {"select", "check", "returned", "cleaned"}
          /\ err \in {"nil", "Timeout"} \cup (Replies \ {"ok"})
          /\ {updated, expired, created, overtaken, ownGone} \subseteq BOOLEAN
          /\ stage \in {"get", "patch", "create", "ok", "err", "gone"}
          /\ wire \in {"unsent", "sent", "answered"}
          /\ reply \in Replies
          /\ {rv, seen, garbled, others} \subseteq Nat
          /\ stray \subseteq [op : {"patch", "create"}, seen : 0..rv]
          /\ cleanup \in {"none", "registered", "run"}
          /\ obj \in {Absent} \cup [rv : 1..rv, by : {"kuttl", "other"}]
          /\ wrote \in {"none", "patch", "create"}

Init == /\ pc = "select" /\ err = "nil" /\ cleanup = "none"
        /\ updated = FALSE /\ expired = FALSE
        /\ stage = "get" /\ wire = "unsent" /\ reply = "ok"
        /\ obj \in {Absent, [rv |-> 1, by |-> "other"]}
        /\ rv = obj.rv
        /\ seen = 0 /\ stray = {}
        /\ created = FALSE /\ wrote = "none"
        /\ overtaken = FALSE /\ ownGone = FALSE
        /\ garbled = 0 /\ others = 0

-----------------------------------------------------------------------------
(* The API server (external): optimistic concurrency on resource versions. *)

ServeGet == /\ stage = "get" /\ wire = "sent"
            /\ wire' = "answered"
            /\ IF obj = Absent
               THEN reply' = "NotFound" /\ seen' = seen
               ELSE reply' = "ok" /\ seen' = obj.rv
            /\ overtaken' = FALSE
            /\ UNCHANGED <<callVars, boundVars, stage, obj, rv, stray,
                           created, wrote, ownGone>>

\* A patch that names no version (0) is taken for any.
PatchReply(v) == IF obj = Absent THEN "NotFound"
                 ELSE IF v \notin {0, obj.rv} THEN "Conflict" ELSE "ok"
CreateReply == IF obj = Absent THEN "ok" ELSE "AlreadyExists"

\* A write that is answered with "ok" makes a new version of the object.
Write(op, rep) ==
    IF rep = "ok"
    THEN /\ rv' = rv + 1
         /\ obj' = [rv |-> rv + 1, by |-> IF op = "create" THEN "kuttl" ELSE obj.by]
         /\ wrote' = op
         /\ created' = (created \/ op = "create")
    ELSE UNCHANGED <<rv, obj, wrote, created>>

\* mutant: the patch does not name the version it was made from
PatchObject_NoVersion(actualRv) == 0

\* patchObject: the patch carries the resource version of actual.
PatchObject(actualRv) == actualRv

ServePatch == /\ stage = "patch" /\ wire = "sent"
              /\ wire' = "answered"
              /\ reply' = PatchReply(PatchObject(seen))
              /\ Write("patch", reply')
              /\ UNCHANGED <<callVars, boundVars, stage, seen, stray, overtaken,
                             ownGone>>

ServeCreate == /\ stage = "create" /\ wire = "sent"
               /\ wire' = "answered"
               /\ reply' = CreateReply
               /\ Write("create", reply')
               /\ UNCHANGED <<callVars, boundVars, stage, seen, stray, overtaken,
                              ownGone>>

StrayLands(r) == /\ r \in stray
                 /\ stray' = stray \ {r}
                 /\ Write(r.op, IF r.op = "patch" THEN PatchReply(PatchObject(r.seen))
                                                  ELSE CreateReply)
                 /\ UNCHANGED <<callVars, attemptVars, boundVars, seen, overtaken,
                                ownGone>>

\* Other users create, modify and delete the object.
OtherWrites == /\ others < MaxOthers
               /\ others' = others + 1
               /\ overtaken' = TRUE
               /\ \/ /\ rv' = rv + 1
                     /\ obj' = [rv |-> rv + 1,
                                by |-> IF obj = Absent THEN "other" ELSE obj.by]
                     /\ UNCHANGED ownGone
                  \/ /\ obj # Absent
                     /\ obj' = Absent
                     /\ ownGone' = (ownGone \/ obj.by = "kuttl")
                     /\ UNCHANGED rv
               /\ UNCHANGED <<callVars, attemptVars, seen, stray, garbled,
                              created, wrote>>

-----------------------------------------------------------------------------
(* The goroutine of an attempt.                                            *)

Requesting == stage \in {"get", "patch", "create"}

\* A client does not send a request when its context is done.
Send == /\ Requesting /\ wire = "unsent" /\ ~expired
        /\ wire' = "sent"
        /\ UNCHANGED <<callVars, serverVars, histVars, boundVars, stage, reply>>

\* json.SyntaxError: the inner retry sends the request again.
Garble == /\ Requesting /\ wire \in {"sent", "answered"}
          /\ garbled < MaxGarbled
          /\ garbled' = garbled + 1
          /\ wire' = "unsent"
          /\ UNCHANGED <<callVars, serverVars, histVars, stage, reply, others>>

Abandon == stray' = IF wire = "sent" /\ stage # "get"
                    THEN stray \cup {[op |-> stage, seen |-> seen]}
                    ELSE stray

\* mutant: the error of the request is assigned to a variable that shadows err
RequestFails_Shadowed ==
    /\ Requesting
    /\ wire \in {"sent", "answered"} \/ expired
    /\ Abandon
    /\ stage' = "err" /\ wire' = "unsent" /\ reply' = "ok"
    /\ UNCHANGED <<callVars, histVars, boundVars, obj, rv, seen>>

\* Any other error of a request, or the end of the context.
RequestFails == /\ Requesting
                /\ wire \in {"sent", "answered"} \/ expired
                /\ Abandon
                /\ stage' = "err" /\ wire' = "unsent" /\ reply' = "Other"
                /\ UNCHANGED <<callVars, histVars, boundVars, obj, rv, seen>>

\* mutant: updated is only ever set, and stays set when an attempt creates
GetAnswered_KeepsUpdated ==
    /\ stage = "get" /\ wire = "answered"
    /\ wire' = "unsent"
    /\ \/ reply = "ok" /\ stage' = "patch" /\ updated' = TRUE
       \/ reply = "NotFound" /\ stage' = "create" /\ updated' = updated
    /\ UNCHANGED <<pc, err, expired, cleanup, reply, serverVars, histVars, boundVars>>

GetAnswered == /\ stage = "get" /\ wire = "answered"
               /\ wire' = "unsent"
               /\ \/ reply = "ok" /\ stage' = "patch" /\ updated' = TRUE
                  \/ reply = "NotFound" /\ stage' = "create" /\ updated' = FALSE
               /\ UNCHANGED <<pc, err, expired, cleanup, reply, serverVars, histVars,
                              boundVars>>

WriteAnswered == /\ stage \in {"patch", "create"} /\ wire = "answered"
                 /\ wire' = "unsent"
                 /\ stage' = IF reply = "ok" THEN "ok" ELSE "err"
                 /\ UNCHANGED <<callVars, serverVars, histVars, boundVars, reply>>

-----------------------------------------------------------------------------
(* The caller: the select of the outer retry, and Step.Create.             *)

ContextEnds == /\ HasDeadline /\ ~expired
               /\ expired' = TRUE
               /\ UNCHANGED <<pc, err, updated, cleanup, attemptVars, serverVars,
                              histVars, boundVars>>

\* mutant: the attempt starts its write and is done
SelectDone_NoWait ==
    /\ pc = "select" /\ stage \in {"patch", "create", "ok"}
    /\ pc' = "check" /\ UNCHANGED stage
    /\ UNCHANGED <<err, updated, expired, cleanup, wire, reply, serverVars, histVars,
                   boundVars>>

SelectDone == /\ pc = "select" /\ stage = "ok"
              /\ pc' = "check" /\ stage' = "gone"
              /\ UNCHANGED <<err, updated, expired, cleanup, wire, reply, serverVars,
                             histVars, boundVars>>

Tolerated == {"AlreadyExists"} \cup (IF RetryOnError THEN {"Conflict"} ELSE {})

SelectErr == /\ pc = "select" /\ stage = "err"
             /\ \/ /\ reply \in Tolerated
                   /\ stage' = "get"
                   /\ UNCHANGED <<pc, err>>
                \/ /\ reply \notin Tolerated
                   /\ stage' = "gone" /\ pc' = "check" /\ err' = reply
             /\ UNCHANGED <<updated, expired, cleanup, wire, reply, serverVars,
                            histVars, boundVars>>

\* The goroutine of the attempt goes on.
SelectCtx == /\ pc = "select" /\ expired
             /\ pc' = "check" /\ err' = "Timeout"
             /\ UNCHANGED <<updated, expired, cleanup, attemptVars, serverVars,
                            histVars, boundVars>>

\* mutant: Step.Create registers the cleanup whatever CreateOrUpdate returned
Finish_CleansAll ==
    /\ pc = "check"
    /\ pc' = "returned"
    /\ err' = IF expired THEN "Timeout" ELSE err
    /\ cleanup' = IF err' = "nil" /\ ~SkipDelete THEN "registered" ELSE "none"
    /\ UNCHANGED <<updated, expired, attemptVars, serverVars, histVars, boundVars>>

\* A deadline that passed by now is an error, even after a success.
Finish == /\ pc = "check"
          /\ pc' = "returned"
          /\ err' = IF expired THEN "Timeout" ELSE err
          /\ cleanup' = IF err' = "nil" /\ ~updated /\ ~SkipDelete
                        THEN "registered" ELSE "none"
          /\ UNCHANGED <<updated, expired, attemptVars, serverVars, histVars, boundVars>>

\* t.Cleanup at the end of the test; Delete fails for good, or deletes
\* whatever object has the name.
RunCleanup == /\ pc = "returned"
              /\ pc' = "cleaned"
              /\ \/ cleanup = "none" /\ UNCHANGED <<cleanup, obj>>
                 \/ cleanup = "registered" /\ cleanup' = "run" /\ obj' \in {obj, Absent}
              /\ UNCHANGED <<err, updated, expired, attemptVars, rv, seen, stray,
                             histVars, boundVars>>

Terminated == pc = "cleaned" /\ UNCHANGED vars

Next == \/ ServeGet \/ ServePatch \/ ServeCreate
        \/ \E r \in stray : StrayLands(r)
        \/ OtherWrites
        \/ Send \/ Garble \/ RequestFails \/ GetAnswered \/ WriteAnswered
        \/ ContextEnds \/ SelectDone \/ SelectErr \/ SelectCtx \/ Finish
        \/ RunCleanup \/ Terminated

Spec == Init /\ [][Next]_vars

-----------------------------------------------------------------------------
(* Properties.                                                             *)

\* A nil error is the result of the write that updated names: the call was
\* not fooled by a repeated, stray or refused request.
ResultNamesLastWrite == /\ pc \in {"returned", "cleaned"}
                        /\ err = "nil"
                        => wrote = (IF updated THEN "patch" ELSE "create")

\* A patch takes effect on the version its attempt has read: what another
\* user wrote after the Get is not overwritten, however often and late the
\* request is sent.
NoLostUpdate == [][wrote' = "patch" /\ rv' # rv /\ others' = others
                   => ~overtaken]_vars

\* The cleanup deletes an object of another user only if that user put it
\* in the place of the one the call created.
CleanupSparesOthers ==
    [][cleanup = "registered" /\ cleanup' = "run" /\ obj.by = "other" /\ obj' = Absent
       => ownGone]_vars

\* The call does what ApplyPromise says, however often it asks, whatever is
\* lost on the way and whatever other users do meanwhile.
outcome == IF pc \in {"select", "check"} THEN "none"
           ELSE IF err # "nil" THEN "failed"
           ELSE IF updated THEN "updated" ELSE "created"
last == IF wrote = "create" THEN "created"
        ELSE IF wrote = "patch" THEN "updated" ELSE "none"
Promise == INSTANCE ApplyPromise WITH object <- obj, theirs <- others
ImplementsApply == Promise!PSpec

\* "Returns true if the object was updated and false if it was created": a
\* call that created the object and succeeds returns updated = FALSE.
UpdatedFalseIfCreated == /\ pc \in {"returned", "cleaned"}
                         /\ err = "nil"
                         /\ created
                         => ~updated
=============================================================================
