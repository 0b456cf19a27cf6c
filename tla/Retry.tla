------------------------------- MODULE Retry --------------------------------
(***************************************************************************)
(* One call of retry in internal/kubernetes/retry_client.go.  The calling  *)
(* goroutine loops: it starts a goroutine that runs fn and then waits in a *)
(* select for its answer or for the end of the context.  The two channels  *)
(* are unbuffered, so a goroutine whose answer nobody receives stays       *)
(* blocked on its send.                                                    *)
(*                                                                         *)
(* fn is a request to the API server: it may take effect there (Land) and  *)
(* still fail for the caller, for instance when the answer is cut short    *)
(* and cannot be parsed.  Identities of goroutines that exited are used    *)
(* again, so the loop needs no bound.                                      *)
(***************************************************************************)

CONSTANTS
    Goroutine,   \* identities of the goroutines that run fn
    Err,         \* the errors that fn, or the recovery from its panic, gives
    Tolerated,   \* the errors that one of errValidationFuncs accepts
    CtxErr,      \* ctx.Err() once the context is done
    NoErr,       \* nil
    Pending,     \* the call has not returned
    HasDeadline  \* FALSE for context.TODO() and context.Background()

ASSUME RetryAssumption ==
    /\ Tolerated \subseteq Err
    /\ NoErr \notin Err \cup {CtxErr}
    /\ HasDeadline \in BOOLEAN
    /\ Pending \notin [err : Err \cup {CtxErr, NoErr},
                       via : {"nilfn", "answer", "ctx"}]

VARIABLES
    pc,       \* the caller: "start", "spawn", "select" or "returned"
    fn,       \* "func", or "nil"
    lastErr,  \* lastErr
    cur,      \* the goroutine of this iteration, or NoErr before the first
    gs,       \* each goroutine: "idle", "running" fn, or "sending" its answer
    landed,   \* whether the request of that goroutine took effect
    answer,   \* what fn returned in that goroutine
    ctxDone,  \* ctx.Done() is closed
    ret,      \* Pending, or the error returned and the case that returned it
    effect    \* history: some request took effect

vars == <<pc, fn, lastErr, cur, gs, landed, answer, ctxDone, ret, effect>>

TypeOK == /\ pc \in {"start", "spawn", "select", "returned"}
          /\ fn \in {"func", "nil"}
          /\ lastErr \in Tolerated \cup {NoErr}
          /\ cur \in Goroutine \cup {NoErr}
          /\ gs \in [Goroutine -> {"idle", "running", "sending"}]
          /\ landed \in [Goroutine -> BOOLEAN]
          /\ answer \in [Goroutine -> Err \cup {NoErr}]
          /\ ctxDone \in BOOLEAN
          /\ ret \in [err : Err \cup {CtxErr, NoErr},
                      via : {"nilfn", "answer", "ctx"}] \cup {Pending}
          /\ effect \in BOOLEAN

Init == /\ pc = "start"
        /\ fn \in {"func", "nil"}
        /\ lastErr = NoErr
        /\ cur = NoErr
        /\ gs = [g \in Goroutine |-> "idle"]
        /\ landed = [g \in Goroutine |-> FALSE]
        /\ answer = [g \in Goroutine |-> NoErr]
        /\ ctxDone = FALSE
        /\ ret = Pending
        /\ effect = FALSE

-----------------------------------------------------------------------------
(* The calling goroutine.                                                  *)

Enter == /\ pc = "start"
         /\ IF fn = "nil"
            THEN pc' = "returned" /\ ret' = [err |-> NoErr, via |-> "nilfn"]
            ELSE pc' = "spawn" /\ ret' = ret
         /\ UNCHANGED <<fn, lastErr, cur, gs, landed, answer, ctxDone, effect>>

Spawn(g) == /\ pc = "spawn"
            /\ gs[g] = "idle"
            /\ pc' = "select"
            /\ cur' = g
            /\ gs' = [gs EXCEPT ![g] = "running"]
            /\ landed' = [landed EXCEPT ![g] = FALSE]
            /\ UNCHANGED <<fn, lastErr, answer, ctxDone, ret, effect>>

\* A send on a channel completes together with the receive in the select.
Receive(g) == /\ pc = "select"
              /\ gs[g] = "sending"
              /\ gs' = [gs EXCEPT ![g] = "idle"]
              /\ UNCHANGED <<fn, cur, landed, answer, ctxDone, effect>>

SelectDone(g) == /\ Receive(g)
                 /\ answer[g] = NoErr
                 /\ lastErr' = NoErr
                 /\ pc' = "returned"
                 /\ ret' = [err |-> NoErr, via |-> "answer"]

\* mutant: lastErr is what validateErrors returned
SelectErr_ForgetsError(g) ==
    /\ Receive(g)
    /\ answer[g] # NoErr
    /\ lastErr' = NoErr
    /\ pc' = "returned"
    /\ ret' = [err |-> IF answer[g] \in Tolerated THEN NoErr ELSE answer[g],
               via |-> "answer"]

\* mutant: every error is retried, tolerated or not
SelectErr_RetriesAll(g) ==
    /\ Receive(g)
    /\ answer[g] # NoErr
    /\ lastErr' = answer[g]
    /\ pc' = "spawn"
    /\ ret' = ret

SelectErr(g) == /\ Receive(g)
                /\ answer[g] # NoErr
                /\ IF answer[g] \in Tolerated
                   THEN lastErr' = answer[g] /\ pc' = "spawn" /\ ret' = ret
                   ELSE /\ lastErr' = lastErr
                        /\ pc' = "returned"
                        /\ ret' = [err |-> answer[g], via |-> "answer"]

\* mutant: the end of the context goes on with the next attempt
SelectCtx_TriesAgain == /\ pc = "select"
                        /\ ctxDone
                        /\ pc' = "spawn"
                        /\ UNCHANGED <<fn, lastErr, cur, gs, landed, answer,
                                       ctxDone, ret, effect>>

\* mutant: ctx.Err() hides the most recent error
SelectCtx_DropsLastErr == /\ pc = "select"
                          /\ ctxDone
                          /\ pc' = "returned"
                          /\ ret' = [err |-> CtxErr, via |-> "ctx"]
                          /\ UNCHANGED <<fn, lastErr, cur, gs, landed, answer,
                                         ctxDone, effect>>

\* mutant: ctx.Done() is only looked at when an earlier attempt failed
SelectCtx_NeedsLastErr == /\ pc = "select"
                          /\ ctxDone
                          /\ lastErr # NoErr
                          /\ pc' = "returned"
                          /\ ret' = [err |-> lastErr, via |-> "ctx"]
                          /\ UNCHANGED <<fn, lastErr, cur, gs, landed, answer,
                                         ctxDone, effect>>

SelectCtx == /\ pc = "select"
             /\ ctxDone
             /\ pc' = "returned"
             /\ ret' = [err |-> IF lastErr = NoErr THEN CtxErr ELSE lastErr,
                        via |-> "ctx"]
             /\ UNCHANGED <<fn, lastErr, cur, gs, landed, answer, ctxDone, effect>>

-----------------------------------------------------------------------------
(* The goroutine of one attempt, and the API server behind fn.             *)

Land(g) == /\ gs[g] = "running"
           /\ ~landed[g]
           /\ landed' = [landed EXCEPT ![g] = TRUE]
           /\ effect' = TRUE
           /\ UNCHANGED <<pc, fn, lastErr, cur, gs, answer, ctxDone, ret>>

FnOk(g) == /\ gs[g] = "running"
           /\ landed[g]
           /\ gs' = [gs EXCEPT ![g] = "sending"]
           /\ answer' = [answer EXCEPT ![g] = NoErr]
           /\ UNCHANGED <<pc, fn, lastErr, cur, landed, ctxDone, ret, effect>>

\* fn returned an error or panicked; either may follow the effect.
FnErr(g) == /\ gs[g] = "running"
            /\ gs' = [gs EXCEPT ![g] = "sending"]
            /\ \E e \in Err : answer' = [answer EXCEPT ![g] = e]
            /\ UNCHANGED <<pc, fn, lastErr, cur, landed, ctxDone, ret, effect>>

ContextEnds == /\ HasDeadline
               /\ ~ctxDone
               /\ ctxDone' = TRUE
               /\ UNCHANGED <<pc, fn, lastErr, cur, gs, landed, answer, ret, effect>>

\* The call is over: what is left of it can only wait.
Terminated == /\ pc = "returned"
              /\ UNCHANGED vars

Caller == \/ Enter \/ SelectCtx
          \/ \E g \in Goroutine : Spawn(g) \/ SelectDone(g) \/ SelectErr(g)

Attempt(g) == Land(g) \/ FnOk(g) \/ FnErr(g)

Next == \/ Enter
        \/ SelectCtx
        \/ ContextEnds
        \/ Terminated
        \/ \E g \in Goroutine : \/ Spawn(g) \/ SelectDone(g) \/ SelectErr(g)
                                \/ Land(g) \/ FnOk(g) \/ FnErr(g)

Spec == Init /\ [][Next]_vars

\* The Go scheduler runs every goroutine that can run.  Nothing makes fn
\* return, and the deadline passes if there is one.  The select picks among
\* its ready cases at random, so a case that is ready again and again is
\* taken in the end: strong fairness of SelectCtx.
FairSpec == /\ Spec
            /\ WF_vars(Caller)
            /\ SF_vars(SelectCtx)
            /\ WF_vars(ContextEnds)

-----------------------------------------------------------------------------
(* Properties.                                                             *)

\* The select never receives the answer of an abandoned attempt: at any
\* time every goroutine but the one of this iteration has exited, although
\* all of them share the two channels.
OnlyCurrentInFlight == \A g \in Goroutine : gs[g] # "idle" => g = cur

\* A nil error of a call with a func is never invented: the attempt that
\* was answered last took effect on the server.
NilMeansEffect == /\ ret # Pending
                  /\ ret.err = NoErr
                  /\ fn = "func"
                  => effect /\ landed[cur]

\* retry leaves a goroutine behind, blocked on a send or with a request
\* still on its way, only when it returned because the context was done.
QuietUnlessTimedOut == /\ pc = "returned"
                       /\ ret.via # "ctx"
                       => \A g \in Goroutine : gs[g] = "idle"

Promise == INSTANCE RetryPromise WITH outcome <- ret, recent <- lastErr,
                                      expired <- ctxDone, effect <- effect

\* The loop, its goroutines and its channels implement what callers rely on.
ImplementsPromise == Promise!PSpec

\* A call whose context has a deadline returns, even if fn never does and
\* even if every attempt ends with a tolerated error.
Returns == HasDeadline => <>(pc = "returned")
=============================================================================
