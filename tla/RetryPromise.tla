---------------------------- MODULE RetryPromise ----------------------------
(***************************************************************************)
(* What a caller of retry (internal/kubernetes/retry_client.go) may rely   *)
(* on, with the goroutines and channels of the implementation hidden: one  *)
(* call is a sequence of tolerated errors that ends with a success, an     *)
(* error that is not tolerated, or the end of the context.                 *)
(***************************************************************************)

CONSTANTS
    Err,         \* the errors that fn, or the recovery from its panic, gives
    Tolerated,   \* the errors that one of errValidationFuncs accepts
    CtxErr,      \* ctx.Err() once the context is done
    NoErr,       \* nil
    Pending      \* the call has not returned

VARIABLES
    outcome,     \* Pending, or the error returned and what made it return
    recent,      \* the most recent tolerated error
    expired,     \* the context is done
    effect       \* some execution of fn took effect on the API server

pvars == <<outcome, recent, expired, effect>>

Outcomes == [err : Err \cup {CtxErr, NoErr}, via : {"nilfn", "answer", "ctx"}]

PInit == /\ outcome = Pending
         /\ recent = NoErr
         /\ expired = FALSE
         /\ effect = FALSE

\* fn may take effect while the call runs, and afterwards only if the
\* call gave up waiting for it.
TakeEffect == /\ \/ outcome = Pending
                 \/ outcome # Pending /\ outcome.via = "ctx"
              /\ effect' = TRUE
              /\ UNCHANGED <<outcome, recent, expired>>

Expire == /\ ~expired
          /\ expired' = TRUE
          /\ UNCHANGED <<outcome, recent, effect>>

IgnoreNilFunc == /\ outcome = Pending
                 /\ recent = NoErr
                 /\ outcome' = [err |-> NoErr, via |-> "nilfn"]
                 /\ UNCHANGED <<recent, expired, effect>>

\* Success is only reported of something that happened.
Succeed == /\ outcome = Pending
           /\ effect
           /\ outcome' = [err |-> NoErr, via |-> "answer"]
           /\ recent' = NoErr
           /\ UNCHANGED <<expired, effect>>

Tolerate == /\ outcome = Pending
            /\ recent' \in Tolerated
            /\ UNCHANGED <<outcome, expired, effect>>

Refuse == /\ outcome = Pending
          /\ \E e \in Err \ Tolerated : outcome' = [err |-> e, via |-> "answer"]
          /\ UNCHANGED <<recent, expired, effect>>

\* "return the most recent error", or ctx.Err() if there was none.
GiveUp == /\ outcome = Pending
          /\ expired
          /\ outcome' = [err |-> IF recent = NoErr THEN CtxErr ELSE recent,
                         via |-> "ctx"]
          /\ UNCHANGED <<recent, expired, effect>>

PNext == \/ TakeEffect \/ Expire \/ IgnoreNilFunc \/ Succeed
         \/ Tolerate \/ Refuse \/ GiveUp

PSpec == PInit /\ [][PNext]_pvars
=============================================================================
