------------------------------ MODULE MCRetry -------------------------------
(***************************************************************************)
(* retry as CreateOrUpdate uses it, with two errors that are tolerated:    *)
(* AlreadyExists and Conflict.  Another error of the API server, a panic   *)
(* and the error of a done context are not.  RetryClient tolerates one,    *)
(* the json.SyntaxError of an answer that cannot be parsed.                *)
(***************************************************************************)
EXTENDS Retry

CONSTANTS AlreadyExists, Conflict, StatusErr, PanicErr

MCTolerated == {AlreadyExists, Conflict}
MCErr == MCTolerated \cup {StatusErr, PanicErr, CtxErr}
=============================================================================
