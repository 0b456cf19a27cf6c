----------------------------- MODULE MCHarness ------------------------------
(* A harness in every mode; the report may fail at every attempt.          *)
EXTENDS Harness
=============================================================================
