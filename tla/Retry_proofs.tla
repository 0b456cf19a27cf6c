---------------------------- MODULE Retry_proofs ----------------------------
(***************************************************************************)
(* Proofs about retry, for any set of goroutines, errors and validators,   *)
(* with or without a deadline.                                             *)
(***************************************************************************)
EXTENDS Retry, TLAPS

\* The type invariant of the caller, its goroutines and channels is kept by
\* every step of retry (retry_client.go:46-100).
THEOREM TypeCorrect == Spec => []TypeOK
<1>1. Init => TypeOK
  BY RetryAssumption DEF Init, TypeOK
<1>2. TypeOK /\ [Next]_vars => TypeOK'
  <2> SUFFICES ASSUME TypeOK, [Next]_vars PROVE TypeOK'
    OBVIOUS
  <2>1. CASE Enter
    BY <2>1 DEF Enter, TypeOK
  <2>2. CASE SelectCtx
    BY <2>2, RetryAssumption DEF SelectCtx, TypeOK
  <2>3. CASE ContextEnds
    BY <2>3 DEF ContextEnds, TypeOK
  <2>4. CASE Terminated
    BY <2>4 DEF Terminated, vars, TypeOK
  <2>5. ASSUME NEW g \in Goroutine, Spawn(g) PROVE TypeOK'
    BY <2>5 DEF Spawn, TypeOK
  <2>6. ASSUME NEW g \in Goroutine, SelectDone(g) PROVE TypeOK'
    BY <2>6 DEF SelectDone, Receive, TypeOK
  <2>7. ASSUME NEW g \in Goroutine, SelectErr(g) PROVE TypeOK'
    BY <2>7 DEF SelectErr, Receive, TypeOK
  <2>8. ASSUME NEW g \in Goroutine, Land(g) PROVE TypeOK'
    BY <2>8 DEF Land, TypeOK
  <2>9. ASSUME NEW g \in Goroutine, FnOk(g) PROVE TypeOK'
    BY <2>9 DEF FnOk, TypeOK
  <2>10. ASSUME NEW g \in Goroutine, FnErr(g) PROVE TypeOK'
    BY <2>10 DEF FnErr, TypeOK
  <2>11. CASE UNCHANGED vars
    BY <2>11 DEF vars, TypeOK
  <2> QED
    BY <2>1, <2>2, <2>3, <2>4, <2>5, <2>6, <2>7, <2>8, <2>9, <2>10, <2>11 DEF Next
<1> QED
  BY <1>1, <1>2, PTL DEF Spec

-----------------------------------------------------------------------------
(* The inductive invariant.  AllIdle holds whenever the caller does not    *)
(* wait, except after it returned from ctx.Done().                         *)

AllIdle == \A g \in Goroutine : gs[g] = "idle"

PcInv == /\ (pc = "returned") <=> (ret # Pending)
         /\ pc = "start" => AllIdle /\ lastErr = NoErr
         /\ pc = "spawn" => AllIdle /\ fn = "func"
         /\ pc = "select" => cur \in Goroutine /\ fn = "func"

\* An answer that reports success belongs to a request that took effect.
AnswerInv == \A g \in Goroutine : /\ landed[g] => effect
                                  /\ gs[g] = "sending" /\ answer[g] = NoErr => landed[g]

NilInv == ret # Pending /\ ret.err = NoErr /\ fn = "func"
          => ret.via = "answer" /\ cur \in Goroutine /\ landed[cur]

IInv == /\ TypeOK
        /\ OnlyCurrentInFlight
        /\ PcInv
        /\ AnswerInv
        /\ NilInv
        /\ QuietUnlessTimedOut

LEMMA InitIInv == Init => IInv
BY RetryAssumption
DEF Init, IInv, TypeOK, OnlyCurrentInFlight, PcInv, AllIdle, AnswerInv, NilInv,
    QuietUnlessTimedOut

LEMMA NextIInv == IInv /\ TypeOK' /\ [Next]_vars => IInv'
<1> SUFFICES ASSUME IInv, TypeOK', [Next]_vars PROVE IInv'
  OBVIOUS
<1> USE DEF IInv
<1> DEFINE Goal == /\ OnlyCurrentInFlight'
                   /\ PcInv'
                   /\ AnswerInv'
                   /\ NilInv'
                   /\ QuietUnlessTimedOut'
<1>1. CASE Enter
  BY <1>1, RetryAssumption
  DEF Enter, TypeOK, OnlyCurrentInFlight, PcInv, AllIdle, AnswerInv, NilInv,
      QuietUnlessTimedOut
<1>2. CASE SelectCtx
  BY <1>2, RetryAssumption
  DEF SelectCtx, TypeOK, OnlyCurrentInFlight, PcInv, AllIdle, AnswerInv, NilInv,
      QuietUnlessTimedOut
<1>3. CASE ContextEnds
  BY <1>3
  DEF ContextEnds, OnlyCurrentInFlight, PcInv, AllIdle, AnswerInv, NilInv,
      QuietUnlessTimedOut
<1>4. CASE Terminated
  BY <1>4
  DEF Terminated, vars, OnlyCurrentInFlight, PcInv, AllIdle, AnswerInv, NilInv,
      QuietUnlessTimedOut
<1>5. ASSUME NEW g \in Goroutine, Spawn(g) PROVE Goal
  <2>1. OnlyCurrentInFlight' /\ PcInv'
    BY <1>5 DEF Spawn, TypeOK, OnlyCurrentInFlight, PcInv, AllIdle
  <2>2. AnswerInv' /\ NilInv' /\ QuietUnlessTimedOut'
    BY <1>5 DEF Spawn, TypeOK, PcInv, AllIdle, AnswerInv, NilInv, QuietUnlessTimedOut
  <2> QED BY <2>1, <2>2
<1>6. ASSUME NEW g \in Goroutine, SelectDone(g) PROVE Goal
  <2>1. g = cur /\ landed[g]
    BY <1>6 DEF SelectDone, Receive, OnlyCurrentInFlight, AnswerInv
  <2>2. AllIdle'
    BY <1>6, <2>1 DEF SelectDone, Receive, TypeOK, OnlyCurrentInFlight, AllIdle
  <2>3. OnlyCurrentInFlight' /\ AnswerInv' /\ QuietUnlessTimedOut'
    BY <1>6, <2>2
    DEF SelectDone, Receive, AllIdle, AnswerInv, OnlyCurrentInFlight, QuietUnlessTimedOut
  <2>4. ret' # Pending
    BY <1>6, RetryAssumption DEF SelectDone
  <2>5. PcInv' /\ NilInv'
    BY <1>6, <2>1, <2>4 DEF SelectDone, Receive, PcInv, NilInv
  <2> QED BY <2>3, <2>5
<1>7. ASSUME NEW g \in Goroutine, SelectErr(g) PROVE Goal
  <2>1. g = cur
    BY <1>7 DEF SelectErr, Receive, OnlyCurrentInFlight
  <2>2. AllIdle'
    BY <1>7, <2>1 DEF SelectErr, Receive, TypeOK, OnlyCurrentInFlight, AllIdle
  <2>3. OnlyCurrentInFlight' /\ AnswerInv' /\ QuietUnlessTimedOut'
    BY <1>7, <2>2
    DEF SelectErr, Receive, AllIdle, AnswerInv, OnlyCurrentInFlight, QuietUnlessTimedOut
  <2>4. answer[g] \in Err
    BY <1>7 DEF SelectErr, Receive, TypeOK
  <2>5. CASE answer[g] \in Tolerated
    BY <1>7, <2>2, <2>3, <2>5 DEF SelectErr, Receive, PcInv, NilInv
  <2>6. CASE answer[g] \notin Tolerated
    <3>1. ret' # Pending /\ ret'.err # NoErr
      BY <1>7, <2>4, <2>6, RetryAssumption DEF SelectErr
    <3> QED BY <1>7, <2>3, <2>6, <3>1 DEF SelectErr, Receive, PcInv, NilInv
  <2> QED BY <2>3, <2>5, <2>6
<1>8. ASSUME NEW g \in Goroutine, Land(g) PROVE Goal
  BY <1>8
  DEF Land, TypeOK, OnlyCurrentInFlight, PcInv, AllIdle, AnswerInv, NilInv,
      QuietUnlessTimedOut
<1>9. ASSUME NEW g \in Goroutine, FnOk(g) PROVE Goal
  BY <1>9
  DEF FnOk, TypeOK, OnlyCurrentInFlight, PcInv, AllIdle, AnswerInv, NilInv,
      QuietUnlessTimedOut
<1>10. ASSUME NEW g \in Goroutine, FnErr(g) PROVE Goal
  BY <1>10, RetryAssumption
  DEF FnErr, TypeOK, OnlyCurrentInFlight, PcInv, AllIdle, AnswerInv, NilInv,
      QuietUnlessTimedOut
<1>11. CASE UNCHANGED vars
  BY <1>11
  DEF vars, OnlyCurrentInFlight, PcInv, AllIdle, AnswerInv, NilInv,
      QuietUnlessTimedOut
<1> QED
  BY <1>1, <1>2, <1>3, <1>4, <1>5, <1>6, <1>7, <1>8, <1>9, <1>10, <1>11 DEF Next

LEMMA IInvHolds == Spec => []IInv
<1>1. Spec => []TypeOK
  BY TypeCorrect
<1> QED
  BY <1>1, InitIInv, NextIInv, PTL DEF Spec

\* Every goroutine other than the one of the current iteration has exited,
\* so no select receives the answer of an attempt that was given up.
THEOREM NoStaleAnswer == Spec => []OnlyCurrentInFlight
BY IInvHolds, PTL DEF IInv

\* retry reports success only of an attempt that took effect
\* (retry_client.go:79-80 and 99).
THEOREM SuccessIsReal == Spec => []NilMeansEffect
<1>1. IInv => NilMeansEffect
  BY DEF IInv, NilInv, AnswerInv, NilMeansEffect
<1> QED
  BY <1>1, IInvHolds, PTL

\* Only a call that returned because its context was done leaves a
\* goroutine, or a request on its way, behind (retry_client.go:88-95).
THEOREM NothingLeftBehind == Spec => []QuietUnlessTimedOut
BY IInvHolds, PTL DEF IInv

-----------------------------------------------------------------------------
\* The loop, its goroutines and its two channels implement RetryPromise:
\* every step is a step of the promise or changes nothing it speaks of.
THEOREM Refinement == Spec => ImplementsPromise
<1>1. Init => Promise!PInit
  BY DEF Init, Promise!PInit
<1>2. IInv /\ [Next]_vars => [Promise!PNext]_(Promise!pvars)
  <2> SUFFICES ASSUME IInv, [Next]_vars PROVE [Promise!PNext]_(Promise!pvars)
    OBVIOUS
  <2> USE DEF IInv, Promise!pvars
  <2>1. CASE Enter
    <3>1. CASE fn = "nil"
      BY <2>1, <3>1 DEF Enter, PcInv, Promise!PNext, Promise!IgnoreNilFunc
    <3>2. CASE fn # "nil"
      BY <2>1, <3>2 DEF Enter
    <3> QED BY <3>1, <3>2
  <2>2. CASE SelectCtx
    BY <2>2 DEF SelectCtx, PcInv, Promise!PNext, Promise!GiveUp
  <2>3. CASE ContextEnds
    BY <2>3 DEF ContextEnds, TypeOK, Promise!PNext, Promise!Expire
  <2>4. CASE Terminated
    BY <2>4 DEF Terminated, vars
  <2>5. ASSUME NEW g \in Goroutine, Spawn(g) PROVE UNCHANGED Promise!pvars
    BY <2>5 DEF Spawn
  <2>6. ASSUME NEW g \in Goroutine, SelectDone(g) PROVE Promise!Succeed
    BY <2>6 DEF SelectDone, Receive, PcInv, AnswerInv, Promise!Succeed
  <2>7. ASSUME NEW g \in Goroutine, SelectErr(g)
        PROVE Promise!Tolerate \/ Promise!Refuse
    <3>1. CASE answer[g] \in Tolerated
      BY <2>7, <3>1 DEF SelectErr, Receive, PcInv, Promise!Tolerate
    <3>2. CASE answer[g] \notin Tolerated
      <4>1. answer[g] \in Err \ Tolerated
        BY <2>7, <3>2 DEF SelectErr, Receive, TypeOK
      <4> QED BY <2>7, <4>1 DEF SelectErr, Receive, PcInv, Promise!Refuse
    <3> QED BY <3>1, <3>2
  <2>8. ASSUME NEW g \in Goroutine, Land(g) PROVE Promise!TakeEffect
    BY <2>8 DEF Land, PcInv, QuietUnlessTimedOut, Promise!TakeEffect
  <2>9. ASSUME NEW g \in Goroutine, FnOk(g) PROVE UNCHANGED Promise!pvars
    BY <2>9 DEF FnOk
  <2>10. ASSUME NEW g \in Goroutine, FnErr(g) PROVE UNCHANGED Promise!pvars
    BY <2>10 DEF FnErr
  <2>11. CASE UNCHANGED vars
    BY <2>11 DEF vars
  <2> QED
    BY <2>1, <2>2, <2>3, <2>4, <2>5, <2>6, <2>7, <2>8, <2>9, <2>10, <2>11
    DEF Next, Promise!PNext
<1> QED
  BY <1>1, <1>2, IInvHolds, PTL DEF Spec, ImplementsPromise, Promise!PSpec
=============================================================================
