----------------------------- MODULE MCStepRun ------------------------------
(***************************************************************************)
(* A step with a timeout of one or two seconds, or below 0, in ticks of    *)
(* half a second; two objects to delete or none; up to two commands.       *)
(***************************************************************************)
EXTENDS StepRun

CONSTANTS o1, o2, e1, e2, e3

MCTimeouts == {-1, 1, 2}
MCDeletes == {<<>>, <<o1, o2>>}
MCCommands == {<<>>, <<"background", "foreground">>, <<"foreground", "foreground">>}
MCAny == {e1, e2}
MCAll == {e2, e3}
MCCollectors == {[type |-> "", sets |-> {"pod", "namespace"}],
                 [type |-> "command", sets |-> {"cmd", "pod"}]}
=============================================================================
