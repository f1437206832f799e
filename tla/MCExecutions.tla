---------------------------- MODULE MCExecutions ----------------------------
(***************************************************************************)
(* Requests for TLC, and a claim of the repository's text about verdicts   *)
(* that the code does not keep.                                            *)
(***************************************************************************)
EXTENDS Executions, TLC

CONSTANTS c1, c2, c3

MCSteps == {<<"s">>, <<"t">>}
MCUsers == {"ann"}
MCFold == [u \in MCUsers |-> u]
MCTimes == {0}

Of(exec, step, approval) ==
    [exec |-> exec, step |-> step, script |-> "script", approvers |-> MCUsers,
     approval |-> approval]

MCExecutions == {<<"e">>, <<"x">>, <<"y">>, <<"z">>}
MCFresh == [c \in Calls |-> IF c = c1 THEN <<"x">> ELSE IF c = c2 THEN <<"y">> ELSE <<"z">>]
MCAsked == {Of(<<"e">>, <<"s">>, TRUE), Of(<<"e">>, <<"t">>, FALSE), Of(None, <<"s">>, TRUE)}

(* "Wait waits for the Job to complete and returns the result" (monitor.go)*)
(* - of the Job it was given.                                              *)
OwnVerdict ==
    \A c \in Calls : pc[c] \in {"succeeded", "failed"} => shown[c] = c

=============================================================================
