----------------------------- MODULE MCApproval -----------------------------
(***************************************************************************)
(* Values of the constants of Approval for TLC, and a claim of the         *)
(* repository's text that the code does not keep.                          *)
(***************************************************************************)
EXTENDS Approval, TLC

OneExecution == {<<"run">>}
OneStep == {<<"delete">>}
TwoSteps == {<<"delete">>, <<"report">>}

(* Two approvers, one of them also written in capitals; a list other than  *)
(* the default.                                                            *)
MCUsers == {"ann", "ANN", "bob"}
MCFold == [u \in MCUsers |-> IF u = "bob" THEN "bob" ELSE "ann"]
JustAnn == {"ann"}
AnnFold == [u \in JustAnn |-> u]
AnnOnly == {"ANN"}
DefaultOrBob == {{}, {"bob"}}
Unlisted == {{}}

MCTimes == 0 .. (MaxTime + Lifetime)

CallSymmetry == Permutations(Calls)

-----------------------------------------------------------------------------
(* "cannot approve: status is %s" (checker.go, Approve; the same in Deny): *)
(* only a pending request is decided.                                      *)
DecidedOnlyWhilePending ==
    [][\A k \in Keys :
         data'[k] # data[k] /\ data'[k] # None /\ Decided(data'[k]) =>
            data[k] # None /\ data[k].status = "pending"]_vars

=============================================================================
