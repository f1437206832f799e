------------------------------ MODULE MCJobRun ------------------------------
(***************************************************************************)
(* A claim of the repository's text about a script run that the code does  *)
(* not keep.                                                               *)
(***************************************************************************)
EXTENDS JobRun

(* "Wait waits for the Job to complete and returns the result" (monitor.go)*)
(* and nothing is running any more when it has.                            *)
WaitsForCompletion ==
    answer \in {"succeeded", "failed"} /\ ~overran => ~SomeRunning

=============================================================================
