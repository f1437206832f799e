------------------------------- MODULE JobRun -------------------------------
(***************************************************************************)
(* One script run: the second half of Manager.Execute (create the Job,     *)
(* wait for it, write the audit line, answer) with Monitor.Wait, against   *)
(* the Kubernetes Job controller and a watch stream that lags and may      *)
(* break off.                                                              *)
(*                                                                         *)
(* One step is one request to the API server or one round of Wait's loop.  *)
(* The controller's steps interleave with them freely; what the monitor    *)
(* knows of the Job is what an event or a fetch showed it.                 *)
(***************************************************************************)
EXTENDS Naturals, Sequences

CONSTANTS
    Codes,      \* exit codes a script may end with
    Retries,    \* the Job's backoffLimit
    Limit,      \* time that Wait is given
    None        \* no Job, no result, no pod

ASSUME CodesAssumption == Codes \subseteq Nat /\ 0 \in Codes
ASSUME BoundsAssumption == Retries \in Nat /\ Limit \in Nat

-----------------------------------------------------------------------------
(* Job.Status as far as Wait looks at it.  The controller's conditions are *)
(* Complete and Failed.                                                    *)
Status == [succeeded : 0 .. 1, failed : Nat,
           condition : {"none", "complete", "failed"}]

(* A watch event: "other" is one that does not carry a Job. *)
Event == [type : {"modified", "deleted", "other"}, status : Status]

Pod == [running : BOOLEAN, code : Codes]

Result == [succeeded : BOOLEAN, code : Codes]

ASSUME NoneAssumption == None \notin Status \union Result

Fresh == [succeeded |-> 0, failed |-> 0, condition |-> "none"]

(* Where Execute stands.                                                   *)
(*   create   about to create the Job          select   waiting for an     *)
(*   watch    about to open the watch                    event or 2 seconds*)
(*   loop     at the head of Wait's loop       collect  in collectResult   *)
(*   audit    about to write the audit line    over     answered           *)
Working == {"create", "watch", "loop", "select", "collect", "audit"}
Answers == {"none", "succeeded", "failed", "error"}

VARIABLES
    job,      \* the Job object's status, or None when there is no Job
    pods,     \* its pods, in the order they were started
    codes,    \* history: the exit codes of all pods that ended
    overran,  \* history: the Job was stopped at its activeDeadlineSeconds
    stream,   \* the events the watch has sent and Wait has not received
    open,     \* whether the watch is still open
    stage,    \* where Execute stands
    left,     \* time left until Wait's deadline; 0 when it has passed
    view,     \* the status that collectResult works from
    result,   \* what Wait returned
    audit,    \* the audit line, or None
    answer    \* the status of the response

vars == <<job, pods, codes, overran, stream, open, stage, left, view, result, audit, answer>>
cluster == <<job, pods, codes, overran>>
watch == <<stream, open>>
report == <<view, result, audit, answer>>

TypeOK ==
    /\ job \in Status \union {None}
    /\ pods \in Seq(Pod)
    /\ codes \subseteq Codes
    /\ overran \in BOOLEAN
    /\ stream \in Seq(Event)
    /\ open \in BOOLEAN
    /\ stage \in Working \union {"over", "crashed"}
    /\ left \in 0 .. Limit + 1
    /\ view \in Status
    /\ result \in Result \union {None}
    /\ audit \in Result \union {None}
    /\ answer \in Answers

Init ==
    /\ job = None /\ pods = <<>> /\ codes = {} /\ overran = FALSE
    /\ stream = <<>> /\ open = FALSE
    /\ stage = "create" /\ left = Limit + 1
    /\ view = Fresh /\ result = None /\ audit = None /\ answer = "none"

-----------------------------------------------------------------------------
(* The cluster.                                                            *)

Send(type, status) ==
    stream' = IF open THEN Append(stream, [type |-> type, status |-> status]) ELSE stream

SomeRunning == \E i \in DOMAIN pods : pods[i].running

(* The controller starts a pod: the first, or a retry for every failure it *)
(* has counted, up to the limit.                                           *)
CanStart ==
    /\ job # None /\ job.condition = "none" /\ job.succeeded = 0
    /\ ~SomeRunning
    /\ Len(pods) <= job.failed /\ job.failed <= Retries

StartPod ==
    /\ CanStart
    /\ pods' = Append(pods, [running |-> TRUE, code |-> 0])
    /\ UNCHANGED <<job, codes, overran, watch, stage, left, report>>

EndPod ==
    /\ \E i \in DOMAIN pods, code \in Codes :
          /\ pods[i].running
          /\ pods' = [pods EXCEPT ![i] = [running |-> FALSE, code |-> code]]
          /\ codes' = codes \union {code}
    /\ UNCHANGED <<job, overran, watch, stage, left, report>>

(* The controller counts the pods that ended... *)
CountPods ==
    /\ job # None /\ job.condition = "none"
    /\ \E i \in DOMAIN pods :
          /\ ~pods[i].running
          /\ i > job.failed
          /\ job' = IF pods[i].code = 0 THEN [job EXCEPT !.succeeded = 1]
                                        ELSE [job EXCEPT !.failed = i]
    /\ job' # job
    /\ Send("modified", job')
    /\ UNCHANGED <<pods, codes, overran, open, stage, left, report>>

(* ...and finishes the Job when one succeeded or too many failed. *)
FinishJob ==
    /\ job # None /\ job.condition = "none"
    /\ job.succeeded > 0 \/ job.failed > Retries
    /\ job' = [job EXCEPT !.condition = IF job.succeeded > 0 THEN "complete" ELSE "failed"]
    /\ Send("modified", job')
    /\ UNCHANGED <<pods, codes, overran, open, stage, left, report>>

(* The Job runs into its activeDeadlineSeconds.  A running pod, which is   *)
(* the last one, is stopped: removed at once, or later.                    *)
Overrun ==
    /\ job # None /\ job.condition = "none" /\ job.succeeded = 0
    /\ job' = [job EXCEPT !.condition = "failed",
                          !.failed = IF SomeRunning THEN job.failed + 1 ELSE job.failed]
    /\ overran' = TRUE
    /\ pods' \in IF SomeRunning THEN {pods, SubSeq(pods, 1, Len(pods) - 1)} ELSE {pods}
    /\ Send("modified", job')
    /\ UNCHANGED <<codes, open, stage, left, report>>

(* The Job and its pods are deleted: by the TTL after it finished, or by   *)
(* an operator at any time.                                                *)
DeleteJob ==
    /\ job # None
    /\ job' = None
    /\ pods' = <<>>
    /\ Send("deleted", job)
    /\ UNCHANGED <<codes, overran, open, stage, left, report>>

(* The watch breaks off; events under way may be lost, and the last thing  *)
(* it delivers may be an error.                                            *)
BreakWatch ==
    /\ open
    /\ open' = FALSE
    /\ \E n \in 0 .. Len(stream) :
          stream' \in {SubSeq(stream, 1, n),
                       Append(SubSeq(stream, 1, n), [type |-> "other", status |-> Fresh])}
    /\ UNCHANGED <<cluster, stage, left, report>>

Tick ==
    /\ stage \in {"loop", "select"}
    /\ left > 0
    /\ left' = left - 1
    /\ UNCHANGED <<cluster, watch, stage, report>>

-----------------------------------------------------------------------------
(* Execute.                                                                *)

(* An error response: no result, no audit line. *)
Fail == /\ stage' = "over"
        /\ answer' = "error"
        /\ UNCHANGED <<view, result, audit>>

CreateJob ==
    /\ stage = "create"
    /\ job' = Fresh
    /\ stage' = "watch"
    /\ UNCHANGED <<pods, codes, overran, watch, left, report>>

(* The creation fails, or its reply is lost. *)
CreateFails ==
    /\ stage = "create"
    /\ job' \in {None, Fresh}
    /\ Fail
    /\ UNCHANGED <<pods, codes, overran, watch, left>>

(* The watch starts with the Job as it is; then Wait sets its deadline. *)
OpenWatch ==
    /\ stage = "watch"
    /\ open' = TRUE
    /\ stream' = IF job = None THEN <<>> ELSE <<[type |-> "modified", status |-> job]>>
    /\ left' = Limit + 1
    /\ stage' = "loop"
    /\ UNCHANGED <<cluster, report>>

WatchFails ==
    /\ stage = "watch"
    /\ Fail
    /\ UNCHANGED <<cluster, watch, left>>

(* The head of the loop: the context is done, the deadline has passed, or  *)
(* another round.                                                          *)
CtxDone ==
    /\ stage = "loop"
    /\ Fail
    /\ UNCHANGED <<cluster, watch, left>>

NoTime == FALSE      \* a variant of Expired: the deadline is not checked
Expired == left = 0

TimedOut ==
    /\ stage = "loop" /\ Expired
    /\ Fail
    /\ UNCHANGED <<cluster, watch, left>>

NextRound ==
    /\ stage = "loop" /\ ~Expired
    /\ stage' = "select"
    /\ UNCHANGED <<cluster, watch, left, report>>

(* isJobComplete or isJobFailed. *)
IsAnyPodCounted(s) == s.succeeded >= 0 \/ s.failed >= 0   \* a variant: off by one
IsFinished(s) == \/ s.condition \in {"complete", "failed"}
                 \/ s.succeeded > 0
                 \/ s.failed > 0

(* What Wait does with a status it was shown. *)
Judge(s) == /\ stage' = IF IsFinished(s) THEN "collect" ELSE "loop"
            /\ view' = IF IsFinished(s) THEN s ELSE view
            /\ UNCHANGED <<result, audit, answer>>

Receive ==
    /\ stage = "select"
    /\ stream # <<>>
    /\ stream' = Tail(stream)
    /\ CASE Head(stream).type = "deleted" -> Fail
         [] Head(stream).type = "other" -> stage' = "loop" /\ UNCHANGED report
         [] OTHER -> Judge(Head(stream).status)
    /\ UNCHANGED <<cluster, open, left>>

(* The channel is closed: Wait fetches the Job once and reports on it      *)
(* whatever its state.                                                     *)
ChannelClosed ==
    /\ stage = "select"
    /\ ~open /\ stream = <<>>
    /\ job # None
    /\ view' = job
    /\ stage' = "collect"
    /\ UNCHANGED <<cluster, watch, left, result, audit, answer>>

(* Two seconds without an event: Wait fetches the Job. *)
Poll ==
    /\ stage = "select"
    /\ job # None
    /\ Judge(job)
    /\ UNCHANGED <<cluster, watch, left>>

(* A fetch of the Job fails, after a closed channel or two seconds. *)
FetchFails ==
    /\ stage = "select"
    /\ Fail
    /\ UNCHANGED <<cluster, watch, left>>

NoFailure(s) == s.failed = 0         \* a variant of Succeeded
Succeeded(s) == s.succeeded > 0

LastCode(p) == IF p.running THEN 1 ELSE p.code   \* a variant of ExitCode
Unknown(p) == IF p.running THEN 128 ELSE p.code  \* a variant of ExitCode
ExitCode(p) == IF p.running THEN 0 ELSE p.code

(* collectResult: the verdict from the status, the exit code from the      *)
(* first pod listed (the list is in the order of the pods' names, which    *)
(* are random), or none when the list fails or is empty.                   *)
Collect ==
    /\ stage = "collect"
    /\ \/ result' = [succeeded |-> Succeeded(view), code |-> 0]
       \/ \E i \in DOMAIN pods :
             result' = [succeeded |-> Succeeded(view), code |-> ExitCode(pods[i])]
    /\ stage' = "audit"
    /\ UNCHANGED <<cluster, watch, left, view, audit, answer>>

(* LogExecution: a line about r, or silently none (a logger that could not *)
(* open its file, a write that failed).                                    *)
Logged(r) == {None, r}

(* The audit line; then Execute answers. *)
Respond ==
    /\ stage = "audit"
    /\ audit' \in Logged(result)
    /\ answer' = IF result.succeeded THEN "succeeded" ELSE "failed"
    /\ stage' = "over"
    /\ UNCHANGED <<cluster, watch, left, view, result>>

Crash ==
    /\ stage \in Working
    /\ stage' = "crashed"
    /\ UNCHANGED <<cluster, watch, left, report>>

-----------------------------------------------------------------------------
Cluster == StartPod \/ EndPod \/ CountPods \/ FinishJob \/ Overrun \/ DeleteJob \/ BreakWatch

Execute == \/ CreateJob \/ CreateFails \/ OpenWatch \/ WatchFails
           \/ CtxDone \/ TimedOut \/ NextRound \/ Receive \/ ChannelClosed
           \/ Poll \/ FetchFails \/ Collect \/ Respond

Next == Cluster \/ Tick \/ Execute \/ Crash

Spec == Init /\ [][Next]_vars

-----------------------------------------------------------------------------
(* Safety.                                                                 *)

(* Execute answers SUCCEEDED only if a pod of the Job really exited with 0,*)
(* whichever of events, polls and the last fetch it learnt that from, and  *)
(* whatever was deleted or lost since (Wait, collectResult).               *)
SuccessIsReal == answer = "succeeded" => 0 \in codes

(* Execute answers FAILED only for a cause: the script failed, it ran out  *)
(* of its time, or the watch broke off (isJobFailed, Wait).                *)
FailureHasCause ==
    answer = "failed" => ~open \/ overran \/ \E code \in codes : code # 0

(* The Job never comes to contradict a verdict that was given on it.  A    *)
(* success stands whatever happens later: its deadline, more pods, events  *)
(* under way.  A failure stands without retries and while the watch holds; *)
(* otherwise the script may still be running (Wait).                       *)
VerdictStands ==
    job # None =>
        /\ answer = "succeeded" => job.succeeded > 0 /\ job.condition # "failed"
        /\ answer = "failed" /\ open /\ Retries = 0 =>
              job.succeeded = 0 /\ job.condition # "complete"

(* A reported exit code other than 0 is one a pod ended with, and without  *)
(* retries a success is never reported with it (collectResult takes the    *)
(* code from one pod and the verdict from the Job).                        *)
CodeIsReal ==
    result # None =>
        /\ result.code # 0 => result.code \in codes
        /\ result.succeeded /\ Retries = 0 => result.code = 0

(* While the watch holds and the Job is in its time, an answer with a      *)
(* verdict means that the script is not running and, without retries, will *)
(* not run again: the caller may act on what the script left behind (Wait).*)
QuietAfterVerdict ==
    answer \in {"succeeded", "failed"} /\ open /\ ~overran /\ Retries = 0 =>
        ~SomeRunning /\ ~CanStart

-----------------------------------------------------------------------------
(* Liveness.                                                               *)

(* The goroutine that runs Execute is scheduled and its requests return;   *)
(* time passes.  Nothing is assumed of the cluster: the script may hang.   *)
FairSpec == Spec /\ WF_vars(Execute) /\ WF_vars(Tick)

(* Execute is over at last, even if the script hangs, the controller does  *)
(* nothing and no event arrives (the deadline of Wait).                    *)
ExecuteReturns == <>(stage \in {"over", "crashed"})

=============================================================================
