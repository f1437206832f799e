----------------------------- MODULE Executions -----------------------------
(***************************************************************************)
(* Several Execute calls, of an orchestrator that retries and of two       *)
(* replicas, over one cluster: approvals, Jobs that are named after their  *)
(* execution, what a call leaves behind when it gives up or crashes, and   *)
(* the verdicts that calls read off a name.                                *)
(*                                                                         *)
(* Approvals are those of ApprovalRegister, which Approval implements.     *)
(* Preparing the script and the image is one step that may fail (see       *)
(* Preparation).  A Job has one pod here, and what Wait makes of one Job   *)
(* is in JobRun; here it is which Job that is.  Jobs are deleted by the    *)
(* TTL controller only, in the foreground: not while a pod is left.        *)
(***************************************************************************)
EXTENDS ApprovalRegister

CONSTANTS
    Calls,      \* Execute calls
    Asked,      \* the requests that calls make
    Fresh       \* Fresh[c]: the id that call c makes up if it is given none

(* exec is None when the request has no execution id. *)
Ask == [exec : Executions \union {None}, step : Steps, script : Scripts,
        approvers : SUBSET Users, approval : BOOLEAN]

(* Made-up ids hold the time in nanoseconds: nobody else uses them, and    *)
(* their keys are nobody else's.                                           *)
ASSUME FreshAssumption ==
    /\ Asked \subseteq Ask
    /\ Fresh \in [Calls -> Executions]
    /\ \A c \in Calls, q \in Asked, s \in Steps : q.exec # None =>
          q.exec # Fresh[c] /\ Key(q.exec, q.step) # Key(Fresh[c], s)
    /\ \A c, d \in Calls, s, t \in Steps : c # d =>
          Fresh[c] # Fresh[d] /\ Key(Fresh[c], s) # Key(Fresh[d], t)

(* Where a call stands.  "gone" is a call that was answered with an error, *)
(* or whose replica stopped: either way nobody attends to its Job.         *)
Waiting == {"check", "submit", "create", "watch", "wait"}
Over == {"pending", "succeeded", "failed", "gone"}

(* A Job: not started yet, running or overrun, its script ended, finished. *)
States == {"new", "started", "exited0", "exited1", "succeeded", "failed"}
Job == [by : Calls, state : States]
Finished(j) == j.state \in {"succeeded", "failed"}

ASSUME ExecutionsNoneAssumption == None \notin Calls \union Job \union Executions

VARIABLES
    pc,         \* where each call stands
    ask,        \* its request
    jobs,       \* the Job under each name, or None
    made,       \* the calls that made the Jobs of each name, in order (their uids)
    open,       \* which of these Jobs each call's watch is about; 0 before it is open
    shown,      \* history: the Job whose status gave each call its verdict
    running,    \* the calls whose script is running
    outcome,    \* how the Job of each call finished
    approved    \* history: the keys that were ever approved

vars == <<register, submitted, pc, ask, jobs, made, open, shown, running, outcome, approved>>
approvals == <<register, submitted, approved>>
cluster == <<jobs, made, running, outcome>>

SharedId(c) ==          \* a variant of Id: one id for all who give none
    IF ask[c].exec = None THEN Fresh[CHOOSE d \in Calls : TRUE] ELSE ask[c].exec
Id(c) == IF ask[c].exec = None THEN Fresh[c] ELSE ask[c].exec
MyKey(c) == Key(Id(c), ask[c].step)

(* JobBuilder.Build names the Job after the execution. *)
StepName(e, s) == Key(e, s)     \* a variant of NameOf
NameOf(e, s) == e
Names == {NameOf(e, s) : e \in Executions, s \in Steps}
JobName(c) == NameOf(Id(c), ask[c].step)

TypeOK ==
    /\ RegTypeOK
    /\ pc \in [Calls -> {"idle"} \union Waiting \union Over]
    /\ ask \in [Calls -> Asked \union {None}]
    /\ jobs \in [Names -> Job \union {None}]
    /\ made \in [Names -> Seq(Calls)]
    /\ open \in [Calls -> Nat]
    /\ shown \in [Calls -> Calls \union {None}]
    /\ running \subseteq Calls
    /\ outcome \in [Calls -> {"none", "succeeded", "failed"}]
    /\ approved \subseteq Keys

Init ==
    /\ RegInit
    /\ pc = [c \in Calls |-> "idle"]
    /\ ask = [c \in Calls |-> None]
    /\ jobs = [n \in Names |-> None]
    /\ made = [n \in Names |-> <<>>]
    /\ open = [c \in Calls |-> 0]
    /\ shown = [c \in Calls |-> None]
    /\ running = {}
    /\ outcome = [c \in Calls |-> "none"]
    /\ approved = {}

Goto(c, stage) == pc' = [pc EXCEPT ![c] = stage]

-----------------------------------------------------------------------------
(* Approvers decide, and requests expire. *)
Decision ==
    /\ \E r \in submitted :
          \/ \E u \in Users, t \in Times :
                /\ Settle(r, "approved", u, t)
                /\ approved' = approved \union {KeyOf(r)}
          \/ \E u \in Users, t \in Times : Settle(r, "denied", u, t) /\ UNCHANGED approved
          \/ Expire(r) /\ UNCHANGED approved
    /\ UNCHANGED <<pc, ask, cluster, open, shown>>

-----------------------------------------------------------------------------
(* Execute up to the Job.                                                  *)

Arrive(c) ==
    /\ pc[c] = "idle"
    /\ \E q \in Asked : ask' = [ask EXCEPT ![c] = q]
    /\ Goto(c, "check")
    /\ UNCHANGED <<approvals, cluster, open, shown>>

PrepareFails(c) ==
    /\ pc[c] = "check"
    /\ Goto(c, "gone")
    /\ UNCHANGED <<approvals, ask, cluster, open, shown>>

(* Step 6.  A lookup that fails is taken for one that finds nothing. *)
UnlessDenied(status) ==    \* a variant of StageAfter
    IF status = "denied" THEN "gone" ELSE "create"
StageAfter(status) ==
    IF status = "approved" THEN "create" ELSE IF status = "denied" THEN "gone" ELSE "submit"

Check(c) ==
    /\ pc[c] = "check"
    /\ Goto(c, IF ~ask[c].approval THEN "create"
               ELSE IF register[MyKey(c)] = None THEN "submit"
               ELSE StageAfter(register[MyKey(c)].status))
    /\ UNCHANGED <<approvals, ask, cluster, open, shown>>

CheckBlind(c) ==
    /\ pc[c] = "check" /\ ask[c].approval
    /\ Goto(c, "submit")
    /\ UNCHANGED <<approvals, ask, cluster, open, shown>>

NewRequest(c, t) ==
    [exec |-> Id(c), step |-> ask[c].step, script |-> ask[c].script,
     approvers |-> ask[c].approvers, status |-> "pending", by |-> None, at |-> 0,
     expiresAt |-> t]

(* The request is stored.  Execute answers PENDING, or an error if the     *)
(* store's reply is lost.                                                  *)
SubmitRequest(c) ==
    /\ pc[c] = "submit"
    /\ \E t \in Times : Submit(NewRequest(c, t))
    /\ \E stage \in {"pending", "gone"} : Goto(c, stage)
    /\ UNCHANGED <<approved, ask, cluster, open, shown>>

SubmitFails(c) ==
    /\ pc[c] = "submit"
    /\ Goto(c, "gone")
    /\ UNCHANGED <<approvals, ask, cluster, open, shown>>

-----------------------------------------------------------------------------
(* The Job.                                                                *)

(* The API server creates a Job only under a name that is free. *)
AnyState(n) == TRUE     \* a variant of Free: the Job under the name is replaced
Free(n) == jobs[n] = None

CreateJob(c) ==
    /\ pc[c] = "create"
    /\ Free(JobName(c))
    /\ jobs' = [jobs EXCEPT ![JobName(c)] = [by |-> c, state |-> "new"]]
    /\ made' = [made EXCEPT ![JobName(c)] = Append(@, c)]
    /\ \E stage \in {"watch", "gone"} : Goto(c, stage)     \* the reply may be lost
    /\ UNCHANGED <<approvals, ask, running, outcome, open, shown>>

CreateFails(c) ==
    /\ pc[c] = "create"
    /\ Goto(c, "gone")
    /\ UNCHANGED <<approvals, ask, cluster, open, shown>>

(* The watch selects by name: it is about the Job of that name at the      *)
(* time, or the next one.                                                  *)
FromTheStart(c) ==      \* a variant of OpenWatch: old events are replayed
    /\ pc[c] = "watch"
    /\ open' = [open EXCEPT ![c] = 1]
    /\ Goto(c, "wait")
    /\ UNCHANGED <<approvals, ask, cluster, shown>>
OpenWatch(c) ==
    /\ pc[c] = "watch"
    /\ LET n == JobName(c)
       IN  open' = [open EXCEPT ![c] = IF jobs[n] = None THEN Len(made[n]) + 1 ELSE Len(made[n])]
    /\ Goto(c, "wait")
    /\ UNCHANGED <<approvals, ask, cluster, shown>>

(* Wait returns the verdict of d's Job. *)
Answer(c, d, verdict) ==
    /\ Goto(c, verdict)
    /\ shown' = [shown EXCEPT ![c] = d]
    /\ UNCHANGED <<approvals, ask, cluster, open>>

(* An event of the watch. *)
Told(c) ==
    /\ pc[c] = "wait"
    /\ open[c] \in DOMAIN made[JobName(c)]
    /\ LET d == made[JobName(c)][open[c]]
       IN  outcome[d] # "none" /\ Answer(c, d, outcome[d])

(* The fetch after two seconds of silence. *)
Poll(c) ==
    /\ pc[c] = "wait"
    /\ LET j == jobs[JobName(c)]
       IN  /\ j # None
           /\ Finished(j)
           /\ Answer(c, j.by, j.state)

(* The fetch after the watch closed: a Job that has not succeeded failed. *)
AsItIs(c) ==            \* a variant of Refetch: whatever state the Job is in
    /\ pc[c] = "wait"
    /\ LET j == jobs[JobName(c)]
       IN  j # None /\ Answer(c, j.by, j.state)
Refetch(c) ==
    /\ pc[c] = "wait"
    /\ LET j == jobs[JobName(c)]
       IN  /\ j # None
           /\ Answer(c, j.by, IF j.state = "succeeded" THEN "succeeded" ELSE "failed")

(* No watch, a failed fetch, a deleted Job, the deadline, the caller.  The *)
(* Job stays.                                                              *)
GiveUp(c) ==
    /\ pc[c] \in {"watch", "wait"}
    /\ Goto(c, "gone")
    /\ UNCHANGED <<approvals, ask, cluster, open, shown>>

Crash(c) ==
    /\ pc[c] \in Waiting
    /\ Goto(c, "gone")
    /\ UNCHANGED <<approvals, ask, cluster, open, shown>>

-----------------------------------------------------------------------------
(* The cluster.                                                            *)

Become(n, state) == jobs' = [jobs EXCEPT ![n].state = state]

StartScript(n) ==
    /\ jobs[n] # None /\ jobs[n].state = "new"
    /\ Become(n, "started")
    /\ running' = running \union {jobs[n].by}
    /\ UNCHANGED <<approvals, pc, ask, made, open, shown, outcome>>

FinishScript(n) ==
    /\ jobs[n] # None /\ jobs[n].state = "started"
    /\ \E state \in {"exited0", "exited1"} : Become(n, state)
    /\ running' = running \ {jobs[n].by}
    /\ UNCHANGED <<approvals, pc, ask, made, open, shown, outcome>>

Finish(n, state) ==
    /\ Become(n, state)
    /\ outcome' = [outcome EXCEPT ![jobs[n].by] = state]
    /\ UNCHANGED <<approvals, pc, ask, made, open, shown, running>>

FinishJob(n) ==
    /\ jobs[n] # None /\ jobs[n].state \in {"exited0", "exited1"}
    /\ Finish(n, IF jobs[n].state = "exited0" THEN "succeeded" ELSE "failed")

(* activeDeadlineSeconds: the Job has failed, and its pod is stopped. *)
NoDeadline(n) == FALSE       \* a variant of Overrun: the field is not set
Overrun(n) ==
    /\ jobs[n] # None /\ jobs[n].state \in {"new", "started"}
    /\ Finish(n, "failed")

StopScript(n) ==
    /\ jobs[n] # None /\ Finished(jobs[n]) /\ jobs[n].by \in running
    /\ running' = running \ {jobs[n].by}
    /\ UNCHANGED <<approvals, pc, ask, jobs, made, open, shown, outcome>>

(* ttlSecondsAfterFinished. *)
DeleteJob(n) ==
    /\ jobs[n] # None /\ Finished(jobs[n]) /\ jobs[n].by \notin running
    /\ jobs' = [jobs EXCEPT ![n] = None]
    /\ UNCHANGED <<approvals, pc, ask, made, open, shown, running, outcome>>

-----------------------------------------------------------------------------
Proceed(c) == \/ PrepareFails(c) \/ Check(c) \/ CheckBlind(c)
              \/ SubmitRequest(c) \/ SubmitFails(c) \/ CreateJob(c) \/ CreateFails(c)
              \/ OpenWatch(c) \/ Told(c) \/ Poll(c) \/ Refetch(c) \/ GiveUp(c)
Controller(n) == FinishJob(n) \/ Overrun(n) \/ StopScript(n) \/ DeleteJob(n)

Next == \/ Decision
        \/ \E c \in Calls : Arrive(c) \/ Proceed(c) \/ Crash(c)
        \/ \E n \in Names : StartScript(n) \/ FinishScript(n) \/ Controller(n)

Spec == Init /\ [][Next]_vars

(* The controllers of the cluster do their work.  Nothing is assumed of    *)
(* scripts, which may hang, of callers or of replicas, which may stop.     *)
FairSpec == Spec /\ \A n \in Names : WF_vars(Controller(n))

-----------------------------------------------------------------------------
(* Scripts of one execution never run at the same time, whatever is        *)
(* retried, abandoned or left behind by a crash (Build, Execute step 8).   *)
RunsOneAtATime ==
    \A c, d \in running : Id(c) = Id(d) => c = d

(* The Jobs of the cluster behave as slots held by one call at a time.     *)
Slots == INSTANCE JobSlots
            WITH holder <- [n \in Names |-> IF jobs[n] = None THEN None ELSE jobs[n].by],
                 used <- {c \in Calls : \E n \in Names : \E i \in DOMAIN made[n] : made[n][i] = c}
RefinesSlots == Slots!SlotSpec

(* A call's verdict is that of a Job made by itself or, under the same     *)
(* name, later; never of one made before.  SUCCEEDED means that this Job   *)
(* succeeded (Wait goes by the name alone).                                *)
VerdictNotOlder ==
    \A c \in Calls : pc[c] \in {"succeeded", "failed"} =>
        /\ \E i, j \in DOMAIN made[JobName(c)] :
              /\ i <= j
              /\ made[JobName(c)][i] = c
              /\ made[JobName(c)][j] = shown[c]
        /\ pc[c] = "succeeded" => outcome[shown[c]] = "succeeded"

(* A Job of a call that needs an approval exists only if its execution and *)
(* step were approved at some time, even when lookups fail and decisions   *)
(* or expiries land late (step 6 of Execute).                              *)
JobsWereApproved ==
    \A n \in Names : \A i \in DOMAIN made[n] :
        ask[made[n][i]].approval => MyKey(made[n][i]) \in approved

(* A call that needs an approval and brings no execution id never gets a   *)
(* Job itself, even once its request is approved: the id it made up is new *)
(* with each call (FreshAssumption), so no lookup of its own finds it.     *)
AnonymousNeverRuns ==
    \A n \in Names : \A i \in DOMAIN made[n] :
        ask[made[n][i]].approval => ask[made[n][i]].exec # None

(* Whatever calls leave behind, a name comes free again, so a retry is not *)
(* refused for ever (activeDeadlineSeconds, ttlSecondsAfterFinished).      *)
NamesComeFree == \A n \in Names : []<>(jobs[n] = None)

=============================================================================
