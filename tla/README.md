# script-executor in TLA+

Specifications, model-checking runs and machine-checked proofs for the Go
service in `src/`: a gRPC executor that runs scripts as Kubernetes Jobs, after
an approval where one is required.  This file says what the system consists of,
which module models which part, what each run and each theorem shows, and what
is left out.  `PROJECT.json` is the index: components, runs, the source lines
each definition stands for, hazards, findings and theorems.

## 1. The system

An orchestrator calls `Execute` (gRPC) for every `script.run` step.
`Manager.Execute` loads the script, validates it, resolves and validates the
image, checks the approval, creates a Job, waits for it, writes an audit line
and answers.  Approvers call `approve` and `deny` (HTTP).  Two replicas run
(`deploy/k8s/deployment.yaml`); they share nothing but the Kubernetes API.

| Component | State it keeps | Operations | What makes it correct | What is hard |
|---|---|---|---|---|
| Approval store (`approval/store.go`) | one ConfigMap, a record per `<execution>-<step>` | `Create`, `Get` (marks overdue requests expired), `Update`, `getOrCreate` | a register per key; no update lost; records stay with their key | read-modify-write on one object from every call and both replicas; lost replies |
| Approval checker (`approval/checker.go`) | none | `Check`, `CreateRequest`, `Approve`, `Deny` | decisions by listed approvers who looked in time, of the request they were made for; nothing runs without one | status and expiry are tested on one read and written after another, at a later time |
| Approval API (`api/`) | none | approve, deny, list (a stub) | each call answered | as above |
| Manager (`execution/manager.go`) | none between calls | `Execute` | the answer tells what happened | many exits, each leaving the earlier effects in place |
| Monitor (`execution/monitor.go`) | the watch, a deadline | `Wait`, `collectResult` | a verdict that is true when given; an end to every wait | old events, broken watches, polls and deletions racing |
| Job builder, context (`execution/job_builder.go`, `context_builder.go`) | none | `Build`, `BuildContext` | Job name, limits, retries, deadline as documented | name collisions, integer widths |
| Loader, registry (`script/`) | none (ConfigMaps, Secrets) | `LoadScript`, `LoadByID` | the script that is hashed is the one that runs | two reads for one script |
| Image catalog, resolver, validator (`image/`) | `Catalog.entries`, shared by all calls | `Load`, `Get`, `Resolve`, `Validate` | a call resolves against a catalog that was current | unsynchronised replacement of the shared map |
| Script validator (`security/`) | none | `Validate` | every command line is looked at | long lines end the scan |
| Audit log (`audit/`) | an open file | `LogExecution` | a line per run | reached on one path only; errors dropped |
| gRPC service (`service/`) | none | `Execute`, `ExecuteStream`, `Describe`, `Health` | progress in order, up to its end | sends after `Execute` has returned, to clients that left, while the server drains |
| Lifecycle (`cmd/script-executor/main.go`) | servers, a timer | start, shut down | shutdown ends; what was accepted is answered | `GracefulStop` has no limit |
| Configuration (`config/`) | none after start | `Load`: defaults, file, environment | what is set reaches the Job | settings that are never merged |
| Metrics, `internal/params`, generated code | - | - | - | unused; a copy; generated |

Interactions: manager -> checker -> store -> ConfigMap; HTTP handler -> checker;
manager -> monitor -> Job watch, Job and pods; the Job controller, the TTL
controller, operators and the clock act on their own.

## 2. Modules

| Module | What it is |
|---|---|
| `ApprovalRequests` | requests as values: records, keys, approver lists |
| `ApprovalRegister` | abstract specification of the store: requests are submitted, settled and expired, one key at a time |
| `Approval` | store, checker, handlers and step 6 of `Execute`: concurrent calls over the versioned ConfigMap; implements `ApprovalRegister` |
| `JobRun` | steps 8 to 11 of `Execute` and `Monitor.Wait` for one Job, against the Job controller |
| `JobSlots` | abstract specification of naming Jobs after executions: slots that one call at a time holds |
| `Executions` | composition: several calls, the register of approvals (EXTENDS `ApprovalRegister`), Jobs under shared names, crashes and retries; implements `JobSlots` |
| `ScriptCheck` | the script validator, and a reference for what it lets through |
| `Preparation` | steps 1 to 5 of `Execute`: script sources, registry, validation, image catalog, resolver and image lists, for concurrent calls under edits (EXTENDS `ScriptCheck`) |
| `Settings` | the configuration: defaults, file, environment |
| `JobSpec` | step 7: the context and the Job that a request becomes under a loaded configuration (EXTENDS `Settings`) |
| `Lifecycle` | a replica as a process: servers, signals, shutdown, streams |
| `ApprovalProofs`, `RegisterProofs`, `JobRunProofs`, `ExecutionsProofs`, `SlotProofs`, `JobSpecProofs`, `PreparationProofs`, `LifecycleProofs` | the theorems |
| `MCApproval`, `MCJobRun`, `MCExecutions`, `MCPreparation`, `MCJobSpec` | constants for TLC and, in the first four, a sentence of the repository's text each that the code does not keep |

How they fit together: `Preparation` ends where `Approval` begins, and
`Executions` takes the first as one step that may fail and the second as the
register that it was shown to implement.  `JobRun` has one Job in detail (its
pods, its events), `Executions` many Jobs with the detail left out; the step at
which `Lifecycle` returns from `Execute` is what `JobRun!ExecuteReturns` says
happens.

### Approval

One action is one request to the API server with the local computation after
it, because only requests touch shared state.  `pc[c]` says which request call
`c` makes next; `arg`, `draft` and `copy` are its local variables.

| Code | Action |
|---|---|
| a call arrives (`manager.go` step 6, `api/approval_handler.go`) | `Start` |
| `Store.Get`: no record; any other error; overdue | `GetMissing`, `GetError`, `GetOverdue` |
| `Check` on the record `Get` returned | `Check` |
| `Approve`, `Deny`: the tests; filling in the decision | `Decide`; `Judge` |
| `CreateRequest`, head of `Create` | `Stamp` |
| `getOrCreate`: read, or create | `Fetch`, `OpenFails`, `Make`, `MakeFails` |
| `Update`: read | `Fetch`, `FetchFails` |
| replacing the ConfigMap, in `Create` and `Update` | `Put` (with or without its reply), `PutFails` |
| replica stops; time passes | `Crash`, `Tick` |

Points worth knowing when reading it:

- `Get` ignores how its own `Update` to "expired" ended, and returns the record
  as expired either way: `AfterWrite` sends Execute on to submit a new request
  and rejects a decision.
- `getOrCreate` creates the ConfigMap after *any* error of its read, so
  `OpenFails` may happen although there is one; the creation then fails.
- Execution ids and step names are sequences of their "-"-separated parts and a
  key is their concatenation, which is what joining with "-" does.
- `Fold` is the case folding that `strings.EqualFold` compares under.
- A failed request and a conflict are the same to the callers, so each is one
  nondeterministic failure; a write that takes effect may lose its reply.
- `Get` and the decision read the clock apart, so time may pass between
  `Decide` and `Judge`; `looked[c]` remembers the first reading.
- `log`, `seen`, `looked` and `wrote` are history variables: no guard reads them.
- One record field `by`/`at` stands for `approved_by`/`approved_at` and
  `denied_by`/`denied_at`; a record has at most one pair, as decisions are made
  on pending records.  The denial reason, runbook and requester are dropped.
- The ConfigMap is only written by this code: edits by hand are left out (one
  of them would make `Update` assign to a nil map, see the hazards).

### JobRun

| Code | Action |
|---|---|
| creating the Job (`manager.go` step 8) | `CreateJob`, `CreateFails` |
| opening the watch | `OpenWatch`, `WatchFails` |
| head of `Wait`'s loop | `CtxDone`, `TimedOut`, `NextRound` |
| `select`: event; closed channel; two seconds of silence | `Receive`; `ChannelClosed`; `Poll`, `FetchFails` |
| `collectResult` | `Collect` |
| audit line and answer (steps 10, 11) | `Respond` |
| Job controller, kubelet, TTL, watch | `StartPod`, `EndPod`, `CountPods`, `FinishJob`, `Overrun`, `DeleteJob`, `BreakWatch` |

The Job controller is external: its actions are what the fields that
`job_builder.go:55-58` sets mean (backoffLimit, activeDeadlineSeconds,
ttlSecondsAfterFinished, restartPolicy Never).  It counts ended pods some time
after they ended and sets its condition some time after that; each change sends
an event on the watch while the watch is open.  Breaking the watch may lose any
suffix of what was under way and may end with an event without a Job.  The pods
of a Job are listed in the order of their random names, so `Collect` takes any
of them.  Wait's deadline and the Job's own are independent, because the call's
timeout replaces only the former (`manager.go:273-276`).  `codes` and `overran`
are history variables.

### Preparation and ScriptCheck

| Code | Action |
|---|---|
| operators edit ConfigMaps and Secrets | `Edit` |
| `LoadScript`: inline; ConfigMap or Secret; path; script id | `LoadInline`; `LoadReference`; `CheckPath`; `ReadEntry`, then `ReadContent` |
| any error of it | `LoadFails` |
| step 2, `Validate`, for a script whose content is known | part of the loading action (`Loaded`) |
| `Resolve` without the catalog, and `Validate` of the image | `ResolveDirect` |
| `Catalog.Load`: request; assignment | `FetchCatalog`, `FetchFails`; `AssignEntries` |
| `Catalog.Get`, the rest of `Resolve`, `Validate` | `Lookup`, `LookupFails` |

- The registry entry and the content it names are two requests, so an edit may
  come between them.  The assignment and the lookup of `Catalog.entries` are
  steps of their own, because nothing locks the map.  They are races in Go's
  sense; a map header is one word, so the outcomes are the old map or the new.
- `past` is everything the API server has held: its last element is what a
  request reads, the others are history, as are `since` and `met`.
- An empty script is not validated (`manager.go` tests `ScriptContent != ""`),
  and neither is a path.
- A word of a script is a name behind operators.  `Bare` drops one operator of
  each kind, in the order of the code, and only from the first word of a line.
- The reference for the validator (`Unblocked`) names what the scan does not see
  (`Unseen`) instead of copying it: a word behind several operators, a word
  behind an operator after `sudo`, and `sudo` and `su` before another word.

### Settings and JobSpec

| Code | Operator or action |
|---|---|
| `config.Load`, `mergeConfig`, `applyEnvOverrides` | `Load`, `Merge`, `Override` |
| `BuildContext`: a bad timeout; a quantity that does not parse; the context | `ContextFails`; `Panic`; `BuildContext` |
| `JobBuilder.Build` | `Build`: `JobOf`, `EnvVars`, `Volumes`, `Mounts` |
| creating the Job, with what the API server refuses | `CreateJob`, `CreateFails` |

Conversions are what they do: `Int32` wraps, `Seconds` truncates towards zero,
the caps come after the defaults and the request.  `Half` is 2^31; TLC's own
integers have 32 bits, so its runs take 2^15, and the theorems hold for any
`Half` above the built-in values.  Durations wrap at `Long`, in the code at 292
years and in the run at 1000 s: `WaitTime` adds half a minute to the call's own
limit without a test.  What `Accepted` says of the API server is external:
negative numbers, a request above its limit and two mounts at one path are
refused.

### Executions

| Code | Action |
|---|---|
| a call arrives; steps 1 to 5 fail | `Arrive`; `PrepareFails` |
| step 6: decided by a record; after a failed lookup; `CreateRequest` | `Check`; `CheckBlind`; `SubmitRequest`, `SubmitFails` |
| approvers and the clock | `Decision` |
| step 8, with or without a reply; name taken or another error | `CreateJob`; `CreateFails` |
| `Wait`: watch; event; poll; closed channel; every error | `OpenWatch`; `Told`; `Poll`; `Refetch`; `GiveUp` |
| replica stops | `Crash` |
| pod, Job controller, deadline, TTL | `StartScript`, `FinishScript`, `FinishJob`, `Overrun`, `StopScript`, `DeleteJob` |

- "gone" is a call that was answered with an error or whose replica stopped:
  nothing the model can see tells them apart.  A call whose request is stored is
  pending or, if the reply of the store was lost, gone.
- Names are per execution and carry no uid; `made[n]` lists the Jobs that were
  ever made under a name, and `open[c]` is the first of them the watch of call
  `c` will report on.
- A Job has one pod, and Jobs are deleted by the TTL controller only, in the
  foreground.  A Job deleted by hand in the background may leave its pod
  running while the name is free; that is outside the model.

### Lifecycle

| Code | Action |
|---|---|
| `main`, top to bottom | `SetUp`, `StartGrpc`, `StartApi`, `Notify`, `BeginShutdown`, `GracefulStop`, `CloseServers`, `Exit` |
| a signal (fatal before `signal.Notify`); the shutdown context | `Signal`; `TimerFires` |
| `log.Fatalf`, a panic in a call; the kubelet | `Fatal`; `Kill` |
| `Execute`, `ExecuteStream` | `Accept`, `SendStarting`, `Return`, `SendRunning`, `SendDone`, `Leave` |
| approval handlers | `AcceptApproval`, `AnswerApproval` |

All three progress messages of a stream but the first are sent after `Execute`
has returned (`service/executor.go`), and errors of `Send` are dropped.

## 3. Runs

Every passing run is exhaustive over its instance.  CHECK_DEADLOCK is off where
the system really stops: every call is handled once and then answered.

| Run | Instance | Shows |
|---|---|---|
| `approval_decisions` | 3 calls, 2 keys in one ConfigMap, users ann / ANN / bob, default list {ANN} or explicit {bob}, lifetime 0, clock to 1 | `TypeOK`, `DecisionsAuthorised`, `DecisionsInTime`, `DecisionsFaithful`, `RefinesRegister` |
| `approval_contention` | 3 calls, 1 key, lifetime 0, clock to 1 | `ClearedByApproval`, `Accounted`, `FinalUnlessOverlapped`, `CallsAnswered` (liveness) |
| `job_once` | codes 0 and 1, no retries, deadline after 2 ticks | `TypeOK`, `VerdictStands`, `CodeIsReal`, `QuietAfterVerdict` |
| `job_retries` | the same with one retry: two pods | `SuccessIsReal`, `FailureHasCause`, `CodeIsReal`, `ExecuteReturns` (liveness) |
| `jobspec` | 259 requests, one group of parameters varied at a time, under 18 configurations | `TypeOK`, `ResourcesBounded`, `RetriesBounded`, `DeadlineWithinWait`, `VolumesMounted`, `EnvResolved`, `SettingsReachJob` |
| `preparation` | 2 calls, 2 edits among 5 cluster states, 15 argument records, 9 scripts | `TypeOK`, `ScriptIsCurrent`, `CommandsChecked`, `CatalogIsCurrent`, `ImageAllowed` |
| `executions` | 3 calls: two steps of one execution, one with approval, and calls without an id | `TypeOK`, `RunsOneAtATime`, `VerdictNotOlder`, `JobsWereApproved`, `AnonymousNeverRuns`, `RefinesSlots`, `NamesComeFree` (liveness) |
| `lifecycle` | 1 plain call, 2 streams, 2 approval requests | `TypeOK`, `ExitAnswersCalls`, `OnlyTheEndCuts`, `ShutdownEnds` (liveness) |

Why the bounds are enough for the interesting cases.  A decision that is
overtaken needs the submitting call, the overtaken one and the overtaking one;
with three calls a request can be submitted, looked up twice and decided twice.
Two instants are all that the clock needs with a lifetime of 0: the first is in
time and the second is not, before or after a call's lookup, its decision and
its write; two keys are what a lost neighbour update takes; two pods are the
fewest that can be confused.  A third user or exit code is told apart by no
guard.  `jobspec` varies together the parameters that act on one another
(timeout and limit, requests and limits, the three sources of variables, the
two lists of volumes) with values on both sides of every comparison and of
every wrap.  `preparation`: sharing the catalog takes two calls, and an edit
between two reads of one call with another before the second call arrives takes
two edits; the scripts have one for each way past or into the validator, `sudo
ls` among them.  `executions`: a Job left behind, the retry that is refused and
the one that gets the name after it are three calls.  `lifecycle`: two streams
drain independently, one with a client that left, and two approval requests
hold the server up apart.  Calls are interchangeable, so `CallSymmetry` is
sound for the runs that check no liveness, `approval_decisions` and
`preparation`.  The theorems of section 5 hold without any bound.

The clock (`MaxTime`), the version (one more per write, so bounded by the
calls), `left` (Wait's time) and the edits (`MaxEdits`) are the only counters.

Fairness.  `Approval!FairSpec` has weak fairness of each call's own steps: a
goroutine is scheduled and client-go requests return.  Nothing is assumed of
arrivals, crashes or other calls, and failures may go on for ever.
`JobRun!FairSpec` has weak fairness of Execute's steps and of the clock, and
none of the cluster: the script may hang and no event need arrive.
`Executions!FairSpec` is the opposite: weak fairness of the controllers of each
name, which the cluster runs for ever, and none of callers, replicas or
scripts; so `NamesComeFree` says that a name comes free whatever they do, by
the deadline and the TTL that every Job carries.  `Lifecycle!FairSpec` has weak
fairness of `main`, of the 30 seconds and of each gRPC call (`ExecuteReturns`),
and none of approval handlers: they are what the 30 seconds are for.

## 4. Where the code and its text disagree

Four runs state a sentence of the code's comments, error texts or design and
have TLC refute it (`PROJECT.json`, "findings", quotes each).

| Run | Sentence | What happens |
|---|---|---|
| `claim_pending` | "cannot approve: status is ..." | two racing decisions both succeed, the later overwrites |
| `claim_waits` | "waits for the Job to complete" | a closed watch yields FAILED for a running script |
| `claim_verdict` | "... and returns the result" | the verdict may be that of the next Job of the execution |
| `claim_commands` | "blocked_commands: ... sudo - su" | `sudo ls` goes on: of `sudo X` only `X` is compared |

What holds instead is in the passing runs: `FinalUnlessOverlapped` says exactly
whom a decision can fall to, `FailureHasCause` and `QuietAfterVerdict` carry the
broken watch and the retries as conditions, `VerdictNotOlder` bounds whose
verdict a call may be given, and `CommandsChecked` says where a blocked command
cannot stand and names where it can.

Others are visible in the modules without a run of their own.

- Approvals: `ApprovedAt` may lie after `ExpiresAt`, and the write later still,
  since only the lookup tests the time; an overlapping poll or expiry
  overwrites an approval; the hash of the script that was approved is never
  compared; ids and step names that contain "-" share a key; `CheckBlind` and
  `GetError` take every failed lookup for "Not found - not yet approved"
  (`checker.go:45`); requests live 24 hours whatever `approval_timeout` says;
  without an approver list nobody can decide (`checker.go:26`).
- Runs: the first failed pod ends the wait although retries remain; a failed
  run may carry exit code 0; a wait that ends with an error leaves no audit line.
- `JobSpec`: a timeout between -1 s and 0 becomes a deadline of 0 and is
  accepted; a call's own limit of 292 years or more wraps and ends the wait at
  once; ephemeral storage is never capped; `max_timeout` is never applied; a
  limit below the default request is left to the API server to refuse.
- `Settings`: `Merge` ignores the file's default timeout, blocked commands,
  approval settings and resources; the file wins over
  `DEFAULT_IMAGE_PULL_SECRET`, alone among the variables.
- `ScriptCheck`: `||rm` passes, because one pipe is dropped before two are looked
  for; nothing after a line of more than 64 KiB is looked at.
- `Lifecycle`: an approval API whose port is taken fails silently (`StartApi`),
  and a signal before `signal.Notify` ends the process at once; draining may use
  up the 30 seconds, and then approval requests are cut off without any; the
  message "Script execution in progress" is sent when it is over (`SendRunning`).

## 5. Proofs

All theorems are `Spec => []Inv`, `[][A]_vars` or refinement, for every value of
the constants, under the assumptions named in the modules.

| Assumption | Says |
|---|---|
| `ExecutionsAssumption`, `FoldAssumption`, `TimesAssumption`, `ApproversAssumption`, `TimeAssumption` | ids are sequences, folding is defined on users, times are natural numbers that include the clock's and every deadline, approver lists are sets of users |
| `CodesAssumption`, `BoundsAssumption`, `NoneAssumption` | codes are natural numbers with 0 among them, bounds are natural numbers, None is no status and no result |
| `FreshAssumption`, `ExecutionsNoneAssumption` | made-up ids and their keys are nobody else's; None is no call, Job or execution |
| `NamesAssumption`, `HalfAssumption`, `PathsAssumption`, `InputsAssumption` | the built-in names and paths exist, `Half` and `Long` exceed the built-in numbers and durations, inputs are of their types |
| `CommandsAssumption`, `PreparationAssumption` | limits are natural numbers, patterns are sets of commands or images, None and Bad are no data |
| `LifecycleAssumption` | the kinds of calls are disjoint |

`ApprovalProofs`.  `TypeOK` is not inductive: that what a call stores is a
record depends on where the call stands.  `TypeInv` adds that a started call
has its arguments, that what lies under a key is filed there, that a call about
to write holds a record for its own key, and that *a copy at the current
version is the current data*.  The last conjunct carries the refinement:
together with the version check in `Put` it makes a replacement of the whole
map a change of one key (`Refinement`).  `SafeInv` adds what the log knows of
every record and every draft (`Authorised`, `Faithful`, `Cleared`).  `FinalInv`
relates the versions at which calls looked up and at which keys were written
(`Finality`): a draft that is not older than the decision under its key cannot
exist, because a lookup that saw the decision ends in no write.  `TimeInv`
compares, for each draft and each entry of the log, the time at which its call
looked with the time of its request (`InTime`); it says nothing of the time
that is recorded but that it is no earlier, for no more is true.  `AccountInv`
relates the log to the calls: whatever is in it was asked for by the call that
wrote it, a call that still looks or prepares has at most an expiry in it, one
that answered PENDING or 200 has that request or decision, and none has two
that are not expiries (`AnswersAccounted`).  From it and `SafeInv` comes the
whole history of a cleared script (`Chain`): an approval under its key, by the
call of the approver it names, which looked it up in time, of a request that an
Execute call submitted with those approvers and that script.  Under its *key*
only, for different executions and steps may share one; `OwnChain` shows that
they are the call's own if all step names have equally many parts (none has a
"-", say), a hypothesis of that theorem alone, which the code does not enforce.
`CallsAdvance` uses the rank `StepsLeft`: each step of a call lowers it and no
other step raises it, so a call makes at most seven; `Opening` says that
getOrCreate reads for new requests only, after whose write the call is over.

`RegisterProofs`, `SlotProofs`.  What the abstract specifications promise: the
register's records were submitted by somebody and answered by their approvers
(`Soundness`), without a word about time; whoever runs holds exactly one slot
(`Exclusive`).  TLC checks both only through the refinements.  That the
implementations keep them is proved as well.  `Executions` extends the
register, so `ApprovalsSound` is `RegisterRefinement` and `Soundness`.  For the
ConfigMap and the slots, which are reached by INSTANCE, a theorem of the
instantiated module cannot be cited, and `RegisterKept` and `SlotsKept` follow
from the inductive invariants of `Approval` and `Executions` instead.

`JobRunProofs`.  `TypeOK` is inductive.  `TruthInv` says that every status
anywhere, in the Job, in an event on its way or in Wait's hands, is *real*:
old perhaps, but reporting only what has happened, and history only grows.  The
verdict is formed from such a status (`SuccessReal`, `FailureCaused`).
`OnceInv` adds, for a Job without retries, that there is at most one pod and one
code and that nothing starts once there is a code (`CodeReal`, `Quiet`).
`StandInv` adds that a Job which counts a success or a failure goes on doing so
(`Onward`), that it never shows a success together with the condition failed,
nor without retries with any failure (`Settled`), and that what the statuses on
their way and in Wait's hands show, the Job still shows (`Shown`, `Held`): so it
never contradicts the verdict read off one of them (`Stands`).  `WindsDown` is
about Wait's loop: the rank `Turn` never rises, the deadline is never put off,
and a round begins only while time is left.

`ExecutionsProofs`.  `CallInv` (a call that arrived has a request) makes
`TypeOK` inductive.  `JobInv` says that the Job under a name is the last one
made there, that a call makes at most one, under its own name, and that a
script runs only while its Job is there: `OneAtATime` and, step by step,
`Refinement` follow.  `VerdictInv` places what a call waits for and what it was
shown after its own Job in `made`; that `made` only grows (`Lasting`) keeps it.
`RegisterInv` says that every approved record is remembered in `approved` and
that every record under a made-up key is that call's own request, which it
submits only when it is over; `ClearInv` that whoever is past the check was
cleared.  Together they give `Approvals` and `Anonymous`.  `OriginInv` says
where the approval came from: each request belongs to a call with its approvers
that was turned away (`TurnedAway`: answered PENDING, or FAILED if the reply of
the store was lost), and each approved key to a request with somebody among
them.  A call that runs is not such a call, so `RunsAskedFor` finds another
one.  That answers and outcomes are final (`Final`) and that a call makes one
Job under one name (`OneJob`) hold of single steps by the invariants above.
`NamesWind` counts, with `Left`, the at most five controller steps from a Job's
creation to a free name; no call, script or other Job raises it.

`JobSpecProofs`.  `SpecInv` ties each variable to the operators it was computed
by.  The rest is arithmetic about wrapping, truncation and caps, and the layout
of two concatenated lists: for every length of the request's lists, the names of
volumes are distinct and the mounts name the same volumes (`VolumesAreMounted`).

`PreparationProofs`.  `CallInv` says what a call has where it stands.  Nothing
about the past is lost (`Lasting`), so `ScriptInv` (`Named` once the registry was
read, `Sourced` once the script is there) survives every edit.  `MetInv` says
that calls active at the same time have met; therefore whoever assigns the
shared entries before a call's lookup is among those it met, which is
`CatalogInv`.  `ValidUnblocked` is about the validator alone: for scripts of any
length, what it accepts has no blocked command where the reference looks,
except those it names as unseen.

`LifecycleProofs`.  `SentInv` gives what a stream's client has received by
where the stream stands; `DrainInv` says that after `GracefulStop` no gRPC call
is in progress and none is accepted.  `ExitAnswers` follows.  `CutInv` says
that whatever ends the process cuts off what is in progress; with `SentInv`, no
other stream whose client stayed fell short (`EndCuts`).  `StopInv` says what
holds since the signal (nothing is accepted, the timer was set, main is past
its start); with it `Unstuck` shows that main waits only for calls in progress
or for the timer, and `WindsDown` that neither main (`At`) nor a call (`ToDo`)
is ever set back while it waits.

Only model-checked: the four liveness properties (`CallsAnswered`,
`ExecuteReturns`, `NamesComeFree`, `ShutdownEnds`), because fairness and ENABLED
are out of the prover's reach.  The safety half of each is proved, for every
value of the constants: a rank that every step of the fair process lowers, or in
Wait's loop its deadline, and that no other step raises (`CallsAdvance`,
`JobRunProofs!WindsDown`, `NamesWind`, `LifecycleProofs!WindsDown`), and for the
shutdown that there is always somebody to step (`Unstuck`).  What TLC alone
shows is that those steps are enabled until the goal is reached and so, being
treated fairly, are taken.  No module has a RECURSIVE operator, and no theorem
needs an induction over data.

## 6. Not modelled

- Generated code; metrics (declared, never incremented); `internal/params` (a
  second copy of the parameter helpers that nothing calls).
- Text of messages, container logs, durations, labels, annotations, node
  selectors, security context, arguments, env-from lists: passed on or reported,
  never decided upon.  Standard input is accepted and never delivered, and
  tolerations and affinity are never read, so there is nothing to model.
- The audit logger's mutex: a line is one step, and nothing else is shared.
- The pull policy: what `Resolve` finds is not used, `BuildContext` reads the
  parameter again, so the configured default never takes effect.
- Edits of the approval ConfigMap by hand, its size limit, and Jobs deleted by
  operators: the first two are hazards without a property.
- What the pod mounts for a script path after the check.

Worth doing next: Jobs deleted in the background in `Executions` (where
`RunsOneAtATime` would need the assumption), and several replicas of `Lifecycle`
behind one Service.
