------------------------------ MODULE JobSpec ------------------------------
(***************************************************************************)
(* What Job a request becomes: BuildContext, JobBuilder.Build and the      *)
(* creation of the Job in Manager.Execute, for one request under a loaded  *)
(* configuration.                                                          *)
(*                                                                         *)
(* Parameters are read through getString and getInt: a field that is       *)
(* absent, null, empty or of another kind reads as None, or as 0.  Numbers *)
(* are converted to int32 by dropping high bits, and sums of durations     *)
(* wrap in 64.  A quantity that does not parse panics (MustParse).  What   *)
(* only the container sees (interpreter, arguments, labels, node selector, *)
(* security context) is passed on unread and left out.                     *)
(***************************************************************************)
EXTENDS Settings, Sequences

CONSTANTS
    Vars,       \* names of environment variables
    Sources,    \* names of Secrets and ConfigMaps
    Paths,      \* mount paths a request may ask for
    Half,       \* 2^31: int32 is -Half .. Half - 1
    Long,       \* 292 years: durations, of 64 bits, are -Long .. Long - 1
    SomeFiles,  \* the configuration files and environments of interest
    SomeEnvironments,
    SomeRequests  \* the requests of interest

ASSUME HalfAssumption == Half \in Nat /\ Half > 300 /\ Long \in Nat /\ Long > 330000
ASSUME PathsAssumption == {"/workspace", "/tmp", "/scripts"} \subseteq Paths /\ None \notin Paths

Duration == {d \in Int : -Long <= d /\ d < Long}
Volume == [source : Sources, path : Paths]
Quantity == Nat \union {None, Bad}

(* A reference to a key of a Secret or ConfigMap may lack the name or key. *)
References == [Vars -> {"none", "incomplete", "complete"}]

Request == [timeout : Duration \union {None, Bad},  \* parameter "timeout"
            limit : Duration \union {None},         \* ExecuteRequest.timeout
            ttl : Int, backoff : Int,
            byPath : BOOLEAN,                       \* the script is a script_path
            requests : [cpu : Quantity, memory : Quantity],
            limits : [cpu : Quantity, memory : Quantity, storage : Quantity],
            env : SUBSET Vars,
            fromSecret : References, fromConfigMap : References,
            secretVolumes : Seq(Volume), configVolumes : Seq(Volume)]

ASSUME InputsAssumption ==
    /\ SomeFiles \subseteq Files \union {None}
    /\ SomeEnvironments \subseteq Environments
    /\ SomeRequests \subseteq Request

-----------------------------------------------------------------------------
(* BuildContext.                                                           *)

(* An integer kept in as many bits as hold -half .. half - 1. *)
Wrap(n, half) == ((n + half) % (2 * half)) - half

(* Conversion of an int to int32. *)
Int32(n) == Wrap(n, Half)

(* The timeout parameter; the zero duration means the default. *)
TimeoutOf(req, cfg) ==
    LET given == Or(req.timeout, cfg.timeout)
    IN  OrInt(given, DefaultTimeout(cfg))

TTLOf(req, cfg) == IF req.ttl > 0 THEN Int32(req.ttl) ELSE Int32(cfg.ttl)

Uncapped(req, cfg) ==      \* a variant of BackoffOf: the cap is forgotten
    IF req.backoff >= 0 THEN Int32(req.backoff) ELSE Int32(cfg.backoff)
BackoffOf(req, cfg) ==
    LET given == Int32(req.backoff)
    IN  IF req.backoff < 0 THEN Int32(cfg.backoff)
        ELSE IF given > 3 THEN 3 ELSE given

Cap(limit, max) ==
    IF max # None /\ limit # None /\ limit > max THEN max ELSE limit

(* buildResources: defaults, then the request, then the caps. *)
RequestsOf(req, cfg) ==
    [cpu |-> Or(req.requests.cpu, cfg.requests.cpu),
     memory |-> Or(req.requests.memory, cfg.requests.memory)]

CappedFirst(req, cfg) ==   \* a variant of LimitsOf: the request comes after the caps
    [cpu |-> Or(req.limits.cpu, Cap(cfg.limits.cpu, cfg.max.cpu)),
     memory |-> Or(req.limits.memory, Cap(cfg.limits.memory, cfg.max.memory)),
     storage |-> Or(req.limits.storage, cfg.limits.storage)]
LimitsOf(req, cfg) ==
    [cpu |-> Cap(Or(req.limits.cpu, cfg.limits.cpu), cfg.max.cpu),
     memory |-> Cap(Or(req.limits.memory, cfg.limits.memory), cfg.max.memory),
     storage |-> Or(req.limits.storage, cfg.limits.storage)]

(* Quantities on which MustParse panics. *)
BadLimit(req) ==           \* a variant of Malformed: requests are not parsed
    Bad \in {req.limits.cpu, req.limits.memory, req.limits.storage}
Malformed(req) ==
    Bad \in {req.requests.cpu, req.requests.memory,
             req.limits.cpu, req.limits.memory, req.limits.storage}

ContextOf(req, cfg) ==
    [timeout |-> TimeoutOf(req, cfg), ttl |-> TTLOf(req, cfg),
     backoff |-> BackoffOf(req, cfg), account |-> cfg.account,
     byPath |-> req.byPath, requests |-> RequestsOf(req, cfg), limits |-> LimitsOf(req, cfg),
     env |-> req.env, fromSecret |-> req.fromSecret, fromConfigMap |-> req.fromConfigMap,
     secretVolumes |-> req.secretVolumes, configVolumes |-> req.configVolumes]

Context == [timeout : Int, ttl : Int, backoff : Int, account : Names, byPath : BOOLEAN,
            requests : Amounts, limits : Limits, env : SUBSET Vars,
            fromSecret : References, fromConfigMap : References,
            secretVolumes : Seq(Volume), configVolumes : Seq(Volume)]

-----------------------------------------------------------------------------
(* JobBuilder.Build.                                                       *)

(* Go truncates towards zero. *)
Seconds(ms) == IF ms >= 0 THEN ms \div 1000 ELSE -((-ms) \div 1000)

(* The container's variables: literals, then Secret keys, then ConfigMap   *)
(* keys, of which the last with a name counts.  Incomplete references are  *)
(* skipped.                                                                *)
Unskipped(ctx) ==          \* a variant of EnvVars
    <<ctx.env, {n \in Vars : ctx.fromSecret[n] # "none"},
               {n \in Vars : ctx.fromConfigMap[n] # "none"}>>
EnvVars(ctx) ==
    <<ctx.env, {n \in Vars : ctx.fromSecret[n] = "complete"},
               {n \in Vars : ctx.fromConfigMap[n] = "complete"}>>

(* Volumes and mounts are numbered per kind, each list on its own. *)
Numbered(kind, volumes) ==
    [i \in DOMAIN volumes |-> [name |-> <<kind, i>>, source |-> volumes[i].source]]
NumberedMounts(kind, volumes) ==
    [i \in DOMAIN volumes |-> [name |-> <<kind, i>>, path |-> volumes[i].path]]

OneNumbering(ctx) ==       \* a variant of Volumes: both kinds share the numbers
    <<[name |-> <<"workspace", 0>>, source |-> None], [name |-> <<"tmp", 0>>, source |-> None]>>
    \o (IF ctx.byPath THEN <<[name |-> <<"scripts", 0>>, source |-> None]>> ELSE <<>>)
    \o Numbered("secret", ctx.secretVolumes \o ctx.configVolumes)
Volumes(ctx) ==
    <<[name |-> <<"workspace", 0>>, source |-> None], [name |-> <<"tmp", 0>>, source |-> None]>>
    \o (IF ctx.byPath THEN <<[name |-> <<"scripts", 0>>, source |-> None]>> ELSE <<>>)
    \o Numbered("secret", ctx.secretVolumes)
    \o Numbered("configmap", ctx.configVolumes)

Mounts(ctx) ==
    <<[name |-> <<"workspace", 0>>, path |-> "/workspace"],
      [name |-> <<"tmp", 0>>, path |-> "/tmp"]>>
    \o (IF ctx.byPath THEN <<[name |-> <<"scripts", 0>>, path |-> "/scripts"]>> ELSE <<>>)
    \o NumberedMounts("secret", ctx.secretVolumes)
    \o NumberedMounts("configmap", ctx.configVolumes)

JobOf(ctx, cfg) ==
    [namespace |-> cfg.namespace, account |-> ctx.account,
     backoff |-> ctx.backoff, ttl |-> ctx.ttl, deadline |-> Seconds(ctx.timeout),
     requests |-> ctx.requests, limits |-> ctx.limits,
     workspace |-> Or(ctx.limits.storage, 1024),
     env |-> EnvVars(ctx), volumes |-> Volumes(ctx), mounts |-> Mounts(ctx)]

Kinds == {"workspace", "tmp", "scripts", "secret", "configmap"}
Job == [namespace : Names, account : Names, backoff : Int, ttl : Int, deadline : Int,
        requests : Amounts, limits : Limits, workspace : Nat,
        env : Seq(SUBSET Vars),
        volumes : Seq([name : Kinds \X Nat, source : Sources \union {None}]),
        mounts : Seq([name : Kinds \X Nat, path : Paths])]

(* What the API server demands of a Job. *)
AtMost(request, limit) == request # None /\ limit # None => request <= limit
Accepted(job) ==
    /\ job.backoff >= 0 /\ job.ttl >= 0 /\ job.deadline >= 0
    /\ AtMost(job.requests.cpu, job.limits.cpu)
    /\ AtMost(job.requests.memory, job.limits.memory)
    /\ \A i, j \in DOMAIN job.mounts :
          job.mounts[i].path = job.mounts[j].path => i = j

(* The time Wait is given: the call's limit before the context's timeout,  *)
(* and half a minute more, which may wrap.                                 *)
WithoutGrace(req, ctx) ==  \* a variant of WaitTime
    IF req.limit # None /\ req.limit > 0 THEN req.limit ELSE ctx.timeout
WaitTime(req, ctx) ==
    Wrap((IF req.limit # None /\ req.limit > 0 THEN req.limit ELSE ctx.timeout) + 30000, Long)

-----------------------------------------------------------------------------
(* One request.  stage is where Execute stands with it:                    *)
(*   request  about to build the context   job      about to build the Job *)
(*   create   about to create the Job      wait     created, about to wait *)
(*   failed   answered with an error       panicked the process is gone    *)
VARIABLES
    given,    \* the configuration file and environment the process started with
    cfg,      \* the configuration loaded from them
    req,      \* the request
    ctx,      \* the execution context
    job,      \* the Job
    wait,     \* the time Wait is given, in milliseconds
    stage

vars == <<given, cfg, req, ctx, job, wait, stage>>

TypeOK ==
    /\ given \in [file : Files \union {None}, env : Environments]
    /\ cfg \in Config
    /\ req \in Request
    /\ ctx \in Context \union {None}
    /\ job \in Job \union {None}
    /\ wait \in Int
    /\ stage \in {"request", "job", "create", "wait", "failed", "panicked"}

Init ==
    /\ \E file \in SomeFiles, env \in SomeEnvironments :
          /\ given = [file |-> file, env |-> env]
          /\ cfg = Load(file, env)
    /\ req \in SomeRequests
    /\ ctx = None /\ job = None /\ wait = 0
    /\ stage = "request"

(* The timeout is looked at before the quantities. *)
ContextFails ==
    /\ stage = "request"
    /\ req.timeout = Bad
    /\ stage' = "failed"
    /\ UNCHANGED <<given, cfg, req, ctx, job, wait>>

Panic ==
    /\ stage = "request"
    /\ req.timeout # Bad /\ Malformed(req)
    /\ stage' = "panicked"
    /\ UNCHANGED <<given, cfg, req, ctx, job, wait>>

BuildContext ==
    /\ stage = "request"
    /\ req.timeout # Bad /\ ~Malformed(req)
    /\ ctx' = ContextOf(req, cfg)
    /\ stage' = "job"
    /\ UNCHANGED <<given, cfg, req, job, wait>>

Build ==
    /\ stage = "job"
    /\ job' = JobOf(ctx, cfg)
    /\ stage' = "create"
    /\ UNCHANGED <<given, cfg, req, ctx, wait>>

CreateJob ==
    /\ stage = "create"
    /\ Accepted(job)
    /\ wait' = WaitTime(req, ctx)
    /\ stage' = "wait"
    /\ UNCHANGED <<given, cfg, req, ctx, job>>

CreateFails ==      \* the API server refuses the Job
    /\ stage = "create"
    /\ ~Accepted(job)
    /\ stage' = "failed"
    /\ UNCHANGED <<given, cfg, req, ctx, job, wait>>

Next == ContextFails \/ Panic \/ BuildContext \/ Build \/ CreateJob \/ CreateFails

Spec == Init /\ [][Next]_vars

-----------------------------------------------------------------------------
Created == stage = "wait"

(* A Job that was created never uses more CPU or memory than the           *)
(* configured maximum, neither as a limit nor as a request: the caps are   *)
(* on the limits alone, and come after what the request asks for           *)
(* (buildResources).                                                       *)
ResourcesBounded ==
    Created => /\ job.limits.cpu <= cfg.max.cpu /\ job.limits.memory <= cfg.max.memory
               /\ job.requests.cpu <= cfg.max.cpu /\ job.requests.memory <= cfg.max.memory

(* Whatever number the caller wrote, and however it wraps in 32 bits, a    *)
(* Job that was created is retried at most three times, or, for a negative *)
(* number, as often as the operator configured (BuildContext).             *)
RetriesBounded ==
    Created => /\ job.backoff >= 0
               /\ req.backoff >= 0 => job.backoff <= 3
               /\ req.backoff < 0 /\ cfg.backoff < Half /\ cfg.backoff >= -Half =>
                     job.backoff = cfg.backoff
               /\ req.backoff \in 0 .. 3 => job.backoff = req.backoff

(* A Job that was created ends by itself at the timeout asked for, to the  *)
(* second and never later; and unless the call brings a limit of its own,  *)
(* Wait is then still waiting and sees it end (Build, Execute) - but for   *)
(* the timeouts of 292 years to which half a minute cannot be added.       *)
DeadlineWithinWait ==
    Created => /\ ctx.timeout >= 0 => 1000 * job.deadline <= ctx.timeout
               /\ ctx.timeout < 1000 * (job.deadline + 1)
               /\ (req.limit = None \/ req.limit <= 0) /\ ctx.timeout + 30000 < Long =>
                     wait > 1000 * job.deadline + 29000

(* Every volume a request asks for is there under one name and is mounted  *)
(* at its own path, and every mount has its volume: two lists that are     *)
(* built and numbered apart agree (buildVolumes, buildVolumeMounts).       *)
VolumesMounted ==
    job # None =>
        /\ \A i, j \in DOMAIN job.volumes :
              job.volumes[i].name = job.volumes[j].name => i = j
        /\ {job.mounts[i].name : i \in DOMAIN job.mounts}
              = {job.volumes[i].name : i \in DOMAIN job.volumes}
        /\ \A v \in DOMAIN req.configVolumes : \E i \in DOMAIN job.volumes, j \in DOMAIN job.mounts :
              /\ job.volumes[i].name = job.mounts[j].name
              /\ job.volumes[i].name[1] = "configmap"
              /\ job.volumes[i].source = req.configVolumes[v].source
              /\ job.mounts[j].path = req.configVolumes[v].path
        /\ \A v \in DOMAIN req.secretVolumes : \E i \in DOMAIN job.volumes, j \in DOMAIN job.mounts :
              /\ job.volumes[i].name = job.mounts[j].name
              /\ job.volumes[i].name[1] = "secret"
              /\ job.volumes[i].source = req.secretVolumes[v].source
              /\ job.mounts[j].path = req.secretVolumes[v].path

(* Where the value of variable n comes from in the container: the last     *)
(* group that has it, or 0.                                                *)
Group(n) == IF n \in job.env[3] THEN 3 ELSE IF n \in job.env[2] THEN 2
            ELSE IF n \in job.env[1] THEN 1 ELSE 0

(* A variable takes its value from a complete reference or from the        *)
(* literal, and an incomplete reference does not hide what else the        *)
(* request gives for the same name (BuildContext, buildEnvVars).           *)
EnvResolved ==
    job # None => \A n \in Vars :
        /\ Group(n) = 3 => req.fromConfigMap[n] = "complete"
        /\ Group(n) = 2 => req.fromSecret[n] = "complete"
        /\ Group(n) = 0 => /\ n \notin req.env
                           /\ req.fromSecret[n] # "complete"
                           /\ req.fromConfigMap[n] # "complete"

(* Namespace, service account and TTL reach the Job as configured: the     *)
(* namespace from the environment before the file, all three from the file *)
(* before the defaults, which what the file leaves out keeps (Load,        *)
(* mergeConfig, applyEnvOverrides, BuildContext).                          *)
SettingsReachJob ==
    Created =>
        LET file == given.file
            env == given.env
        IN  /\ env.KUBERNETES_NAMESPACE # None => job.namespace = env.KUBERNETES_NAMESPACE
            /\ env.KUBERNETES_NAMESPACE = None /\ file # None =>
                  job.namespace = Or(file.namespace, "opscontrolroom-system")
            /\ file # None => job.account = Or(file.account, "script-executor-runner")
            /\ req.ttl <= 0 =>
                  job.ttl = IF file = None THEN 300 ELSE Int32(OrInt(file.ttl, 300))

=============================================================================
