---------------------------- MODULE JobSpecProofs ----------------------------
(***************************************************************************)
(* Bounds on the Jobs that are created, for every configuration file,      *)
(* environment and request, and for integers of every width.               *)
(***************************************************************************)
EXTENDS JobSpec, SequenceTheorems, TLAPS

(* Wrapping changes only what does not fit.                                *)
LEMMA WrapType ==
    ASSUME NEW n \in Int, NEW half \in Nat, half > 0
    PROVE  Wrap(n, half) \in Int
  BY DEF Wrap

LEMMA WrapFits ==
    ASSUME NEW n \in Int, NEW half \in Nat, half > 0, n < half, n >= -half
    PROVE  Wrap(n, half) = n
  <1>1. \A a \in Int, b \in Int : 0 <= a /\ a < b => a % b = a
    OBVIOUS
  <1>2. (n + half) % (2 * half) = n + half
    BY <1>1
  <1>3. QED
    BY <1>2 DEF Wrap

LEMMA Int32Type == ASSUME NEW n \in Int PROVE Int32(n) \in Int
  BY WrapType, HalfAssumption DEF Int32

LEMMA Int32Fits ==
    ASSUME NEW n \in Int, n < Half, n >= -Half
    PROVE  Int32(n) = n
  BY WrapFits, HalfAssumption DEF Int32

-----------------------------------------------------------------------------
(* The configuration: what no file and no variable can change.             *)

LEMMA LoadType ==
    ASSUME NEW file \in Files \union {None}, NEW env \in Environments
    PROVE  Load(file, env) \in Config
  <1>1. \A v, d : Or(v, d) = v \/ Or(v, d) = d
    BY DEF Or
  <1>2. Default(env) \in Config
    BY NamesAssumption DEF Default, Config, Amounts, Limits, Environments, Or
  <1>3. ASSUME file # None PROVE Merge(Default(env), file) \in Config
    BY <1>2, <1>3 DEF Merge, Config, Files, Or, OrInt
  <1>4. \A c \in Config : Override(c, env) \in Config
    BY DEF Override, Config, Environments, Or
  <1>5. QED
    BY <1>2, <1>3, <1>4 DEF Load

LEMMA LoadFacts ==
    ASSUME NEW file \in Files \union {None}, NEW env \in Environments
    PROVE  LET c == Load(file, env)
           IN  /\ c.timeout = 300000
               /\ c.requests = [cpu |-> 100, memory |-> 64]
               /\ c.limits = [cpu |-> 500, memory |-> 256, storage |-> 1024]
               /\ c.max = [cpu |-> 4000, memory |-> 8192, storage |-> 20480]
               /\ env.KUBERNETES_NAMESPACE # None => c.namespace = env.KUBERNETES_NAMESPACE
               /\ env.KUBERNETES_NAMESPACE = None /\ file # None =>
                     c.namespace = Or(file.namespace, "opscontrolroom-system")
               /\ file # None => c.account = Or(file.account, "script-executor-runner")
               /\ c.ttl = IF file = None THEN 300 ELSE OrInt(file.ttl, 300)
  <1> DEFINE d == Default(env)
  <1>1. /\ d.timeout = 300000
        /\ d.requests = [cpu |-> 100, memory |-> 64]
        /\ d.limits = [cpu |-> 500, memory |-> 256, storage |-> 1024]
        /\ d.max = [cpu |-> 4000, memory |-> 8192, storage |-> 20480]
        /\ d.namespace = Or(env.KUBERNETES_NAMESPACE, "opscontrolroom-system")
        /\ d.account = "script-executor-runner"
        /\ d.ttl = 300
        /\ d \in Config
    BY NamesAssumption DEF Default, Config, Amounts, Limits, Environments, Or
  <1> DEFINE m == IF file = None THEN d ELSE Merge(d, file)
  <1> HIDE DEF d
  <1>2. /\ m.timeout = d.timeout /\ m.requests = d.requests /\ m.limits = d.limits
        /\ m.max = d.max
        /\ m.namespace = IF file = None THEN d.namespace ELSE Or(file.namespace, d.namespace)
        /\ m.account = IF file = None THEN d.account ELSE Or(file.account, d.account)
        /\ m.ttl = IF file = None THEN d.ttl ELSE OrInt(file.ttl, d.ttl)
        /\ m \in Config
    <2>1. CASE file = None
      BY <1>1, <2>1
    <2>2. CASE file # None
      BY <1>1, <2>2 DEF Merge, Config, Files, Or, OrInt
    <2>3. QED
      BY <2>1, <2>2
  <1>3. Load(file, env) = Override(m, env)
    BY DEF Load, d
  <1> HIDE DEF m
  <1>4. /\ Override(m, env).timeout = m.timeout /\ Override(m, env).requests = m.requests
        /\ Override(m, env).limits = m.limits /\ Override(m, env).max = m.max
        /\ Override(m, env).namespace = Or(env.KUBERNETES_NAMESPACE, m.namespace)
        /\ Override(m, env).account = m.account /\ Override(m, env).ttl = m.ttl
    BY <1>2 DEF Override, Config
  <1>5. QED
    BY <1>1, <1>2, <1>3, <1>4 DEF Or

-----------------------------------------------------------------------------
(* What has been computed so far is what it is computed from.              *)
Parses == req.timeout # Bad /\ ~Malformed(req)

SpecInv ==
    /\ given.file \in Files \union {None} /\ given.env \in Environments
    /\ given \in [file : Files \union {None}, env : Environments]
    /\ cfg = Load(given.file, given.env)
    /\ req \in Request
    /\ stage \in {"request", "job", "create", "wait", "failed", "panicked"}
    /\ ctx # None => Parses /\ ctx = ContextOf(req, cfg)
    /\ job # None => Parses /\ job = JobOf(ContextOf(req, cfg), cfg)
    /\ wait # 0 => wait = WaitTime(req, ContextOf(req, cfg)) /\ Parses
    /\ stage \in {"job", "create", "wait"} => Parses /\ ctx = ContextOf(req, cfg)
    /\ stage \in {"create", "wait"} => job = JobOf(ctx, cfg)
    /\ Created => Accepted(job) /\ wait = WaitTime(req, ctx)

LEMMA InitInv == Init => SpecInv
  <1> SUFFICES ASSUME Init PROVE SpecInv
    OBVIOUS
  <1>1. PICK file \in SomeFiles, env \in SomeEnvironments :
           given = [file |-> file, env |-> env] /\ cfg = Load(file, env)
    BY DEF Init
  <1>2. file \in Files \union {None} /\ env \in Environments
    BY InputsAssumption
  <1>3. req \in Request
    BY InputsAssumption DEF Init
  <1>4. QED
    BY <1>1, <1>2, <1>3 DEF Init, SpecInv, Created

LEMMA NextInv == SpecInv /\ [Next]_vars => SpecInv'
  <1> SUFFICES ASSUME SpecInv, [Next]_vars PROVE SpecInv'
    OBVIOUS
  <1> USE DEF SpecInv, Created, Parses
  <1>1. CASE ContextFails \/ Panic
    BY <1>1 DEF ContextFails, Panic
  <1>2. CASE BuildContext
    BY <1>2 DEF BuildContext
  <1>3. CASE Build
    BY <1>3 DEF Build
  <1>4. CASE CreateJob
    BY <1>4 DEF CreateJob
  <1>5. CASE CreateFails
    BY <1>5 DEF CreateFails
  <1>6. CASE UNCHANGED vars
    BY <1>6 DEF vars
  <1>7. QED
    BY <1>1, <1>2, <1>3, <1>4, <1>5, <1>6 DEF Next

LEMMA CfgFacts ==
    ASSUME SpecInv
    PROVE  /\ cfg \in Config
           /\ cfg.timeout = 300000
           /\ cfg.requests = [cpu |-> 100, memory |-> 64]
           /\ cfg.limits = [cpu |-> 500, memory |-> 256, storage |-> 1024]
           /\ cfg.max = [cpu |-> 4000, memory |-> 8192, storage |-> 20480]
  BY LoadType, LoadFacts DEF SpecInv

LEMMA TimeoutType ==
    ASSUME SpecInv, Parses
    PROVE  TimeoutOf(req, cfg) \in Int
  <1>1. req.timeout \in Int \union {None, Bad}
    BY DEF SpecInv, Request, Duration
  <1>2. QED
    BY <1>1, CfgFacts DEF Parses, TimeoutOf, Or, OrInt, DefaultTimeout

(* Limits are numbers, and those on CPU and memory are capped.             *)
LEMMA LimitFacts ==
    ASSUME SpecInv, Parses
    PROVE  /\ LimitsOf(req, cfg) \in [cpu : Nat, memory : Nat, storage : Nat]
           /\ LimitsOf(req, cfg).cpu <= 4000 /\ LimitsOf(req, cfg).memory <= 8192
  <1> DEFINE l == req.limits
  <1>1. /\ l.cpu \in Nat \union {None} /\ l.memory \in Nat \union {None}
        /\ l.storage \in Nat \union {None}
    BY DEF SpecInv, Parses, Malformed, Request, Quantity
  <1>2. /\ cfg.limits.cpu = 500 /\ cfg.limits.memory = 256 /\ cfg.limits.storage = 1024
        /\ cfg.max.cpu = 4000 /\ cfg.max.memory = 8192
    BY CfgFacts
  <1>3. LimitsOf(req, cfg) = [cpu |-> Cap(Or(l.cpu, 500), 4000),
                              memory |-> Cap(Or(l.memory, 256), 8192),
                              storage |-> Or(l.storage, 1024)]
    BY <1>2 DEF LimitsOf
  <1> HIDE DEF l
  <1>4. PICK c \in Nat, m \in Nat, s \in Nat :
           c = Or(l.cpu, 500) /\ m = Or(l.memory, 256) /\ s = Or(l.storage, 1024)
    BY <1>1 DEF Or
  <1>5. /\ Cap(c, 4000) \in Nat /\ Cap(c, 4000) <= 4000
        /\ Cap(m, 8192) \in Nat /\ Cap(m, 8192) <= 8192
    BY NamesAssumption DEF Cap
  <1>6. LimitsOf(req, cfg) = [cpu |-> Cap(c, 4000), memory |-> Cap(m, 8192), storage |-> s]
    BY <1>3, <1>4
  <1>7. QED
    BY <1>5, <1>6

LEMMA RequestFacts ==
    ASSUME SpecInv, Parses
    PROVE  RequestsOf(req, cfg) \in [cpu : Nat, memory : Nat]
  <1> DEFINE r == req.requests
  <1>1. r.cpu \in Nat \union {None} /\ r.memory \in Nat \union {None}
    BY DEF SpecInv, Parses, Malformed, Request, Quantity
  <1>2. cfg.requests.cpu = 100 /\ cfg.requests.memory = 64
    BY CfgFacts
  <1>3. RequestsOf(req, cfg) = [cpu |-> Or(r.cpu, 100), memory |-> Or(r.memory, 64)]
    BY <1>2 DEF RequestsOf
  <1>4. QED
    BY <1>1, <1>3 DEF Or

(* The fields of a Job that was created.                                   *)
LEMMA CreatedFacts ==
    ASSUME SpecInv, Created
    PROVE  /\ Parses /\ Accepted(job)
           /\ job.requests = RequestsOf(req, cfg) /\ job.limits = LimitsOf(req, cfg)
           /\ job.backoff = BackoffOf(req, cfg) /\ job.ttl = TTLOf(req, cfg)
           /\ ctx.timeout = TimeoutOf(req, cfg) /\ job.deadline = Seconds(ctx.timeout)
           /\ job.namespace = cfg.namespace /\ job.account = cfg.account
           /\ wait = WaitTime(req, ctx)
  BY DEF SpecInv, Created, ContextOf, JobOf

LEMMA InvResources == SpecInv => ResourcesBounded
  <1> SUFFICES ASSUME SpecInv, Created
               PROVE  /\ job.limits.cpu <= cfg.max.cpu /\ job.limits.memory <= cfg.max.memory
                      /\ job.requests.cpu <= cfg.max.cpu /\ job.requests.memory <= cfg.max.memory
    BY DEF ResourcesBounded
  <1>1. /\ job.limits \in [cpu : Nat, memory : Nat, storage : Nat]
        /\ job.limits.cpu <= 4000 /\ job.limits.memory <= 8192
        /\ job.requests \in [cpu : Nat, memory : Nat]
    BY CreatedFacts, LimitFacts, RequestFacts
  <1>2. job.requests.cpu <= job.limits.cpu /\ job.requests.memory <= job.limits.memory
    BY <1>1, CreatedFacts, NamesAssumption DEF Accepted, AtMost
  <1>3. cfg.max.cpu = 4000 /\ cfg.max.memory = 8192
    BY CfgFacts
  <1>4. QED
    BY <1>1, <1>2, <1>3

(* No Job uses more than the configured maximum (context_builder.go).      *)
THEOREM Resources == Spec => []ResourcesBounded
  BY InitInv, NextInv, InvResources, PTL DEF Spec

LEMMA InvRetries == SpecInv => RetriesBounded
  <1> SUFFICES ASSUME SpecInv, Created
               PROVE  /\ job.backoff >= 0
                      /\ req.backoff >= 0 => job.backoff <= 3
                      /\ req.backoff < 0 /\ cfg.backoff < Half /\ cfg.backoff >= -Half =>
                            job.backoff = cfg.backoff
                      /\ req.backoff \in 0 .. 3 => job.backoff = req.backoff
    BY DEF RetriesBounded
  <1>1. job.backoff >= 0 /\ job.backoff = BackoffOf(req, cfg)
    BY CreatedFacts DEF Accepted
  <1>2. req.backoff \in Int /\ cfg.backoff \in Int
    BY CfgFacts DEF SpecInv, Request, Config
  <1>3. req.backoff >= 0 => job.backoff <= 3
    BY <1>1, <1>2, Int32Type DEF BackoffOf
  <1>4. req.backoff \in 0 .. 3 => Int32(req.backoff) = req.backoff
    BY <1>2, Int32Fits, HalfAssumption
  <1>5. cfg.backoff < Half /\ cfg.backoff >= -Half => Int32(cfg.backoff) = cfg.backoff
    BY <1>2, Int32Fits
  <1>6. QED
    BY <1>1, <1>2, <1>3, <1>4, <1>5 DEF BackoffOf

(* No number the caller writes asks for more than three retries            *)
(* (context_builder.go).                                                   *)
THEOREM Retries == Spec => []RetriesBounded
  BY InitInv, NextInv, InvRetries, PTL DEF Spec

LEMMA InvDeadline == SpecInv => DeadlineWithinWait
  <1> SUFFICES ASSUME SpecInv, Created
               PROVE  /\ ctx.timeout >= 0 => 1000 * job.deadline <= ctx.timeout
                      /\ ctx.timeout < 1000 * (job.deadline + 1)
                      /\ (req.limit = None \/ req.limit <= 0) /\ ctx.timeout + 30000 < Long =>
                            wait > 1000 * job.deadline + 29000
    BY DEF DeadlineWithinWait
  <1>1. ctx.timeout \in Int /\ job.deadline = Seconds(ctx.timeout) /\ job.deadline >= 0
    BY CreatedFacts, TimeoutType DEF Accepted
  <1>2. ASSUME NEW n \in Nat PROVE 1000 * (n \div 1000) <= n /\ n < 1000 * ((n \div 1000) + 1)
    OBVIOUS
  <1>3. /\ ctx.timeout >= 0 => /\ 1000 * job.deadline <= ctx.timeout
                               /\ ctx.timeout < 1000 * (job.deadline + 1)
        /\ ctx.timeout < 0 => job.deadline = 0 /\ ctx.timeout > -1000
    <2>1. CASE ctx.timeout >= 0
      BY <1>1, <1>2, <2>1 DEF Seconds
    <2>2. CASE ctx.timeout < 0
      <3>1. PICK n \in Nat : n = -ctx.timeout
        BY <1>1, <2>2
      <3>2. job.deadline = -(n \div 1000) /\ n \div 1000 \in Nat
        BY <1>1, <2>2, <3>1 DEF Seconds
      <3>3. n \div 1000 = 0
        BY <1>1, <3>2
      <3>4. n < 1000
        BY <1>2, <3>3
      <3>5. QED
        BY <1>1, <2>2, <3>1, <3>2, <3>3, <3>4
    <2>3. QED
      BY <1>1, <2>1, <2>2
  <1>4. ASSUME req.limit = None \/ req.limit <= 0, ctx.timeout + 30000 < Long
        PROVE  wait = ctx.timeout + 30000
    <2>1. wait = Wrap(ctx.timeout + 30000, Long)
      <3>1. req.limit \in Int \union {None}
        BY DEF SpecInv, Request, Duration
      <3>2. ~ (req.limit # None /\ req.limit > 0)
        BY <1>4, <3>1
      <3>3. QED
        BY <3>2, CreatedFacts DEF WaitTime
    <2>2. ctx.timeout + 30000 \in Int /\ ctx.timeout + 30000 >= -Long
      BY <1>1, <1>3, HalfAssumption
    <2>3. QED
      BY <1>4, <2>1, <2>2, WrapFits, HalfAssumption
  <1>5. ASSUME req.limit = None \/ req.limit <= 0, ctx.timeout + 30000 < Long
        PROVE  wait > 1000 * job.deadline + 29000
    <2>1. PICK n \in Int, m \in Int : n = ctx.timeout /\ m = job.deadline
      BY <1>1 DEF Seconds
    <2>2. 1000 * m <= n \/ (m = 0 /\ n > -1000)
      BY <1>3, <2>1
    <2>3. n + 30000 > 1000 * m + 29000
      BY <2>2
    <2>4. QED
      BY <1>4, <1>5, <2>1, <2>3
  <1>6. ctx.timeout < 1000 * (job.deadline + 1)
    BY <1>1, <1>3
  <1>7. QED
    BY <1>3, <1>5, <1>6

(* A Job ends by its deadline while the call still waits (job_builder.go,  *)
(* manager.go).                                                            *)
THEOREM Deadline == Spec => []DeadlineWithinWait
  BY InitInv, NextInv, InvDeadline, PTL DEF Spec

LEMMA InvSettings == SpecInv => SettingsReachJob
  <1> SUFFICES ASSUME SpecInv, Created PROVE SettingsReachJob
    BY DEF SettingsReachJob
  <1>1. req.ttl \in Int /\ given.file \in Files \union {None}
    BY DEF SpecInv, Request
  <1>2. job.namespace = cfg.namespace /\ job.account = cfg.account
        /\ (req.ttl <= 0 => job.ttl = Int32(cfg.ttl))
    BY <1>1, CreatedFacts DEF TTLOf
  <1>3. Int32(300) = 300
    BY Int32Fits, HalfAssumption
  <1>4. QED
    BY <1>2, <1>3, LoadFacts DEF SettingsReachJob, SpecInv

(* The operator's settings reach the Job, the environment's first          *)
(* (config.go, context_builder.go).                                        *)
THEOREM SettingsReach == Spec => []SettingsReachJob
  BY InitInv, NextInv, InvSettings, PTL DEF Spec

LEMMA InvEnv == SpecInv => EnvResolved
  <1> SUFFICES ASSUME SpecInv, job # None, NEW n \in Vars
               PROVE  /\ Group(n) = 3 => req.fromConfigMap[n] = "complete"
                      /\ Group(n) = 2 => req.fromSecret[n] = "complete"
                      /\ Group(n) = 0 => /\ n \notin req.env
                                         /\ req.fromSecret[n] # "complete"
                                         /\ req.fromConfigMap[n] # "complete"
    BY DEF EnvResolved
  <1>1. job.env = <<req.env, {m \in Vars : req.fromSecret[m] = "complete"},
                             {m \in Vars : req.fromConfigMap[m] = "complete"}>>
    BY DEF SpecInv, JobOf, ContextOf, EnvVars
  <1>2. /\ job.env[1] = req.env
        /\ job.env[2] = {m \in Vars : req.fromSecret[m] = "complete"}
        /\ job.env[3] = {m \in Vars : req.fromConfigMap[m] = "complete"}
    BY <1>1
  <1>3. QED
    BY <1>2 DEF Group

(* An incomplete reference hides nothing (job_builder.go).                 *)
THEOREM Env == Spec => []EnvResolved
  BY InitInv, NextInv, InvEnv, PTL DEF Spec

-----------------------------------------------------------------------------
(* Volumes and mounts.  Both lists have the layout a, b, B, S, C: the two  *)
(* that every Job has, the scripts, the Secrets and the ConfigMaps.        *)

List(a, b, B, S, C) == <<a, b>> \o B \o S \o C

Laid(v, a, b, B, S, C) ==
    /\ Len(v) = 2 + Len(B) + Len(S) + Len(C)
    /\ v[1] = a /\ v[2] = b
    /\ \A i \in 1 .. Len(B) : v[2 + i] = B[i]
    /\ \A i \in 1 .. Len(S) : v[2 + Len(B) + i] = S[i]
    /\ \A i \in 1 .. Len(C) : v[2 + Len(B) + Len(S) + i] = C[i]

LEMMA Layout ==
    ASSUME NEW E, NEW a \in E, NEW b \in E, NEW B \in Seq(E), NEW S \in Seq(E), NEW C \in Seq(E)
    PROVE  /\ List(a, b, B, S, C) \in Seq(E)
           /\ Laid(List(a, b, B, S, C), a, b, B, S, C)
  <1>0. PICK v : v = List(a, b, B, S, C)
    OBVIOUS
  <1>1. ASSUME NEW s \in Seq(E), NEW r \in Seq(E), NEW u, u = s \o r
        PROVE  /\ u \in Seq(E) /\ Len(u) = Len(s) + Len(r)
               /\ \A i \in 1 .. Len(u) : u[i] = IF i <= Len(s) THEN s[i] ELSE r[i - Len(s)]
    BY <1>1, ConcatProperties
  <1>2. PICK A : A = <<a, b>> /\ A \in Seq(E) /\ Len(A) = 2 /\ A[1] = a /\ A[2] = b
    <2>1. /\ <<a, b>> \in Seq(E) /\ Len(<<a, b>>) = 2
          /\ <<a, b>>[1] = a /\ <<a, b>>[2] = b
      OBVIOUS
    <2>2. QED
      BY <2>1
  <1>3. PICK T, U : T = A \o B /\ U = T \o S
    OBVIOUS
  <1>4. v = U \o C
    BY <1>0, <1>2, <1>3 DEF List
  <1>5. T \in Seq(E) /\ U \in Seq(E)
    BY <1>1, <1>2, <1>3
  <1>6. /\ Len(T) = 2 + Len(B)
        /\ \A i \in 1 .. Len(T) : T[i] = IF i <= 2 THEN A[i] ELSE B[i - 2]
    BY <1>1, <1>2, <1>3
  <1>7. /\ Len(U) = Len(T) + Len(S)
        /\ \A i \in 1 .. Len(U) : U[i] = IF i <= Len(T) THEN T[i] ELSE S[i - Len(T)]
    BY <1>1, <1>3, <1>5
  <1>8. /\ v \in Seq(E) /\ Len(v) = Len(U) + Len(C)
        /\ \A i \in 1 .. Len(v) : v[i] = IF i <= Len(U) THEN U[i] ELSE C[i - Len(U)]
    BY <1>1, <1>4, <1>5
  <1>9. Len(B) \in Nat /\ Len(S) \in Nat /\ Len(C) \in Nat
    BY LenProperties
  <1>10. v[1] = a /\ v[2] = b
    BY <1>2, <1>6, <1>7, <1>8, <1>9
  <1>11. ASSUME NEW i \in 1 .. Len(B) PROVE v[2 + i] = B[i]
    <2>1. PICK j \in Int : j = 2 + i
      OBVIOUS
    <2>2. j \in 1 .. Len(T) /\ ~(j <= 2) /\ j - 2 = i
      BY <1>6, <1>9, <2>1
    <2>3. T[j] = B[i]
      BY <1>6, <2>2
    <2>4. j \in 1 .. Len(U) /\ j \in 1 .. Len(v) /\ j <= Len(T) /\ j <= Len(U)
      BY <1>6, <1>7, <1>8, <1>9, <2>2
    <2>5. QED
      BY <1>7, <1>8, <2>1, <2>3, <2>4
  <1>12. ASSUME NEW i \in 1 .. Len(S) PROVE v[2 + Len(B) + i] = S[i]
    BY <1>6, <1>7, <1>8, <1>9
  <1>13. ASSUME NEW i \in 1 .. Len(C) PROVE v[2 + Len(B) + Len(S) + i] = C[i]
    <2>1. Len(U) = 2 + Len(B) + Len(S) /\ Len(U) \in Nat
      BY <1>6, <1>7, <1>9
    <2>2. PICK j \in Int : j = Len(U) + i
      BY <2>1
    <2>3. j \in 1 .. Len(v) /\ ~(j <= Len(U)) /\ j - Len(U) = i
      BY <1>8, <1>9, <2>1, <2>2
    <2>4. v[j] = C[i]
      BY <1>8, <2>3
    <2>5. QED
      BY <2>1, <2>2, <2>4
  <1>14. Len(v) = 2 + Len(B) + Len(S) + Len(C)
    BY <1>6, <1>7, <1>8
  <1>15. Laid(v, a, b, B, S, C)
    BY <1>10, <1>11, <1>12, <1>13, <1>14 DEF Laid
  <1>16. QED
    BY <1>0, <1>8, <1>15

(* The two sets of records that volumes and mounts are taken from.         *)
VolumeRecord == [name : Kinds \X Nat, source : Sources \union {None}]
MountRecord == [name : Kinds \X Nat, path : Paths]
Scripts(byPath) == IF byPath THEN 1 ELSE 0

(* The record at each place of the two lists.                              *)
LEMMA NumberedFacts ==
    ASSUME NEW kind \in Kinds, NEW s \in Seq(Volume)
    PROVE  /\ Numbered(kind, s) \in Seq(VolumeRecord) /\ Len(Numbered(kind, s)) = Len(s)
           /\ NumberedMounts(kind, s) \in Seq(MountRecord)
           /\ Len(NumberedMounts(kind, s)) = Len(s)
           /\ \A i \in 1 .. Len(s) :
                 /\ Numbered(kind, s)[i] = [name |-> <<kind, i>>, source |-> s[i].source]
                 /\ NumberedMounts(kind, s)[i] = [name |-> <<kind, i>>, path |-> s[i].path]
  <1>1. Len(s) \in Nat /\ DOMAIN s = 1 .. Len(s)
    BY LenProperties
  <1>2. \A i \in 1 .. Len(s) : s[i] \in Volume
    BY ElementOfSeq
  <1>3. \A i \in 1 .. Len(s) :
           /\ [name |-> <<kind, i>>, source |-> s[i].source] \in VolumeRecord
           /\ [name |-> <<kind, i>>, path |-> s[i].path] \in MountRecord
    BY <1>1, <1>2 DEF Volume, VolumeRecord, MountRecord
  <1>4. /\ Numbered(kind, s) = [i \in 1 .. Len(s) |-> [name |-> <<kind, i>>, source |-> s[i].source]]
        /\ NumberedMounts(kind, s) = [i \in 1 .. Len(s) |-> [name |-> <<kind, i>>, path |-> s[i].path]]
    BY <1>1 DEF Numbered, NumberedMounts
  <1>5. /\ Numbered(kind, s) \in [1 .. Len(s) -> VolumeRecord]
        /\ NumberedMounts(kind, s) \in [1 .. Len(s) -> MountRecord]
    BY <1>3, <1>4
  <1>6. \A E : \A f \in [1 .. Len(s) -> E] : f \in Seq(E) /\ Len(f) = Len(s)
    BY <1>1
  <1>7. QED
    BY <1>4, <1>5, <1>6

(* The name at each place: n places come before the Secrets, s are theirs. *)
PlaceName(i, n, s) ==
    IF i = 1 THEN <<"workspace", 0>> ELSE IF i = 2 THEN <<"tmp", 0>>
    ELSE IF i <= n THEN <<"scripts", 0>>
    ELSE IF i <= n + s THEN <<"secret", i - n>> ELSE <<"configmap", i - n - s>>

LEMMA PlaceNames ==
    ASSUME NEW n \in {2, 3}, NEW s \in Nat, NEW k \in Nat,
           NEW i \in 1 .. n + s + k, NEW j \in 1 .. n + s + k,
           PlaceName(i, n, s) = PlaceName(j, n, s)
    PROVE  i = j
  BY DEF PlaceName

LEMMA PlacesNamed ==
    ASSUME NEW n \in {2, 3}, NEW s \in Nat
    PROVE  /\ \A x \in 1 .. s : PlaceName(n + x, n, s) = <<"secret", x>>
           /\ \A x \in Nat \ {0} : PlaceName(n + s + x, n, s) = <<"configmap", x>>
  BY DEF PlaceName

(* If the parts are named and numbered as the builder does, the list has   *)
(* PlaceName at each place.                                                *)
NamedInGroups(v, n, s, k) ==
    /\ v[1].name = <<"workspace", 0>> /\ v[2].name = <<"tmp", 0>>
    /\ \A x \in 3 .. n : v[x].name = <<"scripts", 0>>
    /\ \A x \in 1 .. s : v[n + x].name = <<"secret", x>>
    /\ \A x \in 1 .. k : v[n + s + x].name = <<"configmap", x>>

LEMMA NamesAt ==
    ASSUME NEW v, NEW n \in {2, 3}, NEW s \in Nat, NEW k \in Nat,
           NamedInGroups(v, n, s, k), NEW i \in 1 .. n + s + k
    PROVE  v[i].name = PlaceName(i, n, s)
  <1>1. CASE i = 1
    BY <1>1 DEF PlaceName, NamedInGroups
  <1>2. CASE i = 2
    BY <1>2 DEF PlaceName, NamedInGroups
  <1>3. CASE i > 2 /\ i <= n
    <2>1. i \in 3 .. n /\ i # 1 /\ i # 2
      BY <1>3
    <2>2. QED
      BY <1>3, <2>1 DEF PlaceName, NamedInGroups
  <1>4. CASE i > n /\ i <= n + s
    <2>1. i - n \in 1 .. s /\ n + (i - n) = i /\ i # 1 /\ i # 2 /\ ~(i <= n)
      BY <1>4
    <2>2. v[n + (i - n)].name = <<"secret", i - n>>
      BY <2>1 DEF NamedInGroups
    <2>3. QED
      BY <1>4, <2>1, <2>2 DEF PlaceName
  <1>5. CASE i > n + s
    <2>1. /\ i - n - s \in 1 .. k /\ n + s + (i - n - s) = i
          /\ i # 1 /\ i # 2 /\ ~(i <= n) /\ ~(i <= n + s)
      BY <1>5
    <2>2. v[n + s + (i - n - s)].name = <<"configmap", i - n - s>>
      BY <2>1 DEF NamedInGroups
    <2>3. QED
      BY <2>1, <2>2 DEF PlaceName
  <1>6. i > 2 \/ i = 1 \/ i = 2
    OBVIOUS
  <1>7. QED
    BY <1>1, <1>2, <1>3, <1>4, <1>5, <1>6

LEMMA Optional ==
    ASSUME NEW E, NEW e \in E
    PROVE  /\ <<e>> \in Seq(E) /\ Len(<<e>>) = 1 /\ \A i \in 1 .. 1 : <<e>>[i] = e
           /\ <<>> \in Seq(E) /\ Len(<<>>) = 0
  <1>1. <<e>> \in Seq(E) /\ Len(<<e>>) = 1 /\ <<e>>[1] = e
    OBVIOUS
  <1>2. \A i \in 1 .. 1 : i = 1
    OBVIOUS
  <1>3. <<>> \in Seq(E) /\ Len(<<>>) = 0
    OBVIOUS
  <1>4. QED
    BY <1>1, <1>2, <1>3

(* The lists of a context, n places before the Secrets, s of them and k    *)
(* ConfigMaps.                                                             *)
Shape(c, n, s, k) ==
    /\ c.byPath \in BOOLEAN
    /\ c.secretVolumes \in Seq(Volume) /\ c.configVolumes \in Seq(Volume)
    /\ n = 2 + Scripts(c.byPath)
    /\ s = Len(c.secretVolumes) /\ k = Len(c.configVolumes)
    /\ n \in {2, 3} /\ s \in Nat /\ k \in Nat

LEMMA SomeShape ==
    ASSUME NEW c, c.byPath \in BOOLEAN,
           c.secretVolumes \in Seq(Volume), c.configVolumes \in Seq(Volume)
    PROVE  \E n, s, k : Shape(c, n, s, k)
  <1>1. Len(c.secretVolumes) \in Nat /\ Len(c.configVolumes) \in Nat
    BY LenProperties
  <1>2. 2 + Scripts(c.byPath) \in {2, 3}
    BY DEF Scripts
  <1>3. Shape(c, 2 + Scripts(c.byPath), Len(c.secretVolumes), Len(c.configVolumes))
    BY <1>1, <1>2 DEF Shape
  <1>4. QED
    BY <1>3

(* The volumes, then the mounts, of a Job.                                 *)
LEMMA VolumeFacts ==
    ASSUME NEW c, NEW n, NEW s, NEW k, Shape(c, n, s, k)
    PROVE  /\ Volumes(c) \in Seq(VolumeRecord) /\ Len(Volumes(c)) = n + s + k
           /\ \A i \in 1 .. n + s + k : Volumes(c)[i].name = PlaceName(i, n, s)
           /\ \A i \in 1 .. s : Volumes(c)[n + i].source = c.secretVolumes[i].source
           /\ \A i \in 1 .. k : Volumes(c)[n + s + i].source = c.configVolumes[i].source
  <1>1. /\ c.byPath \in BOOLEAN
        /\ c.secretVolumes \in Seq(Volume) /\ c.configVolumes \in Seq(Volume)
        /\ n = 2 + Scripts(c.byPath) /\ n \in {2, 3}
        /\ s = Len(c.secretVolumes) /\ s \in Nat
        /\ k = Len(c.configVolumes) /\ k \in Nat
    BY DEF Shape
  <1> DEFINE a == [name |-> <<"workspace", 0>>, source |-> None]
             b == [name |-> <<"tmp", 0>>, source |-> None]
             e == [name |-> <<"scripts", 0>>, source |-> None]
             B == IF c.byPath THEN <<e>> ELSE <<>>
             S == Numbered("secret", c.secretVolumes)
             C == Numbered("configmap", c.configVolumes)
             v == Volumes(c)
  <1>2. a \in VolumeRecord /\ b \in VolumeRecord /\ e \in VolumeRecord
    BY DEF VolumeRecord, Kinds
  <1>3. B \in Seq(VolumeRecord) /\ Len(B) = Scripts(c.byPath) /\ \A i \in 1 .. Len(B) : B[i] = e
    <2>1. /\ <<e>> \in Seq(VolumeRecord) /\ Len(<<e>>) = 1 /\ \A i \in 1 .. 1 : <<e>>[i] = e
          /\ <<>> \in Seq(VolumeRecord) /\ Len(<<>>) = 0
      <3> HIDE DEF e
      <3>1. QED
        BY <1>2, Optional
    <2>2. CASE c.byPath
      <3>1. B = <<e>> /\ Scripts(c.byPath) = 1
        BY <2>2 DEF Scripts
      <3> HIDE DEF e, B
      <3>2. QED
        BY <2>1, <3>1
    <2>3. CASE ~c.byPath
      <3>1. B = <<>> /\ Scripts(c.byPath) = 0
        BY <2>3 DEF Scripts
      <3> HIDE DEF e, B
      <3>2. QED
        BY <2>1, <3>1
    <2>4. QED
      BY <2>2, <2>3
  <1>4. /\ S \in Seq(VolumeRecord) /\ s = Len(S)
        /\ \A i \in 1 .. s : S[i] = [name |-> <<"secret", i>>, source |-> c.secretVolumes[i].source]
    BY <1>1, NumberedFacts DEF Kinds
  <1>5. /\ C \in Seq(VolumeRecord) /\ k = Len(C)
        /\ \A i \in 1 .. k : C[i] = [name |-> <<"configmap", i>>, source |-> c.configVolumes[i].source]
    BY <1>1, NumberedFacts DEF Kinds
  <1>6. v = List(a, b, B, S, C)
    BY DEF List, Volumes
  <1>7. a.name = <<"workspace", 0>> /\ b.name = <<"tmp", 0>> /\ e.name = <<"scripts", 0>>
    OBVIOUS
  <1> HIDE DEF a, b, e, B, S, C, v
  <1>8. n = 2 + Len(B) /\ n \in Nat
    BY <1>3, <1>1 DEF Scripts
  <1>9. /\ B \in Seq(VolumeRecord) /\ S \in Seq(VolumeRecord) /\ C \in Seq(VolumeRecord)
        /\ s = Len(S) /\ k = Len(C)
    BY <1>3, <1>4, <1>5
  <1>10. /\ v \in Seq(VolumeRecord) /\ Len(v) = n + s + k
         /\ v[1] = a /\ v[2] = b
         /\ \A i \in 1 .. Len(B) : v[2 + i] = B[i]
         /\ \A i \in 1 .. s : v[n + i] = S[i]
         /\ \A i \in 1 .. k : v[n + s + i] = C[i]
    <2>1. v \in Seq(VolumeRecord) /\ Laid(v, a, b, B, S, C)
      BY <1>2, <1>6, <1>9, Layout
    <2>2. QED
      BY <1>8, <1>9, <2>1 DEF Laid
  <1>11. ASSUME NEW i \in 3 .. n PROVE v[i].name = <<"scripts", 0>>
    <2>1. i - 2 \in 1 .. Len(B) /\ 2 + (i - 2) = i
      BY <1>8
    <2>2. v[i] = B[i - 2]
      BY <1>10, <2>1
    <2>3. QED
      BY <1>3, <1>7, <2>1, <2>2
  <1>12. ASSUME NEW i \in 1 .. s
         PROVE  v[n + i].name = <<"secret", i>> /\ v[n + i].source = c.secretVolumes[i].source
    <2>1. v[n + i] = S[i]
      BY <1>10
    <2>2. S[i] = [name |-> <<"secret", i>>, source |-> c.secretVolumes[i].source]
      BY <1>4
    <2>3. QED
      BY <2>1, <2>2
  <1>13. ASSUME NEW i \in 1 .. k
         PROVE  /\ v[n + s + i].name = <<"configmap", i>>
                /\ v[n + s + i].source = c.configVolumes[i].source
    <2>1. v[n + s + i] = C[i]
      BY <1>10
    <2>2. C[i] = [name |-> <<"configmap", i>>, source |-> c.configVolumes[i].source]
      BY <1>5
    <2>3. QED
      BY <2>1, <2>2
  <1>14. v[1].name = <<"workspace", 0>> /\ v[2].name = <<"tmp", 0>>
    BY <1>7, <1>10
  <1>15. \A i \in 1 .. n + s + k : v[i].name = PlaceName(i, n, s)
    <2>1. NamedInGroups(v, n, s, k)
      BY <1>11, <1>12, <1>13, <1>14 DEF NamedInGroups
    <2>2. QED
      BY <1>1, <2>1, NamesAt
  <1>16. QED
    BY <1>10, <1>12, <1>13, <1>15 DEF v

LEMMA MountFacts ==
    ASSUME NEW c, NEW n, NEW s, NEW k, Shape(c, n, s, k)
    PROVE  /\ Mounts(c) \in Seq(MountRecord) /\ Len(Mounts(c)) = n + s + k
           /\ \A i \in 1 .. n + s + k : Mounts(c)[i].name = PlaceName(i, n, s)
           /\ \A i \in 1 .. s : Mounts(c)[n + i].path = c.secretVolumes[i].path
           /\ \A i \in 1 .. k : Mounts(c)[n + s + i].path = c.configVolumes[i].path
  <1>1. /\ c.byPath \in BOOLEAN
        /\ c.secretVolumes \in Seq(Volume) /\ c.configVolumes \in Seq(Volume)
        /\ n = 2 + Scripts(c.byPath) /\ n \in {2, 3}
        /\ s = Len(c.secretVolumes) /\ s \in Nat
        /\ k = Len(c.configVolumes) /\ k \in Nat
    BY DEF Shape
  <1> DEFINE a == [name |-> <<"workspace", 0>>, path |-> "/workspace"]
             b == [name |-> <<"tmp", 0>>, path |-> "/tmp"]
             e == [name |-> <<"scripts", 0>>, path |-> "/scripts"]
             B == IF c.byPath THEN <<e>> ELSE <<>>
             S == NumberedMounts("secret", c.secretVolumes)
             C == NumberedMounts("configmap", c.configVolumes)
             v == Mounts(c)
  <1>2. a \in MountRecord /\ b \in MountRecord /\ e \in MountRecord
    BY PathsAssumption DEF MountRecord, Kinds
  <1>3. B \in Seq(MountRecord) /\ Len(B) = Scripts(c.byPath) /\ \A i \in 1 .. Len(B) : B[i] = e
    <2>1. /\ <<e>> \in Seq(MountRecord) /\ Len(<<e>>) = 1 /\ \A i \in 1 .. 1 : <<e>>[i] = e
          /\ <<>> \in Seq(MountRecord) /\ Len(<<>>) = 0
      <3> HIDE DEF e
      <3>1. QED
        BY <1>2, Optional
    <2>2. CASE c.byPath
      <3>1. B = <<e>> /\ Scripts(c.byPath) = 1
        BY <2>2 DEF Scripts
      <3> HIDE DEF e, B
      <3>2. QED
        BY <2>1, <3>1
    <2>3. CASE ~c.byPath
      <3>1. B = <<>> /\ Scripts(c.byPath) = 0
        BY <2>3 DEF Scripts
      <3> HIDE DEF e, B
      <3>2. QED
        BY <2>1, <3>1
    <2>4. QED
      BY <2>2, <2>3
  <1>4. /\ S \in Seq(MountRecord) /\ s = Len(S)
        /\ \A i \in 1 .. s : S[i] = [name |-> <<"secret", i>>, path |-> c.secretVolumes[i].path]
    BY <1>1, NumberedFacts DEF Kinds
  <1>5. /\ C \in Seq(MountRecord) /\ k = Len(C)
        /\ \A i \in 1 .. k : C[i] = [name |-> <<"configmap", i>>, path |-> c.configVolumes[i].path]
    BY <1>1, NumberedFacts DEF Kinds
  <1>6. v = List(a, b, B, S, C)
    BY DEF List, Mounts
  <1>7. a.name = <<"workspace", 0>> /\ b.name = <<"tmp", 0>> /\ e.name = <<"scripts", 0>>
    OBVIOUS
  <1> HIDE DEF a, b, e, B, S, C, v
  <1>8. n = 2 + Len(B) /\ n \in Nat
    BY <1>3, <1>1 DEF Scripts
  <1>9. /\ B \in Seq(MountRecord) /\ S \in Seq(MountRecord) /\ C \in Seq(MountRecord)
        /\ s = Len(S) /\ k = Len(C)
    BY <1>3, <1>4, <1>5
  <1>10. /\ v \in Seq(MountRecord) /\ Len(v) = n + s + k
         /\ v[1] = a /\ v[2] = b
         /\ \A i \in 1 .. Len(B) : v[2 + i] = B[i]
         /\ \A i \in 1 .. s : v[n + i] = S[i]
         /\ \A i \in 1 .. k : v[n + s + i] = C[i]
    <2>1. v \in Seq(MountRecord) /\ Laid(v, a, b, B, S, C)
      BY <1>2, <1>6, <1>9, Layout
    <2>2. QED
      BY <1>8, <1>9, <2>1 DEF Laid
  <1>11. ASSUME NEW i \in 3 .. n PROVE v[i].name = <<"scripts", 0>>
    <2>1. i - 2 \in 1 .. Len(B) /\ 2 + (i - 2) = i
      BY <1>8
    <2>2. v[i] = B[i - 2]
      BY <1>10, <2>1
    <2>3. QED
      BY <1>3, <1>7, <2>1, <2>2
  <1>12. ASSUME NEW i \in 1 .. s
         PROVE  v[n + i].name = <<"secret", i>> /\ v[n + i].path = c.secretVolumes[i].path
    <2>1. v[n + i] = S[i]
      BY <1>10
    <2>2. S[i] = [name |-> <<"secret", i>>, path |-> c.secretVolumes[i].path]
      BY <1>4
    <2>3. QED
      BY <2>1, <2>2
  <1>13. ASSUME NEW i \in 1 .. k
         PROVE  /\ v[n + s + i].name = <<"configmap", i>>
                /\ v[n + s + i].path = c.configVolumes[i].path
    <2>1. v[n + s + i] = C[i]
      BY <1>10
    <2>2. C[i] = [name |-> <<"configmap", i>>, path |-> c.configVolumes[i].path]
      BY <1>5
    <2>3. QED
      BY <2>1, <2>2
  <1>14. v[1].name = <<"workspace", 0>> /\ v[2].name = <<"tmp", 0>>
    BY <1>7, <1>10
  <1>15. \A i \in 1 .. n + s + k : v[i].name = PlaceName(i, n, s)
    <2>1. NamedInGroups(v, n, s, k)
      BY <1>11, <1>12, <1>13, <1>14 DEF NamedInGroups
    <2>2. QED
      BY <1>1, <2>1, NamesAt
  <1>16. QED
    BY <1>10, <1>12, <1>13, <1>15 DEF v

LEMMA InvVolumes == SpecInv => VolumesMounted
  <1> SUFFICES ASSUME SpecInv, job # None PROVE VolumesMounted
    BY DEF VolumesMounted
  <1>1. PICK c : c = ContextOf(req, cfg)
    OBVIOUS
  <1>2. /\ c.byPath \in BOOLEAN
        /\ c.secretVolumes = req.secretVolumes /\ c.secretVolumes \in Seq(Volume)
        /\ c.configVolumes = req.configVolumes /\ c.configVolumes \in Seq(Volume)
    BY <1>1 DEF ContextOf, SpecInv, Request
  <1>3. job.volumes = Volumes(c) /\ job.mounts = Mounts(c)
    BY <1>1 DEF SpecInv, JobOf
  <1>4. PICK n, s, k : Shape(c, n, s, k)
    BY <1>2, SomeShape
  <1>5. /\ n \in {2, 3} /\ s \in Nat /\ k \in Nat
        /\ s = Len(req.secretVolumes) /\ k = Len(req.configVolumes)
    BY <1>2, <1>4 DEF Shape
  <1>6. /\ job.volumes \in Seq(VolumeRecord) /\ Len(job.volumes) = n + s + k
        /\ \A i \in 1 .. n + s + k : job.volumes[i].name = PlaceName(i, n, s)
        /\ \A i \in 1 .. s : job.volumes[n + i].source = c.secretVolumes[i].source
        /\ \A i \in 1 .. k : job.volumes[n + s + i].source = c.configVolumes[i].source
    BY <1>3, <1>4, VolumeFacts
  <1>7. /\ job.mounts \in Seq(MountRecord) /\ Len(job.mounts) = n + s + k
        /\ \A i \in 1 .. n + s + k : job.mounts[i].name = PlaceName(i, n, s)
        /\ \A i \in 1 .. s : job.mounts[n + i].path = c.secretVolumes[i].path
        /\ \A i \in 1 .. k : job.mounts[n + s + i].path = c.configVolumes[i].path
    BY <1>3, <1>4, MountFacts
  <1>8. DOMAIN job.volumes = 1 .. n + s + k /\ DOMAIN job.mounts = 1 .. n + s + k
    BY <1>6, <1>7, <1>5, LenProperties
  <1>9. ASSUME NEW i \in DOMAIN job.volumes, NEW j \in DOMAIN job.volumes,
               job.volumes[i].name = job.volumes[j].name
        PROVE  i = j
    <2>1. i \in 1 .. n + s + k /\ j \in 1 .. n + s + k
      BY <1>8
    <2>2. PlaceName(i, n, s) = PlaceName(j, n, s)
      BY <1>6, <1>9, <2>1
    <2>3. QED
      BY <1>5, <2>1, <2>2, PlaceNames
  <1>10. \A i \in 1 .. n + s + k : job.mounts[i].name = job.volumes[i].name
    BY <1>6, <1>7
  <1>11. {job.mounts[i].name : i \in DOMAIN job.mounts}
            = {job.volumes[i].name : i \in DOMAIN job.volumes}
    BY <1>8, <1>10
  <1>12. ASSUME NEW x \in DOMAIN req.configVolumes
          PROVE  \E i \in DOMAIN job.volumes, j \in DOMAIN job.mounts :
                    /\ job.volumes[i].name = job.mounts[j].name
                    /\ job.volumes[i].name[1] = "configmap"
                    /\ job.volumes[i].source = req.configVolumes[x].source
                    /\ job.mounts[j].path = req.configVolumes[x].path
    <2>1. x \in 1 .. k
      BY <1>2, <1>5, LenProperties
    <2>2. PICK i \in 1 .. n + s + k : i = n + s + x
      BY <1>5, <2>1
    <2>3. PlaceName(i, n, s) = <<"configmap", x>>
      <3>1. x \in Nat \ {0}
        BY <1>5, <2>1
      <3>2. PlaceName(n + s + x, n, s) = <<"configmap", x>>
        BY <1>5, <3>1, PlacesNamed
      <3>3. QED
        BY <2>2, <3>2
    <2>4. job.volumes[i].name = <<"configmap", x>> /\ job.mounts[i].name = <<"configmap", x>>
      BY <1>6, <1>7, <2>3
    <2>5. job.volumes[i].source = req.configVolumes[x].source
      BY <1>2, <1>6, <2>1, <2>2
    <2>6. job.mounts[i].path = req.configVolumes[x].path
      BY <1>2, <1>7, <2>1, <2>2
    <2>7. i \in DOMAIN job.volumes /\ i \in DOMAIN job.mounts
      BY <1>8
    <2>8. QED
      BY <2>4, <2>5, <2>6, <2>7
  <1>13. ASSUME NEW x \in DOMAIN req.secretVolumes
         PROVE  \E i \in DOMAIN job.volumes, j \in DOMAIN job.mounts :
                   /\ job.volumes[i].name = job.mounts[j].name
                   /\ job.volumes[i].name[1] = "secret"
                   /\ job.volumes[i].source = req.secretVolumes[x].source
                   /\ job.mounts[j].path = req.secretVolumes[x].path
    <2>1. x \in 1 .. s
      BY <1>2, <1>5, LenProperties
    <2>2. PICK i \in 1 .. n + s + k : i = n + x
      <3>1. n \in Int /\ n >= 2 /\ x \in Int /\ 1 <= x /\ x <= s /\ s \in Int /\ k \in Int /\ 0 <= k
        BY <1>5, <2>1
      <3>2. n + x \in 1 .. n + s + k
        BY <3>1
      <3>3. QED
        BY <3>2
    <2>3. PlaceName(i, n, s) = <<"secret", x>>
      BY <1>5, <2>1, <2>2, PlacesNamed
    <2>4. job.volumes[i].name = <<"secret", x>> /\ job.mounts[i].name = <<"secret", x>>
      BY <1>6, <1>7, <2>3
    <2>5. job.volumes[i].source = req.secretVolumes[x].source
      BY <1>2, <1>6, <2>1, <2>2
    <2>6. job.mounts[i].path = req.secretVolumes[x].path
      BY <1>2, <1>7, <2>1, <2>2
    <2>7. i \in DOMAIN job.volumes /\ i \in DOMAIN job.mounts
      BY <1>8
    <2>8. QED
      BY <2>4, <2>5, <2>6, <2>7
  <1>14. QED
    BY <1>9, <1>11, <1>12, <1>13 DEF VolumesMounted

(* Every volume asked for is mounted at its path, under one name           *)
(* (job_builder.go).                                                       *)
THEOREM VolumesAreMounted == Spec => []VolumesMounted
  BY InitInv, NextInv, InvVolumes, PTL DEF Spec

-----------------------------------------------------------------------------
(* Type correctness.                                                       *)

LEMMA ContextType ==
    ASSUME SpecInv, Parses
    PROVE  ContextOf(req, cfg) \in Context
  <1>1. req \in Request /\ cfg \in Config
    BY CfgFacts DEF SpecInv
  <1>2. TTLOf(req, cfg) \in Int /\ BackoffOf(req, cfg) \in Int
    <2>1. req.ttl \in Int /\ cfg.ttl \in Int /\ req.backoff \in Int /\ cfg.backoff \in Int
      BY <1>1 DEF Request, Config
    <2>2. /\ Int32(req.ttl) \in Int /\ Int32(cfg.ttl) \in Int
          /\ Int32(req.backoff) \in Int /\ Int32(cfg.backoff) \in Int
      BY <2>1, Int32Type
    <2>3. QED
      BY <2>2 DEF TTLOf, BackoffOf
  <1>3. RequestsOf(req, cfg) \in Amounts
    BY RequestFacts DEF Amounts
  <1>4. LimitsOf(req, cfg) \in Limits
    BY LimitFacts DEF Limits
  <1>5. /\ cfg.account \in Names /\ req.byPath \in BOOLEAN /\ req.env \subseteq Vars
        /\ req.fromSecret \in References /\ req.fromConfigMap \in References
        /\ req.secretVolumes \in Seq(Volume) /\ req.configVolumes \in Seq(Volume)
    BY <1>1 DEF Request, Config
  <1>6. QED
    BY <1>2, <1>3, <1>4, <1>5, TimeoutType DEF ContextOf, Context

LEMMA JobType ==
    ASSUME SpecInv, Parses
    PROVE  JobOf(ContextOf(req, cfg), cfg) \in Job
  <1>1. PICK c : c = ContextOf(req, cfg) /\ c \in Context
    BY ContextType
  <1>2. /\ c.byPath \in BOOLEAN /\ c.timeout \in Int
        /\ c.secretVolumes \in Seq(Volume) /\ c.configVolumes \in Seq(Volume)
        /\ c.env \subseteq Vars /\ c.limits = LimitsOf(req, cfg)
    BY <1>1 DEF Context, ContextOf
  <1>3. Volumes(c) \in Seq(VolumeRecord) /\ Mounts(c) \in Seq(MountRecord)
    BY <1>2, SomeShape, VolumeFacts, MountFacts
  <1>4. EnvVars(c) \in Seq(SUBSET Vars)
    <2>1. \A S, T, U \in SUBSET Vars : <<S, T, U>> \in Seq(SUBSET Vars)
      OBVIOUS
    <2>2. QED
      BY <1>2, <2>1 DEF EnvVars
  <1>5. Seconds(c.timeout) \in Int
    BY <1>2 DEF Seconds
  <1>6. Or(c.limits.storage, 1024) \in Nat
    BY <1>2, LimitFacts DEF Or
  <1>7. cfg.namespace \in Names
    BY CfgFacts DEF Config
  <1>8. QED
    BY <1>1, <1>3, <1>4, <1>5, <1>6, <1>7 DEF JobOf, Job, Context, VolumeRecord, MountRecord

LEMMA InvType == SpecInv => TypeOK
  <1> SUFFICES ASSUME SpecInv PROVE TypeOK
    OBVIOUS
  <1>1. wait \in Int
    <2>1. CASE wait # 0
      <3>1. Parses /\ wait = WaitTime(req, ContextOf(req, cfg))
        BY <2>1 DEF SpecInv
      <3>2. ContextOf(req, cfg).timeout \in Int /\ req.limit \in Int \union {None}
        BY <3>1, TimeoutType, HalfAssumption DEF ContextOf, SpecInv, Request, Duration
      <3>3. QED
        BY <3>1, <3>2, WrapType, HalfAssumption DEF WaitTime
    <2>2. QED
      BY <2>1
  <1>2. cfg \in Config
    BY CfgFacts
  <1>3. ctx \in Context \union {None} /\ job \in Job \union {None}
    BY ContextType, JobType DEF SpecInv
  <1>4. QED
    BY <1>1, <1>2, <1>3 DEF SpecInv, TypeOK

(* The context, the Job and the configuration are of their types           *)
(* (context_builder.go, job_builder.go, config.go).                        *)
THEOREM TypeCorrect == Spec => []TypeOK
  BY InitInv, NextInv, InvType, PTL DEF Spec

=============================================================================
