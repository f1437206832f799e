------------------------------ MODULE Settings ------------------------------
(***************************************************************************)
(* The configuration (internal/config): built-in defaults, overlaid by the *)
(* non-zero values of the file that CONFIG_PATH names, overlaid by three   *)
(* environment variables.  It is computed once, before anything is served. *)
(*                                                                         *)
(* Only the settings that decide what a Job looks like are kept.  Those    *)
(* below the line in Config cannot be changed: mergeConfig and             *)
(* applyEnvOverrides pass them over, whatever the file says.  Memory and   *)
(* storage are in Mi, CPU in millicores, durations in milliseconds.        *)
(***************************************************************************)
EXTENDS Integers

CONSTANTS
    Names,    \* names of namespaces, service accounts and images
    None,     \* absent: a missing variable or parameter, "" or 0
    Bad       \* text that does not parse

ASSUME NamesAssumption ==
    /\ {"opscontrolroom-system", "script-executor-runner", "alpine:latest"} \subseteq Names
    /\ None \notin Names /\ None \notin Int
    /\ Bad \notin Names /\ Bad \notin Int /\ Bad # None

Amounts == [cpu : Nat \union {None}, memory : Nat \union {None}]
Limits == [cpu : Nat \union {None}, memory : Nat \union {None},
           storage : Nat \union {None}]

Config == [namespace : Names, account : Names, image : Names,
           port : Int, ttl : Int, backoff : Int,
           (* never merged *)
           timeout : Int, requests : Amounts, limits : Limits, max : Limits]

(* What a file may give: 0 and None stand for a setting it leaves out. *)
Files == [namespace : Names \union {None}, account : Names \union {None},
          image : Names \union {None},
          port : Int, ttl : Int, backoff : Int, deadline : Int]

Environments == [GRPC_PORT : Int \union {None, Bad},
                 KUBERNETES_NAMESPACE : Names \union {None},
                 DEFAULT_IMAGE : Names \union {None}]

Or(value, default) == IF value = None THEN default ELSE value
OrInt(value, default) == IF value = 0 THEN default ELSE value

Default(env) ==
    [namespace |-> Or(env.KUBERNETES_NAMESPACE, "opscontrolroom-system"),
     account   |-> "script-executor-runner",
     image     |-> Or(env.DEFAULT_IMAGE, "alpine:latest"),
     port      |-> 50051,
     ttl       |-> 300,
     backoff   |-> 0,
     timeout   |-> 300000,
     requests  |-> [cpu |-> 100, memory |-> 64],
     limits    |-> [cpu |-> 500, memory |-> 256, storage |-> 1024],
     max       |-> [cpu |-> 4000, memory |-> 8192, storage |-> 20480]]

(* backoff_limit and active_deadline_seconds are taken together: a file    *)
(* that gives either replaces both.                                        *)
Replaced(dst, src) ==      \* a variant of Merge: what is left out counts as 0
    [dst EXCEPT !.ttl = src.ttl, !.backoff = src.backoff]
Merge(dst, src) ==
    [namespace |-> Or(src.namespace, dst.namespace),
     account   |-> Or(src.account, dst.account),
     image     |-> Or(src.image, dst.image),
     port      |-> OrInt(src.port, dst.port),
     ttl       |-> OrInt(src.ttl, dst.ttl),
     backoff   |-> IF src.backoff # 0 \/ src.deadline # 0 THEN src.backoff ELSE dst.backoff,
     timeout |-> dst.timeout, requests |-> dst.requests, limits |-> dst.limits, max |-> dst.max]

Override(cfg, env) ==
    [namespace |-> Or(env.KUBERNETES_NAMESPACE, cfg.namespace),
     account   |-> cfg.account,
     image     |-> Or(env.DEFAULT_IMAGE, cfg.image),
     port      |-> IF env.GRPC_PORT \in {None, Bad} THEN cfg.port ELSE env.GRPC_PORT,
     ttl       |-> cfg.ttl,
     backoff   |-> cfg.backoff,
     timeout |-> cfg.timeout, requests |-> cfg.requests, limits |-> cfg.limits, max |-> cfg.max]

(* The configuration with no file (None), or with one. *)
Load(file, env) ==
    Override(IF file = None THEN Default(env) ELSE Merge(Default(env), file), env)

(* Config.DefaultTimeout. *)
DefaultTimeout(cfg) == cfg.timeout

=============================================================================
