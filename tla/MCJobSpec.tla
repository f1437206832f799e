----------------------------- MODULE MCJobSpec ------------------------------
(***************************************************************************)
(* Requests and settings for TLC: one plain request, and what it becomes   *)
(* when the parameters that act on each other are varied together.         *)
(***************************************************************************)
EXTENDS JobSpec

MCHalf == 32768         \* a 16-bit int32: TLC's own integers have 32 bits
MCLong == 1000000        \* a quarter of an hour: above every other time here
MCNames == {"opscontrolroom-system", "script-executor-runner", "alpine:latest", "other"}
MCPaths == {"/workspace", "/tmp", "/scripts", "/a", "/b"}

NoFile == [namespace |-> None, account |-> None, image |-> None,
           port |-> 0, ttl |-> 0, backoff |-> 0, deadline |-> 0]
MCFiles == {None, NoFile, [NoFile EXCEPT !.namespace = "other", !.account = "other", !.port = 1],
            [NoFile EXCEPT !.ttl = 60, !.deadline = 600],
            [NoFile EXCEPT !.ttl = -1, !.image = "other"],
            [NoFile EXCEPT !.backoff = 5]}

NoEnvironment == [GRPC_PORT |-> None, KUBERNETES_NAMESPACE |-> None, DEFAULT_IMAGE |-> None]
MCEnvironments == {NoEnvironment, [NoEnvironment EXCEPT !.GRPC_PORT = Bad],
                   [NoEnvironment EXCEPT !.GRPC_PORT = 2, !.KUBERNETES_NAMESPACE = "other",
                                         !.DEFAULT_IMAGE = "other"]}

Unreferenced == [n \in Vars |-> "none"]
Plain == [timeout |-> None, limit |-> None, ttl |-> 0, backoff |-> 0, byPath |-> FALSE,
          requests |-> [cpu |-> None, memory |-> None],
          limits |-> [cpu |-> None, memory |-> None, storage |-> None],
          env |-> {}, fromSecret |-> Unreferenced, fromConfigMap |-> Unreferenced,
          secretVolumes |-> <<>>, configVolumes |-> <<>>]

Timed == {[Plain EXCEPT !.timeout = t, !.limit = l] :
            t \in {None, Bad, 0, 500, 1000, 90500, MCLong - 1, -500, -2000},
            l \in {None, -1, 0, 1, 600000, MCLong - 1}}
Counted == {[Plain EXCEPT !.ttl = t, !.backoff = b] :
            t \in {-1, 0, 60, MCHalf, 2 * MCHalf + 7},
            b \in {-1, 0, 1, 3, 4, MCHalf - 1, MCHalf, 2 * MCHalf - 1, 2 * MCHalf + 2}}
Sized == {[Plain EXCEPT !.requests = [cpu |-> c, memory |-> None],
                        !.limits = [cpu |-> l, memory |-> m, storage |-> s]] :
            c \in {None, 50, 4001, Bad}, l \in {None, 50, 4001, Bad},
            m \in {None, 32, 8193}, s \in {None, Bad}}
Referring == {[Plain EXCEPT !.env = e, !.fromSecret = s, !.fromConfigMap = c] :
            e \in SUBSET Vars, s \in References, c \in References}
At(s, p) == [source |-> s, path |-> p]
Lists == {<<>>, <<At("x", "/a")>>, <<At("y", "/b")>>, <<At("x", "/tmp")>>,
          <<At("x", "/a"), At("y", "/b")>>}
Mounting == {[Plain EXCEPT !.byPath = b, !.secretVolumes = s, !.configVolumes = c] :
            b \in BOOLEAN, s \in Lists, c \in Lists}

MCRequests == Timed \union Counted \union Sized \union Referring \union Mounting

=============================================================================
