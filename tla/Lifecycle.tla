------------------------------ MODULE Lifecycle ------------------------------
(***************************************************************************)
(* One replica as a process: main starts the gRPC server, the approval API *)
(* and the metrics server, waits for a signal and shuts them down one      *)
(* after the other, while calls come in, stream their progress and end.    *)
(* What a call does is in the other modules; here it runs or it is over.   *)
(***************************************************************************)
EXTENDS Naturals, Sequences

CONSTANTS
    Unary,          \* Execute calls
    Streams,        \* ExecuteStream calls
    Approvals,      \* requests to the approval API
    ApprovalEnabled \* the configuration's approval.enabled

ASSUME LifecycleAssumption ==
    /\ Unary \intersect Streams = {} /\ (Unary \union Streams) \intersect Approvals = {}
    /\ ApprovalEnabled \in BOOLEAN

Grpc == Unary \union Streams
Calls == Grpc \union Approvals

(* main, from top to bottom, and how the process may end.                  *)
Ended == {"exited", "failed", "killed"}
Phases == {"setup", "grpc", "http", "notify", "serving",
           "draining", "metrics", "closing"} \union Ended

(* A call: executing is inside Manager.Execute (or an approval handler);   *)
(* accepted, returned and running are a stream with progress to send next. *)
Active == {"accepted", "executing", "returned", "running"}
Over == {"refused", "answered"}
Progress == <<"STARTING", "RUNNING", "DONE">>

VARIABLES
    phase,      \* where main stands
    accepting,  \* whether the gRPC server takes new calls
    api,        \* the approval API: not started, up, not listening, closed
    signalled,  \* the process was told to stop
    timer,      \* the 30 seconds of the shutdown context
    pc,         \* where each call stands
    sent,       \* the progress each stream's client received
    left,       \* the streams whose client went away
    cut         \* history: the calls in progress when the process ended

vars == <<phase, accepting, api, signalled, timer, pc, sent, left, cut>>
servers == <<accepting, api>>
calls == <<pc, sent, left>>

TypeOK ==
    /\ phase \in Phases
    /\ accepting \in BOOLEAN
    /\ api \in {"none", "up", "deaf", "closed"}
    /\ signalled \in BOOLEAN
    /\ timer \in {"unset", "running", "fired"}
    /\ pc \in [Calls -> {"idle"} \union Over \union Active]
    /\ sent \in [Streams -> Seq({"STARTING", "RUNNING", "DONE"})]
    /\ left \subseteq Streams
    /\ cut \subseteq Calls

Init ==
    /\ phase = "setup"
    /\ accepting = FALSE /\ api = "none"
    /\ signalled = FALSE /\ timer = "unset"
    /\ pc = [c \in Calls |-> "idle"]
    /\ sent = [c \in Streams |-> <<>>]
    /\ left = {} /\ cut = {}

InProgress(set) == {c \in set : pc[c] \in Active}

(* The process ends, and with it whatever is in progress. *)
End(how) ==
    /\ phase' = how
    /\ cut' = InProgress(Calls)
    /\ UNCHANGED <<servers, signalled, timer, calls>>

-----------------------------------------------------------------------------
(* main.                                                                   *)

(* Configuration, manager, listener: each failure is fatal. *)
SetUp ==
    /\ phase = "setup"
    /\ \/ phase' = "grpc" /\ UNCHANGED <<servers, signalled, timer, calls, cut>>
       \/ End("failed")

StartGrpc ==
    /\ phase = "grpc"
    /\ accepting' = TRUE
    /\ phase' = "http"
    /\ UNCHANGED <<api, signalled, timer, calls, cut>>

(* If the port is taken, nobody looks at the error. *)
StartApi ==
    /\ phase = "http"
    /\ IF ApprovalEnabled THEN api' \in {"up", "deaf"} ELSE UNCHANGED api
    /\ phase' = "notify"
    /\ UNCHANGED <<accepting, signalled, timer, calls, cut>>

(* The metrics server, then signal.Notify. *)
Notify ==
    /\ phase = "notify"
    /\ phase' = "serving"
    /\ UNCHANGED <<servers, signalled, timer, calls, cut>>

(* A signal: until Notify it ends the process. *)
Signal ==
    /\ phase \notin Ended /\ ~signalled
    /\ signalled' = TRUE
    /\ IF phase \in {"setup", "grpc", "http", "notify"}
       THEN phase' = "killed" /\ cut' = InProgress(Calls)
       ELSE UNCHANGED <<phase, cut>>
    /\ UNCHANGED <<servers, timer, calls>>

(* The 30 seconds begin before GracefulStop, which knows nothing of them. *)
BeginShutdown ==
    /\ phase = "serving" /\ signalled
    /\ timer' = "running"
    /\ accepting' = FALSE
    /\ phase' = "draining"
    /\ UNCHANGED <<api, signalled, calls, cut>>

OnlyExecuting ==        \* a variant of Drained: streams may still have to send
    \A c \in Grpc : pc[c] # "executing"
Drained == InProgress(Grpc) = {}

GracefulStop ==
    /\ phase = "draining"
    /\ Drained
    /\ phase' = "metrics"
    /\ UNCHANGED <<servers, signalled, timer, calls, cut>>

(* metricsServer.Shutdown; then httpServer.Shutdown closes its listener... *)
CloseServers ==
    /\ phase = "metrics"
    /\ api' = IF ApprovalEnabled THEN "closed" ELSE api
    /\ phase' = "closing"
    /\ UNCHANGED <<accepting, signalled, timer, calls, cut>>

(* ...and waits for its requests or the end of the 30 seconds; then main   *)
(* returns.                                                                *)
Unbounded == InProgress(Approvals) = {}   \* a variant: Shutdown without the context
Closed == InProgress(Approvals) = {} \/ timer = "fired"

Exit ==
    /\ phase = "closing"
    /\ Closed
    /\ End("exited")

TimerFires ==
    /\ timer = "running" /\ phase \notin Ended
    /\ timer' = "fired"
    /\ UNCHANGED <<phase, servers, signalled, calls, cut>>

(* Serve fails, or a call panics. *)
Fatal ==
    /\ \/ accepting
       \/ \E c \in Grpc : pc[c] = "executing"
    /\ phase \notin Ended
    /\ End("failed")

(* The kubelet kills what has not stopped in its time. *)
Kill ==
    /\ phase \notin Ended /\ signalled
    /\ End("killed")

-----------------------------------------------------------------------------
(* Calls.                                                                  *)
Alive == phase \notin Ended
Goto(c, stage) == pc' = [pc EXCEPT ![c] = stage]

(* stream.Send, whose errors are dropped. *)
Send(c, stage) ==
    sent' = IF c \in left THEN sent ELSE [sent EXCEPT ![c] = Append(@, stage)]

(* A call of another step type is refused at once, as Unimplemented. *)
Accept(c) ==
    /\ Alive /\ accepting /\ pc[c] = "idle"
    /\ Goto(c, IF c \in Streams THEN "accepted" ELSE "executing") \/ Goto(c, "refused")
    /\ UNCHANGED <<phase, servers, signalled, timer, sent, left, cut>>

SendStarting(c) ==
    /\ Alive /\ pc[c] = "accepted"
    /\ Send(c, "STARTING")
    /\ Goto(c, "executing")
    /\ UNCHANGED <<phase, servers, signalled, timer, left, cut>>

(* Manager.Execute returns; it never returns an error of its own. *)
WithError(c) ==         \* a variant of Return: failed runs end in an error
    /\ Alive /\ pc[c] = "executing"
    /\ Goto(c, IF c \in Streams THEN "returned" ELSE "answered") \/ Goto(c, "answered")
    /\ UNCHANGED <<phase, servers, signalled, timer, sent, left, cut>>
Return(c) ==
    /\ Alive /\ pc[c] = "executing"
    /\ Goto(c, IF c \in Streams THEN "returned" ELSE "answered")
    /\ UNCHANGED <<phase, servers, signalled, timer, sent, left, cut>>

SendRunning(c) ==
    /\ Alive /\ pc[c] = "returned"
    /\ Send(c, "RUNNING")
    /\ Goto(c, "running")
    /\ UNCHANGED <<phase, servers, signalled, timer, left, cut>>

SendDone(c) ==
    /\ Alive /\ pc[c] = "running"
    /\ Send(c, "DONE")
    /\ Goto(c, "answered")
    /\ UNCHANGED <<phase, servers, signalled, timer, left, cut>>

AnyLeave(c) ==          \* a variant of Leave: clients of plain calls too
    /\ c \in Grpc \ left /\ pc[c] \in Active
    /\ left' = left \union {c}
    /\ UNCHANGED <<phase, servers, signalled, timer, pc, sent, cut>>
Leave(c) ==
    /\ c \in Streams \ left /\ pc[c] \in Active
    /\ left' = left \union {c}
    /\ UNCHANGED <<phase, servers, signalled, timer, pc, sent, cut>>

AcceptApproval(a) ==
    /\ Alive /\ api = "up" /\ pc[a] = "idle"
    /\ Goto(a, "executing")
    /\ UNCHANGED <<phase, servers, signalled, timer, sent, left, cut>>

AnswerApproval(a) ==
    /\ Alive /\ pc[a] = "executing"
    /\ Goto(a, "answered")
    /\ UNCHANGED <<phase, servers, signalled, timer, sent, left, cut>>

-----------------------------------------------------------------------------
Main == \/ SetUp \/ StartGrpc \/ StartApi \/ Notify
        \/ BeginShutdown \/ GracefulStop \/ CloseServers \/ Exit
Proceed(c) == SendStarting(c) \/ Return(c) \/ SendRunning(c) \/ SendDone(c)

Next == \/ Main \/ Signal \/ TimerFires \/ Fatal \/ Kill
        \/ \E c \in Grpc : Accept(c) \/ Proceed(c) \/ Leave(c)
        \/ \E a \in Approvals : AcceptApproval(a) \/ AnswerApproval(a)

Spec == Init /\ [][Next]_vars

(* main goes on, time passes, and Execute returns (JobRun, ExecuteReturns).*)
(* Nothing is assumed of approval handlers.                                *)
FairSpec == Spec /\ WF_vars(Main) /\ WF_vars(TimerFires) /\ \A c \in Grpc : WF_vars(Proceed(c))

-----------------------------------------------------------------------------
(* A process that exits in good order has answered every gRPC call it had  *)
(* accepted, and every stream whose client stayed has got all its progress *)
(* up to DONE (GracefulStop, ExecuteStream).                               *)
ExitAnswersCalls ==
    phase = "exited" =>
        /\ cut \intersect Grpc = {}
        /\ \A c \in Streams \ left : sent[c] \in {<<>>, Progress}

(* However the process ends - main returns, a server fails, another call   *)
(* panics, the kubelet kills it - a client that stayed with its stream and *)
(* missed part of the progress was cut off by that end: every other stream *)
(* was refused, never accepted, or got all up to DONE (ExecuteStream).     *)
OnlyTheEndCuts ==
    phase \in Ended => \A c \in Streams \ (left \union cut) :
        sent[c] = IF pc[c] = "answered" THEN Progress ELSE <<>>

(* A process that is told to stop stops, even if approval handlers hang    *)
(* (main).                                                                 *)
ShutdownEnds == signalled ~> phase \in Ended

=============================================================================
