--------------------------- MODULE LifecycleProofs ---------------------------
(***************************************************************************)
(* What the end of a replica leaves behind, and how it is reached, for any *)
(* number of calls, streams and approval requests.                         *)
(***************************************************************************)
EXTENDS Lifecycle, SequenceTheorems, TLAPS

(* Type correctness.  TypeOK is inductive.                                 *)

LEMMA EndType ==
    ASSUME TypeOK, NEW how \in Ended, End(how)
    PROVE  TypeOK'
  BY DEF TypeOK, End, servers, calls, InProgress, Phases

LEMMA MainType == TypeOK /\ (Main \/ Signal \/ TimerFires \/ Fatal \/ Kill) => TypeOK'
  <1> SUFFICES ASSUME TypeOK, Main \/ Signal \/ TimerFires \/ Fatal \/ Kill PROVE TypeOK'
    OBVIOUS
  <1> USE DEF TypeOK, servers, calls, Phases, Ended
  <1>1. CASE SetUp
    BY <1>1, EndType DEF SetUp
  <1>2. CASE StartGrpc \/ StartApi \/ Notify \/ BeginShutdown \/ GracefulStop \/ CloseServers
    BY <1>2 DEF StartGrpc, StartApi, Notify, BeginShutdown, GracefulStop, CloseServers
  <1>3. CASE Exit \/ Fatal \/ Kill
    BY <1>3, EndType DEF Exit, Fatal, Kill
  <1>4. CASE Signal
    BY <1>4 DEF Signal, InProgress
  <1>5. CASE TimerFires
    BY <1>5 DEF TimerFires
  <1>6. QED
    BY <1>1, <1>2, <1>3, <1>4, <1>5 DEF Main

LEMMA SendType ==
    ASSUME TypeOK, NEW c \in Streams, NEW stage \in {"STARTING", "RUNNING", "DONE"},
           Send(c, stage)
    PROVE  sent' \in [Streams -> Seq({"STARTING", "RUNNING", "DONE"})]
  <1>1. Append(sent[c], stage) \in Seq({"STARTING", "RUNNING", "DONE"})
    BY AppendProperties DEF TypeOK
  <1>2. QED
    BY <1>1 DEF TypeOK, Send

LEMMA GotoType ==
    ASSUME TypeOK, NEW c \in Calls, NEW stage \in {"idle"} \union Over \union Active,
           Goto(c, stage)
    PROVE  pc' \in [Calls -> {"idle"} \union Over \union Active]
  BY DEF TypeOK, Goto

LEMMA CallType ==
    ASSUME TypeOK, NEW c \in Grpc, Accept(c) \/ Proceed(c) \/ Leave(c)
    PROVE  TypeOK'
  <1>0. c \in Calls
    BY DEF Calls
  <1>1. CASE Accept(c)
    <2>1. pc' \in [Calls -> {"idle"} \union Over \union Active]
      BY <1>0, <1>1, GotoType DEF Accept, Active, Over
    <2>2. QED
      BY <1>1, <2>1 DEF Accept, TypeOK, servers
  <1>2. CASE Return(c)
    <2>1. pc' \in [Calls -> {"idle"} \union Over \union Active]
      BY <1>0, <1>2, GotoType DEF Return, Active, Over
    <2>2. QED
      BY <1>2, <2>1 DEF Return, TypeOK, servers
  <1>3. CASE SendStarting(c) \/ SendRunning(c) \/ SendDone(c)
    <2>1. pc' \in [Calls -> {"idle"} \union Over \union Active]
      BY <1>0, <1>3, GotoType DEF SendStarting, SendRunning, SendDone, Active, Over
    <2>2. sent' \in [Streams -> Seq({"STARTING", "RUNNING", "DONE"})]
      <3>1. CASE c \in Streams
        BY <1>3, <3>1, SendType DEF SendStarting, SendRunning, SendDone
      <3>2. CASE c \notin Streams
        <4>1. [sent EXCEPT ![c] = Append(sent[c], "STARTING")] = sent
              /\ [sent EXCEPT ![c] = Append(sent[c], "RUNNING")] = sent
              /\ [sent EXCEPT ![c] = Append(sent[c], "DONE")] = sent
          BY <3>2 DEF TypeOK
        <4>2. QED
          BY <1>3, <4>1 DEF SendStarting, SendRunning, SendDone, Send, TypeOK
      <3>3. QED
        BY <3>1, <3>2
    <2>3. QED
      BY <1>3, <2>1, <2>2 DEF SendStarting, SendRunning, SendDone, TypeOK, servers
  <1>4. CASE Leave(c)
    BY <1>4 DEF Leave, TypeOK, servers
  <1>5. QED
    BY <1>1, <1>2, <1>3, <1>4 DEF Proceed

LEMMA ApprovalType ==
    ASSUME TypeOK, NEW a \in Approvals, AcceptApproval(a) \/ AnswerApproval(a)
    PROVE  TypeOK'
  <1>1. pc' \in [Calls -> {"idle"} \union Over \union Active]
    BY GotoType DEF AcceptApproval, AnswerApproval, Active, Over, Calls
  <1>2. QED
    BY <1>1 DEF AcceptApproval, AnswerApproval, TypeOK, servers

LEMMA NextType == TypeOK /\ [Next]_vars => TypeOK'
  <1>1. TypeOK /\ UNCHANGED vars => TypeOK'
    BY DEF TypeOK, vars
  <1>2. QED
    BY <1>1, MainType, CallType, ApprovalType DEF Next

LEMMA InitType == Init => TypeOK
  BY EmptySeq DEF Init, TypeOK, Phases

(* The state of a replica is always of its type (main.go, executor.go).    *)
THEOREM TypeCorrect == Spec => []TypeOK
  BY InitType, NextType, PTL DEF Spec

-----------------------------------------------------------------------------
(* Exits in good order.                                                    *)

(* What a stream whose client stayed has received, by where its call is.   *)
SentInv ==
    \A c \in Streams \ left :
        sent[c] = CASE pc[c] \in {"idle", "refused", "accepted"} -> <<>>
                    [] pc[c] = "running" -> <<"STARTING", "RUNNING">>
                    [] pc[c] = "answered" -> Progress
                    [] OTHER -> <<"STARTING">>

(* Once the draining is over no gRPC call is in progress, and none comes.  *)
Quiet == phase \in {"metrics", "closing", "exited"}
DrainInv ==
    /\ phase \in {"draining", "metrics", "closing", "exited"} => ~accepting
    /\ Quiet => \A c \in Grpc : pc[c] \notin Active
    /\ phase = "exited" => cut \intersect Grpc = {}

LEMMA AppendThird ==
    ASSUME NEW a, NEW b, NEW c
    PROVE  Append(<<a, b>>, c) = <<a, b, c>>
  <1> DEFINE S == {a, b, c}
  <1>1. /\ <<a, b>> \in Seq(S) /\ Len(<<a, b>>) = 2
        /\ <<a, b, c>> \in Seq(S) /\ Len(<<a, b, c>>) = 3
    OBVIOUS
  <1>2. Append(<<a, b>>, c) \in Seq(S) /\ Len(Append(<<a, b>>, c)) = 3
    BY <1>1, AppendProperties
  <1>3. \A i \in 1 .. 2 : Append(<<a, b>>, c)[i] = <<a, b>>[i]
    BY <1>1, AppendProperties
  <1>4. Append(<<a, b>>, c)[3] = c
    BY <1>1, AppendProperties
  <1>5. \A i \in 1 .. 3 : Append(<<a, b>>, c)[i] = <<a, b, c>>[i]
    BY <1>3, <1>4
  <1>6. QED
    BY <1>1, <1>2, <1>5, SeqEqual

(* A step of a stream's call keeps what the stream received.               *)
LEMMA SentStep ==
    ASSUME TypeOK, SentInv, NEW c \in Calls, UNCHANGED left,
           NEW from, NEW to, pc[c] = from, Goto(c, to),
           IF c \in Streams
           THEN \/ from = "idle" /\ to \in {"accepted", "refused"} /\ UNCHANGED sent
                \/ from = "accepted" /\ to = "executing" /\ Send(c, "STARTING")
                \/ from = "executing" /\ to = "returned" /\ UNCHANGED sent
                \/ from = "returned" /\ to = "running" /\ Send(c, "RUNNING")
                \/ from = "running" /\ to = "answered" /\ Send(c, "DONE")
           ELSE \A d \in Streams : sent'[d] = sent[d]
    PROVE  SentInv'
  <1> SUFFICES ASSUME NEW d \in Streams \ left
               PROVE  sent'[d] = CASE pc'[d] \in {"idle", "refused", "accepted"} -> <<>>
                                   [] pc'[d] = "running" -> <<"STARTING", "RUNNING">>
                                   [] pc'[d] = "answered" -> Progress
                                   [] OTHER -> <<"STARTING">>
    BY DEF SentInv
  <1>1. d \in Calls
    BY DEF Calls, Grpc
  <1>2. CASE d # c
    <2>1. pc'[d] = pc[d]
      BY <1>1, <1>2 DEF TypeOK, Goto
    <2>2. sent'[d] = sent[d]
      BY <1>2 DEF TypeOK, Send
    <2>3. QED
      BY <2>1, <2>2 DEF SentInv
  <1>3. CASE d = c
    <2>1. pc'[c] = to
      BY DEF TypeOK, Goto
    <2>2. \A stage : Send(c, stage) => sent'[c] = Append(sent[c], stage)
      BY <1>3 DEF TypeOK, Send
    <2>3. CASE from \in {"idle", "accepted"}
      BY <1>3, <2>1, <2>2, <2>3 DEF SentInv
    <2>4. CASE from = "executing"
      BY <1>3, <2>1, <2>4 DEF SentInv
    <2>5. CASE from = "returned"
      BY <1>3, <2>1, <2>2, <2>5 DEF SentInv
    <2>6. CASE from = "running"
      <3>1. sent[c] = <<"STARTING", "RUNNING">>
        BY <1>3, <2>6 DEF SentInv
      <3>2. to = "answered" /\ sent'[c] = Append(sent[c], "DONE")
        BY <1>3, <2>2, <2>6
      <3>3. Append(<<"STARTING", "RUNNING">>, "DONE") = Progress
        BY AppendThird DEF Progress
      <3>4. QED
        BY <1>3, <2>1, <3>1, <3>2, <3>3
    <2>7. QED
      BY <1>3, <2>3, <2>4, <2>5, <2>6
  <1>4. QED
    BY <1>2, <1>3

LEMMA SentNext == TypeOK /\ SentInv /\ [Next]_vars => SentInv'
  <1> SUFFICES ASSUME TypeOK, SentInv, [Next]_vars PROVE SentInv'
    OBVIOUS
  <1>1. CASE UNCHANGED calls
    BY <1>1 DEF SentInv, calls
  <1>2. ASSUME NEW c \in Grpc, Accept(c) \/ Proceed(c) PROVE SentInv'
    <2>1. c \in Calls /\ UNCHANGED left
      BY <1>2 DEF Calls, Accept, Proceed, Return, SendStarting, SendRunning, SendDone
    <2>2. CASE c \in Streams
      BY <1>2, <2>1, <2>2, SentStep
      DEF Accept, Proceed, Return, SendStarting, SendRunning, SendDone
    <2>3. CASE c \notin Streams
      <3>1. \A d \in Streams : sent'[d] = sent[d]
        BY <1>2, <2>3 DEF Accept, Proceed, Return, SendStarting, SendRunning, SendDone, Send, TypeOK
      <3>2. PICK to : Goto(c, to)
        BY <1>2 DEF Accept, Proceed, Return, SendStarting, SendRunning, SendDone
      <3>3. QED
        BY <2>1, <2>3, <3>1, <3>2, SentStep
    <2>4. QED
      BY <2>2, <2>3
  <1>3. ASSUME NEW c \in Grpc, Leave(c) PROVE SentInv'
    BY <1>3 DEF Leave, SentInv
  <1>4. ASSUME NEW a \in Approvals, AcceptApproval(a) \/ AnswerApproval(a) PROVE SentInv'
    <2>1. a \in Calls /\ a \notin Streams /\ UNCHANGED <<left, sent>>
      BY <1>4, LifecycleAssumption DEF Calls, AcceptApproval, AnswerApproval
    <2>2. PICK to : Goto(a, to)
      BY <1>4 DEF AcceptApproval, AnswerApproval
    <2>3. QED
      BY <2>1, <2>2, SentStep
  <1>5. CASE Main \/ Signal \/ TimerFires \/ Fatal \/ Kill
    <2>1. UNCHANGED calls
      BY <1>5 DEF Main, SetUp, StartGrpc, StartApi, Notify, BeginShutdown, GracefulStop,
                  CloseServers, Exit, Signal, TimerFires, Fatal, Kill, End
    <2>2. QED
      BY <2>1, <1>1
  <1>6. CASE UNCHANGED vars
    BY <1>1, <1>6 DEF vars, calls
  <1>7. QED
    BY <1>2, <1>3, <1>4, <1>5, <1>6 DEF Next

LEMMA DrainNext == TypeOK /\ DrainInv /\ [Next]_vars => DrainInv'
  <1> SUFFICES ASSUME TypeOK, DrainInv, [Next]_vars PROVE DrainInv'
    OBVIOUS
  <1> USE DEF DrainInv, Quiet, servers, calls, Ended
  <1>1. CASE SetUp \/ StartGrpc \/ StartApi \/ Notify
    BY <1>1 DEF SetUp, StartGrpc, StartApi, Notify, End
  <1>2. CASE BeginShutdown
    BY <1>2 DEF BeginShutdown, TypeOK
  <1>3. CASE GracefulStop
    BY <1>3 DEF GracefulStop, Drained, InProgress
  <1>4. CASE CloseServers
    BY <1>4 DEF CloseServers
  <1>5. CASE Exit
    BY <1>5 DEF Exit, End, InProgress
  <1>6. CASE Signal \/ TimerFires
    BY <1>6 DEF Signal, TimerFires
  <1>7. CASE Fatal \/ Kill
    BY <1>7 DEF Fatal, Kill, End
  <1>8. ASSUME NEW c \in Grpc, Accept(c) \/ Proceed(c) PROVE DrainInv'
    <2>1. ~Quiet /\ UNCHANGED <<phase, servers, cut>>
      BY <1>8 DEF Accept, Proceed, Return, SendStarting, SendRunning, SendDone, Alive, Active, TypeOK
    <2>2. QED
      BY <2>1
  <1>9. ASSUME NEW c \in Grpc, Leave(c) PROVE DrainInv'
    BY <1>9 DEF Leave
  <1>10. ASSUME NEW a \in Approvals, AcceptApproval(a) \/ AnswerApproval(a) PROVE DrainInv'
    <2>1. UNCHANGED <<phase, servers, cut>>
      BY <1>10 DEF AcceptApproval, AnswerApproval
    <2>2. \A c \in Grpc : pc'[c] = pc[c]
      BY <1>10, LifecycleAssumption DEF AcceptApproval, AnswerApproval, Goto, TypeOK, Calls, Grpc
    <2>3. QED
      BY <2>1, <2>2
  <1>11. CASE UNCHANGED vars
    BY <1>11 DEF vars
  <1>12. QED
    BY <1>1, <1>2, <1>3, <1>4, <1>5, <1>6, <1>7, <1>8, <1>9, <1>10, <1>11 DEF Next, Main

LEMMA InvAnswers == TypeOK /\ SentInv /\ DrainInv => ExitAnswersCalls
  <1> SUFFICES ASSUME TypeOK, SentInv, DrainInv, phase = "exited"
               PROVE  /\ cut \intersect Grpc = {}
                      /\ \A c \in Streams \ left : sent[c] \in {<<>>, Progress}
    BY DEF ExitAnswersCalls
  <1>1. ASSUME NEW c \in Streams \ left PROVE sent[c] \in {<<>>, Progress}
    <2>1. pc[c] \in {"idle"} \union Over
      BY DEF DrainInv, Quiet, TypeOK, Calls, Grpc
    <2>2. QED
      BY <2>1 DEF SentInv, Over
  <1>2. QED
    BY <1>1 DEF DrainInv

(* A process that exits in good order has answered every gRPC call, and    *)
(* sent its progress in full (main.go, GracefulStop).                      *)
THEOREM ExitAnswers == Spec => []ExitAnswersCalls
  <1>1. Init => SentInv /\ DrainInv
    BY DEF Init, SentInv, DrainInv, Quiet, Calls, Grpc
  <1>2. QED
    BY <1>1, InitType, NextType, SentNext, DrainNext, InvAnswers, PTL DEF Spec

(* What is in progress when the process ends is what it cuts off.          *)
CutInv == phase \in Ended => InProgress(Streams) \subseteq cut

LEMMA CutNext == TypeOK /\ CutInv /\ [Next]_vars => CutInv'
  <1> SUFFICES ASSUME TypeOK, CutInv, [Next]_vars PROVE CutInv'
    OBVIOUS
  <1> USE DEF CutInv, InProgress
  <1>1. ASSUME NEW how, End(how) PROVE CutInv'
    BY <1>1 DEF End, calls, Calls, Grpc
  <1>2. CASE SetUp \/ Exit \/ Fatal \/ Kill
    <2>1. CASE \E how : End(how)
      BY <1>1, <2>1
    <2>2. CASE phase' = "grpc"
      BY <2>2 DEF Ended
    <2>3. QED
      BY <1>2, <2>1, <2>2 DEF SetUp, Exit, Fatal, Kill
  <1>3. CASE StartGrpc \/ StartApi \/ Notify \/ BeginShutdown \/ GracefulStop \/ CloseServers
    BY <1>3 DEF StartGrpc, StartApi, Notify, BeginShutdown, GracefulStop, CloseServers, Ended
  <1>4. CASE Signal
    <2>1. UNCHANGED pc
      BY <1>4 DEF Signal, calls
    <2>2. CASE UNCHANGED <<phase, cut>>
      BY <2>1, <2>2
    <2>3. CASE cut' = InProgress(Calls)
      BY <2>1, <2>3 DEF Calls, Grpc
    <2>4. QED
      BY <1>4, <2>2, <2>3 DEF Signal, InProgress
  <1>5. CASE TimerFires
    BY <1>5 DEF TimerFires, calls
  <1>6. ASSUME NEW c \in Grpc, Accept(c) \/ Proceed(c)
        PROVE  phase \notin Ended /\ phase' = phase
    BY <1>6 DEF Accept, Proceed, Return, SendStarting, SendRunning, SendDone, Alive
  <1>7. ASSUME NEW c \in Grpc, Leave(c) PROVE CutInv'
    BY <1>7 DEF Leave
  <1>8. ASSUME NEW a \in Approvals, AcceptApproval(a) \/ AnswerApproval(a)
        PROVE  phase \notin Ended /\ phase' = phase
    BY <1>8 DEF AcceptApproval, AnswerApproval, Alive
  <1>9. CASE UNCHANGED vars
    BY <1>9 DEF vars
  <1>10. QED
    BY <1>2, <1>3, <1>4, <1>5, <1>6, <1>7, <1>8, <1>9 DEF Next, Main

(* Only the end of the process keeps a client that stayed from its         *)
(* progress, whatever ends it (executor.go, main.go).                      *)
THEOREM EndCuts == Spec => []OnlyTheEndCuts
  <1>1. Init => SentInv /\ CutInv
    BY DEF Init, SentInv, CutInv, Ended, Calls, Grpc
  <1>2. TypeOK /\ SentInv /\ CutInv => OnlyTheEndCuts
    <2> SUFFICES ASSUME TypeOK, SentInv, CutInv, phase \in Ended,
                        NEW c \in Streams \ (left \union cut)
                 PROVE  sent[c] = IF pc[c] = "answered" THEN Progress ELSE <<>>
      BY DEF OnlyTheEndCuts
    <2>1. pc[c] \in {"idle"} \union Over
      BY DEF TypeOK, CutInv, InProgress, Calls, Grpc
    <2>2. QED
      BY <2>1 DEF SentInv, Over
  <1>3. QED
    BY <1>1, <1>2, InitType, NextType, SentNext, CutNext, PTL DEF Spec

-----------------------------------------------------------------------------
(* What there is of progress without fairness.                             *)

Stopping == {"draining", "metrics", "closing"}

(* How far main has got. *)
At == CASE phase = "setup" -> 0
        [] phase = "grpc" -> 1
        [] phase = "http" -> 2
        [] phase = "notify" -> 3
        [] phase = "serving" -> 4
        [] phase = "draining" -> 5
        [] phase = "metrics" -> 6
        [] phase = "closing" -> 7
        [] OTHER -> 8

(* What a gRPC call has still to do. *)
ToDo(c) == CASE pc[c] = "accepted" -> 4
             [] pc[c] = "executing" -> 3
             [] pc[c] = "returned" -> 2
             [] pc[c] = "running" -> 1
             [] OTHER -> 0

(* A shutdown is never put off: main does not go back, each of its steps   *)
(* takes it on, and once it stops no client can give it more calls to wait *)
(* for or set one back (main, GracefulStop; ShutdownEnds is this, the next *)
(* theorem and fairness).                                                  *)
ShutdownWindsDown ==
    [][/\ At <= At'
       /\ Main => At < At'
       /\ phase \in Stopping => \A c \in Grpc : ToDo(c)' <= ToDo(c)
       /\ \A c \in Grpc : Proceed(c) => ToDo(c)' < ToDo(c)]_vars

(* As long as a process that was told to stop is alive, main, a gRPC call  *)
(* or the timer can take a step: main waits for calls that are executing   *)
(* or still sending, or in the end for approval handlers with the 30       *)
(* seconds running, and for nothing else (main).                           *)
NeverStuck ==
    signalled /\ phase \notin Ended =>
        \/ phase \in {"serving", "metrics"}
        \/ phase = "draining" /\ (Drained \/ \E c \in Grpc : pc[c] \in Active)
        \/ phase = "closing" /\ (Closed \/ timer = "running")

StopInv ==
    /\ phase \in Stopping => ~accepting /\ timer # "unset"
    /\ phase \in {"setup", "grpc", "http", "notify"} => ~signalled

LEMMA StopNext == TypeOK /\ StopInv /\ [Next]_vars => StopInv'
  <1> SUFFICES ASSUME TypeOK, StopInv, [Next]_vars PROVE StopInv'
    OBVIOUS
  <1> USE DEF StopInv, Stopping, servers, Ended
  <1>1. CASE Main
    BY <1>1 DEF Main, SetUp, StartGrpc, StartApi, Notify, BeginShutdown, GracefulStop,
                CloseServers, Exit, End
  <1>2. CASE Signal \/ TimerFires \/ Fatal \/ Kill
    BY <1>2 DEF Signal, TimerFires, Fatal, Kill, End
  <1>3. CASE UNCHANGED <<phase, servers, signalled, timer>>
    BY <1>3
  <1>4. ASSUME NEW c \in Grpc, Accept(c) \/ Proceed(c) \/ Leave(c) PROVE StopInv'
    BY <1>3, <1>4 DEF Accept, Proceed, Return, SendStarting, SendRunning, SendDone, Leave
  <1>5. ASSUME NEW a \in Approvals, AcceptApproval(a) \/ AnswerApproval(a) PROVE StopInv'
    BY <1>3, <1>5 DEF AcceptApproval, AnswerApproval
  <1>6. QED
    BY <1>1, <1>2, <1>3, <1>4, <1>5 DEF Next, vars

LEMMA StopInvariant == Spec => [](TypeOK /\ StopInv)
  <1>1. Init => StopInv
    BY DEF Init, StopInv, Stopping
  <1>2. QED
    BY <1>1, InitType, NextType, StopNext, PTL DEF Spec

THEOREM Unstuck == Spec => []NeverStuck
  <1>1. TypeOK /\ StopInv => NeverStuck
    <2> SUFFICES ASSUME TypeOK, StopInv, signalled, phase \notin Ended
                 PROVE  \/ phase \in {"serving", "metrics"}
                        \/ phase = "draining" /\ (Drained \/ \E c \in Grpc : pc[c] \in Active)
                        \/ phase = "closing" /\ (Closed \/ timer = "running")
      BY DEF NeverStuck
    <2>1. phase \in {"serving", "draining", "metrics", "closing"}
      BY DEF TypeOK, StopInv, Phases
    <2>2. CASE phase = "draining"
      BY <2>2 DEF Drained, InProgress
    <2>3. CASE phase = "closing"
      BY <2>3 DEF TypeOK, StopInv, Stopping, Closed
    <2>4. QED
      BY <2>1, <2>2, <2>3
  <1>2. QED
    BY <1>1, StopInvariant, PTL

LEMMA MainWinds ==
    ASSUME Main
    PROVE  At < At' /\ UNCHANGED pc
  <1> USE DEF calls
  <1>1. CASE SetUp \/ Exit
    BY <1>1 DEF SetUp, Exit, End, At
  <1>2. CASE StartGrpc \/ StartApi \/ Notify
    BY <1>2 DEF StartGrpc, StartApi, Notify, At
  <1>3. CASE BeginShutdown \/ GracefulStop \/ CloseServers
    BY <1>3 DEF BeginShutdown, GracefulStop, CloseServers, At
  <1>4. QED
    BY <1>1, <1>2, <1>3 DEF Main

LEMMA SuddenWinds ==
    ASSUME Signal \/ TimerFires \/ Fatal \/ Kill
    PROVE  At <= At' /\ UNCHANGED pc
  <1>1. UNCHANGED pc /\ (phase' = phase \/ phase' \in {"failed", "killed"})
    BY DEF Signal, TimerFires, Fatal, Kill, End, calls
  <1>2. QED
    BY <1>1 DEF At

LEMMA GotoKeeps ==
    ASSUME TypeOK, NEW c \in Calls, NEW stage, Goto(c, stage)
    PROVE  pc'[c] = stage /\ \A d \in Calls : d # c => pc'[d] = pc[d]
  BY DEF TypeOK, Goto

(* What a call's own steps leave it to do.                                 *)
LEMMA ProceedWinds ==
    ASSUME TypeOK, NEW c \in Grpc, Proceed(c)
    PROVE  /\ ToDo(c)' < ToDo(c)
           /\ \A d \in Grpc : d # c => ToDo(d)' = ToDo(d)
  <1>1. c \in Calls
    BY DEF Calls
  <1>2. CASE Return(c)
    BY <1>1, <1>2, GotoKeeps DEF Return, ToDo, Calls
  <1>3. CASE SendRunning(c)
    BY <1>1, <1>3, GotoKeeps DEF SendRunning, ToDo, Calls
  <1>4. CASE SendDone(c)
    BY <1>1, <1>4, GotoKeeps DEF SendDone, ToDo, Calls
  <1>5. CASE SendStarting(c)
    BY <1>1, <1>5, GotoKeeps DEF SendStarting, ToDo, Calls
  <1>6. QED
    BY <1>2, <1>3, <1>4, <1>5 DEF Proceed

(* A step of the model, seen by main and by the calls.                     *)
LEMMA StepWinds ==
    ASSUME TypeOK, StopInv, Next
    PROVE  /\ At <= At'
           /\ phase \in Stopping => \A c \in Grpc : ToDo(c)' <= ToDo(c)
  <1>0. At \in Nat /\ At' \in Nat /\ \A c : ToDo(c) \in Nat /\ ToDo(c)' \in Nat
    BY DEF At, ToDo
  <1>1. CASE Main
    BY <1>0, <1>1, MainWinds DEF ToDo
  <1>2. CASE Signal \/ TimerFires \/ Fatal \/ Kill
    BY <1>0, <1>2, SuddenWinds DEF ToDo
  <1>3. ASSUME NEW c \in Grpc, Accept(c)
        PROVE  phase' = phase /\ phase \notin Stopping
    BY <1>3 DEF Accept, StopInv
  <1>4. ASSUME NEW c \in Grpc, Proceed(c)
        PROVE  phase' = phase /\ \A d \in Grpc : ToDo(d)' <= ToDo(d)
    BY <1>0, <1>4, ProceedWinds DEF Proceed, Return, SendStarting, SendRunning, SendDone
  <1>5. ASSUME NEW c \in Grpc, Leave(c)
        PROVE  phase' = phase /\ \A d \in Grpc : ToDo(d)' <= ToDo(d)
    BY <1>0, <1>5 DEF Leave, ToDo
  <1>6. ASSUME NEW a \in Approvals, AcceptApproval(a) \/ AnswerApproval(a)
        PROVE  phase' = phase /\ \A d \in Grpc : ToDo(d)' <= ToDo(d)
    <2>1. phase' = phase /\ a \in Calls
      BY <1>6 DEF AcceptApproval, AnswerApproval, Calls
    <2>2. \A d \in Grpc : pc'[d] = pc[d]
      BY <1>6, <2>1, GotoKeeps, LifecycleAssumption
      DEF AcceptApproval, AnswerApproval, Grpc, Calls
    <2>3. QED
      BY <1>0, <2>1, <2>2 DEF ToDo
  <1>7. phase' = phase => At <= At'
    BY <1>0 DEF At
  <1>8. QED
    BY <1>1, <1>2, <1>3, <1>4, <1>5, <1>6, <1>7 DEF Next

THEOREM WindsDown == Spec => ShutdownWindsDown
  <1>1. TypeOK /\ StopInv /\ [Next]_vars =>
           [/\ At <= At'
            /\ Main => At < At'
            /\ phase \in Stopping => \A c \in Grpc : ToDo(c)' <= ToDo(c)
            /\ \A c \in Grpc : Proceed(c) => ToDo(c)' < ToDo(c)]_vars
    BY StepWinds, MainWinds, ProceedWinds
  <1>2. QED
    BY <1>1, StopInvariant, PTL DEF Spec, ShutdownWindsDown

=============================================================================
