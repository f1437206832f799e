---------------------------- MODULE JobRunProofs ----------------------------
(***************************************************************************)
(* What a script run's answer says about its pods, for every set of exit   *)
(* codes, every backoffLimit and every deadline, and for streams and retry *)
(* sequences of any length.                                                *)
(***************************************************************************)
EXTENDS JobRun, SequenceTheorems, TLAPS

(* Sequences over a set: a prefix, the tail, one more element, a larger    *)
(* set.                                                                    *)
LEMMA PrefixInSeq ==
    ASSUME NEW S, NEW s \in Seq(S), NEW n \in 0 .. Len(s)
    PROVE  SubSeq(s, 1, n) \in Seq(S) /\ Len(SubSeq(s, 1, n)) = n
  <1>1. \A i \in 1 .. n : s[i] \in S
    BY ElementOfSeq, LenProperties
  <1>2. n \in Int /\ 1 \in Int
    BY LenProperties
  <1>3. SubSeq(s, 1, n) \in Seq(S) /\ Len(SubSeq(s, 1, n)) = IF 1 <= n THEN n - 1 + 1 ELSE 0
    BY <1>1, <1>2, SubSeqProperties
  <1>4. QED
    BY <1>2, <1>3

LEMMA LargerSeq ==
    ASSUME NEW S, NEW T, S \subseteq T, NEW s \in Seq(S)
    PROVE  s \in Seq(T)
  OBVIOUS

LEMMA InSeq ==
    ASSUME NEW S, NEW s \in Seq(S)
    PROVE  /\ Len(s) \in Nat
           /\ DOMAIN s = 1 .. Len(s)
           /\ \A i \in DOMAIN s : s[i] \in S
           /\ \A e \in S : Append(s, e) \in Seq(S) /\ Len(Append(s, e)) = Len(s) + 1
           /\ s # <<>> => Head(s) \in S /\ Tail(s) \in Seq(S)
  BY LenProperties, ElementOfSeq, AppendProperties, HeadTailProperties

-----------------------------------------------------------------------------
(* Type correctness.  TypeOK is inductive.                                 *)

LEMMA FreshType == Fresh \in Status
  BY DEF Fresh, Status

LEMMA SendType ==
    ASSUME stream \in Seq(Event), NEW type \in {"modified", "deleted"},
           NEW s \in Status, Send(type, s)
    PROVE  stream' \in Seq(Event)
  <1>1. [type |-> type, status |-> s] \in Event
    BY DEF Event
  <1>2. QED
    BY <1>1, InSeq DEF Send

(* The status that each change of the Job leaves.                          *)
LEMMA JobType == TypeOK /\ job # None => job \in Status
  BY DEF TypeOK

LEMMA OverrunStatus ==
    ASSUME job \in Status, Overrun
    PROVE  /\ job' \in Status
           /\ job'.succeeded = job.succeeded /\ job'.condition = "failed"
  <1>1. CASE SomeRunning
    <2>1. job' = [job EXCEPT !.condition = "failed", !.failed = job.failed + 1]
      BY <1>1 DEF Overrun
    <2>2. job.failed + 1 \in Nat
      BY DEF Status
    <2>3. QED
      BY <2>1, <2>2 DEF Status
  <1>2. CASE ~SomeRunning
    <2>1. job' = [job EXCEPT !.condition = "failed", !.failed = job.failed]
      BY <1>2 DEF Overrun
    <2>2. QED
      BY <2>1 DEF Status
  <1>3. QED
    BY <1>1, <1>2

LEMMA ClusterType == TypeOK /\ Cluster => TypeOK'
  <1> SUFFICES ASSUME TypeOK, Cluster PROVE TypeOK'
    OBVIOUS
  <1>1. CASE StartPod
    <2>1. [running |-> TRUE, code |-> 0] \in Pod
      BY CodesAssumption DEF Pod
    <2>2. pods' \in Seq(Pod)
      BY <1>1, <2>1, InSeq DEF StartPod, TypeOK
    <2>3. QED
      BY <1>1, <2>2 DEF StartPod, TypeOK, watch, report
  <1>2. CASE EndPod
    <2>1. PICK i \in DOMAIN pods, code \in Codes :
             /\ pods' = [pods EXCEPT ![i] = [running |-> FALSE, code |-> code]]
             /\ codes' = codes \union {code}
      BY <1>2 DEF EndPod
    <2>2. [running |-> FALSE, code |-> code] \in Pod
      BY DEF Pod
    <2>3. pods' \in Seq(Pod)
      BY <2>1, <2>2, InSeq, ExceptSeq DEF TypeOK
    <2>4. codes' \subseteq Codes
      BY <2>1 DEF TypeOK
    <2>5. QED
      BY <1>2, <2>3, <2>4 DEF EndPod, TypeOK, watch, report
  <1>3. CASE CountPods
    <2>1. job \in Status
      BY <1>3, JobType DEF CountPods
    <2>2. PICK i \in DOMAIN pods :
             job' = IF pods[i].code = 0 THEN [job EXCEPT !.succeeded = 1]
                                        ELSE [job EXCEPT !.failed = i]
      BY <1>3 DEF CountPods
    <2>3. i \in Nat
      BY InSeq DEF TypeOK
    <2>4. job' \in Status
      BY <2>1, <2>2, <2>3 DEF Status
    <2>5. stream' \in Seq(Event)
      BY <1>3, <2>4, SendType DEF CountPods, TypeOK
    <2>6. QED
      BY <1>3, <2>4, <2>5 DEF CountPods, TypeOK, report
  <1>4. CASE FinishJob
    <2>1. job \in Status
      BY <1>4, JobType DEF FinishJob
    <2>2. job' \in Status
      BY <1>4, <2>1 DEF FinishJob, Status
    <2>3. stream' \in Seq(Event)
      BY <1>4, <2>2, SendType DEF FinishJob, TypeOK
    <2>4. QED
      BY <1>4, <2>2, <2>3 DEF FinishJob, TypeOK, report
  <1>5. CASE Overrun
    <2>1. job \in Status
      BY <1>5, JobType DEF Overrun
    <2>2. job' \in Status
      BY <1>5, <2>1, OverrunStatus
    <2>3. stream' \in Seq(Event)
      BY <1>5, <2>2, SendType DEF Overrun, TypeOK
    <2>4. pods' \in Seq(Pod)
      <3>1. CASE SomeRunning
        <4>1. pods \in Seq(Pod)
          BY DEF TypeOK
        <4>2. Len(pods) - 1 \in 0 .. Len(pods)
          BY <3>1, <4>1, InSeq DEF SomeRunning
        <4>3. SubSeq(pods, 1, Len(pods) - 1) \in Seq(Pod)
          BY <4>1, <4>2, PrefixInSeq
        <4>4. QED
          BY <1>5, <3>1, <4>1, <4>3 DEF Overrun
      <3>2. CASE ~SomeRunning
        BY <1>5, <3>2 DEF Overrun, TypeOK
      <3>3. QED
        BY <3>1, <3>2
    <2>5. QED
      BY <1>5, <2>2, <2>3, <2>4 DEF Overrun, TypeOK, report
  <1>6. CASE DeleteJob
    <2>1. stream' \in Seq(Event)
      BY <1>6, JobType, SendType DEF DeleteJob, TypeOK
    <2>2. pods' \in Seq(Pod)
      BY <1>6, EmptySeq DEF DeleteJob
    <2>3. QED
      BY <1>6, <2>1, <2>2 DEF DeleteJob, TypeOK, report
  <1>7. CASE BreakWatch
    <2>1. PICK n \in 0 .. Len(stream) :
             stream' \in {SubSeq(stream, 1, n),
                          Append(SubSeq(stream, 1, n), [type |-> "other", status |-> Fresh])}
      BY <1>7 DEF BreakWatch
    <2>2. SubSeq(stream, 1, n) \in Seq(Event)
      BY PrefixInSeq DEF TypeOK
    <2>3. [type |-> "other", status |-> Fresh] \in Event
      BY FreshType DEF Event
    <2>4. stream' \in Seq(Event)
      BY <2>1, <2>2, <2>3, InSeq
    <2>5. QED
      BY <1>7, <2>4 DEF BreakWatch, TypeOK, cluster, report
  <1>8. QED
    BY <1>1, <1>2, <1>3, <1>4, <1>5, <1>6, <1>7 DEF Cluster

LEMMA JudgeType ==
    ASSUME TypeOK, NEW s \in Status, Judge(s)
    PROVE  /\ stage' \in Working /\ view' \in Status
           /\ UNCHANGED <<result, audit, answer>>
  BY DEF TypeOK, Judge, Working

LEMMA ExecuteType == TypeOK /\ Execute => TypeOK'
  <1> SUFFICES ASSUME TypeOK, Execute PROVE TypeOK'
    OBVIOUS
  <1> USE DEF cluster, watch, report, Working, Answers
  <1>1. CASE CreateJob
    BY <1>1, FreshType DEF CreateJob, TypeOK
  <1>2. CASE CreateFails
    BY <1>2, FreshType DEF CreateFails, Fail, TypeOK
  <1>3. CASE OpenWatch
    <2>1. ASSUME job # None PROVE <<[type |-> "modified", status |-> job]>> \in Seq(Event)
      <3>1. [type |-> "modified", status |-> job] \in Event
        BY <2>1, JobType DEF Event
      <3>2. QED
        BY <3>1
    <2>2. stream' \in Seq(Event)
      BY <1>3, <2>1, EmptySeq DEF OpenWatch
    <2>3. left' \in 0 .. Limit + 1
      BY <1>3, BoundsAssumption DEF OpenWatch
    <2>4. QED
      BY <1>3, <2>2, <2>3 DEF OpenWatch, TypeOK
  <1>4. CASE WatchFails
    BY <1>4 DEF WatchFails, Fail, TypeOK
  <1>5. CASE CtxDone
    BY <1>5 DEF CtxDone, Fail, TypeOK
  <1>6. CASE TimedOut
    BY <1>6 DEF TimedOut, Fail, TypeOK
  <1>7. CASE NextRound
    BY <1>7 DEF NextRound, TypeOK
  <1>8. CASE Receive
    <2>1. Head(stream) \in Event /\ stream' \in Seq(Event)
      BY <1>8, InSeq DEF Receive, TypeOK
    <2>2. Head(stream).status \in Status
      BY <2>1 DEF Event
    <2>3. /\ stage' \in Working \union {"over"}
          /\ view' \in Status
          /\ UNCHANGED <<result, audit>>
          /\ answer' \in Answers
      <3>1. CASE Head(stream).type = "deleted"
        BY <1>8, <3>1 DEF Receive, Fail, TypeOK
      <3>2. CASE Head(stream).type = "other"
        BY <1>8, <3>2 DEF Receive, TypeOK
      <3>3. CASE Head(stream).type \notin {"deleted", "other"}
        <4>1. Judge(Head(stream).status)
          BY <1>8, <3>3 DEF Receive
        <4>2. QED
          BY <2>2, <4>1, JudgeType DEF TypeOK
      <3>4. QED
        BY <3>1, <3>2, <3>3
    <2>4. QED
      BY <1>8, <2>1, <2>3 DEF Receive, TypeOK
  <1>9. CASE ChannelClosed
    BY <1>9, JobType DEF ChannelClosed, TypeOK
  <1>10. CASE Poll
    BY <1>10, JobType, JudgeType DEF Poll, TypeOK
  <1>11. CASE FetchFails
    BY <1>11 DEF FetchFails, Fail, TypeOK
  <1>12. CASE Collect
    <2>1. ASSUME NEW i \in DOMAIN pods
          PROVE  [succeeded |-> Succeeded(view), code |-> ExitCode(pods[i])] \in Result
      <3>1. pods[i] \in Pod
        BY InSeq DEF TypeOK
      <3>2. QED
        BY <3>1, CodesAssumption DEF Pod, ExitCode, Succeeded, Result
    <2>2. [succeeded |-> Succeeded(view), code |-> 0] \in Result
      BY CodesAssumption DEF Succeeded, Result
    <2>3. result' \in Result
      BY <1>12, <2>1, <2>2 DEF Collect
    <2>4. QED
      BY <1>12, <2>3 DEF Collect, TypeOK
  <1>13. CASE Respond
    BY <1>13 DEF Respond, Logged, TypeOK
  <1>14. QED
    BY <1>1, <1>2, <1>3, <1>4, <1>5, <1>6, <1>7, <1>8, <1>9, <1>10, <1>11, <1>12, <1>13
       DEF Execute

LEMMA InitType == Init => TypeOK
  <1>1. <<>> \in Seq(Pod) /\ <<>> \in Seq(Event)
    BY EmptySeq
  <1>2. Limit + 1 \in 0 .. Limit + 1
    BY BoundsAssumption
  <1>3. QED
    BY <1>1, <1>2, FreshType DEF Init, TypeOK, Working, Answers

LEMMA NextType == TypeOK /\ [Next]_vars => TypeOK'
  <1> SUFFICES ASSUME TypeOK, [Next]_vars PROVE TypeOK'
    OBVIOUS
  <1>1. CASE Tick
    BY <1>1, BoundsAssumption DEF Tick, TypeOK, cluster, watch, report
  <1>2. CASE Crash
    BY <1>2 DEF Crash, TypeOK, cluster, watch, report
  <1>3. CASE UNCHANGED vars
    BY <1>3 DEF vars, TypeOK
  <1>4. QED
    BY <1>1, <1>2, <1>3, ClusterType, ExecuteType DEF Next

(* Every reachable state of a run has its type: counts are natural numbers,*)
(* events carry statuses, codes are codes a script may end with.           *)
THEOREM TypeCorrect == Spec => []TypeOK
  BY InitType, NextType, PTL DEF Spec

-----------------------------------------------------------------------------
(* What Execute knows is true.  The inductive invariant says it of the Job,*)
(* of every event on its way and of the status that collectResult works    *)
(* from: a status may be old, but counts and conditions only report what   *)
(* has happened, and what has happened stays so.                           *)

Cause == overran \/ \E code \in codes : code # 0

Real(s) == /\ s.condition = "complete" => s.succeeded > 0
           /\ s.succeeded > 0 => 0 \in codes
           /\ s.failed > 0 \/ s.condition = "failed" => Cause

RealEvents == {e \in Event : Real(e.status)}
RealPods == {p \in Pod : p.running \/ p.code \in codes}

Knowledge == /\ job # None => Real(job)
             /\ stream \in Seq(RealEvents)
             /\ pods \in Seq(RealPods)
             /\ Real(view)

Sound(r) == /\ r.succeeded => 0 \in codes
            /\ ~r.succeeded => Cause \/ ~open
            /\ r.code # 0 => r.code \in codes

ResultOK == result # None => Sound(result)

(* The result exists from collectResult on, and the answer follows it.     *)
Progress ==
    /\ stage \in {"create", "watch", "loop", "select", "collect"} => result = None
    /\ stage \in Working => answer = "none"
    /\ stage = "collect" => IsFinished(view) \/ ~open
    /\ stage = "audit" => result # None
    /\ answer = "succeeded" => result # None /\ result.succeeded
    /\ answer = "failed" => result # None /\ ~result.succeeded

TruthInv == TypeOK /\ Knowledge /\ ResultOK /\ Progress

LEMMA InitTruth == Init => TruthInv
  <1> SUFFICES ASSUME Init PROVE TruthInv
    OBVIOUS
  <1>1. Real(Fresh)
    BY DEF Fresh, Real
  <1>2. <<>> \in Seq(RealEvents) /\ <<>> \in Seq(RealPods)
    BY EmptySeq
  <1>3. QED
    BY <1>1, <1>2, InitType DEF Init, TruthInv, Knowledge, ResultOK, Progress

(* Truth is kept when history grows.                                       *)
LEMMA Grow ==
    ASSUME codes \subseteq codes', overran => overran'
    PROVE  /\ \A s : Real(s) => Real(s)'
           /\ RealEvents \subseteq RealEvents'
           /\ RealPods \subseteq RealPods'
  <1>1. Cause => Cause'
    BY DEF Cause
  <1>2. \A s : Real(s) => Real(s)'
    BY <1>1 DEF Real
  <1>3. QED
    BY <1>2 DEF RealEvents, RealPods

(* A step of the cluster preserves the invariant if the new Job, events    *)
(* and pods are true.                                                      *)
LEMMA ClusterKeeps ==
    ASSUME TruthInv, TypeOK', codes \subseteq codes', overran => overran', open' => open,
           UNCHANGED <<stage, report>>,
           job' # None => Real(job)', stream' \in Seq(RealEvents'), pods' \in Seq(RealPods')
    PROVE  TruthInv'
  <1>1. Real(view)'
    BY Grow DEF TruthInv, Knowledge, report
  <1>2. Knowledge'
    BY <1>1 DEF Knowledge
  <1>3. Cause => Cause'
    BY DEF Cause
  <1>4. ResultOK'
    BY <1>3 DEF TruthInv, ResultOK, Sound, report
  <1>5. Progress'
    BY DEF TruthInv, Progress, IsFinished, report
  <1>6. QED
    BY <1>2, <1>4, <1>5 DEF TruthInv

LEMMA OldKnowledge ==
    ASSUME TruthInv, codes \subseteq codes', overran => overran'
    PROVE  stream \in Seq(RealEvents') /\ pods \in Seq(RealPods')
  <1>1. RealEvents \subseteq RealEvents' /\ RealPods \subseteq RealPods'
    BY Grow
  <1>2. QED
    BY <1>1, LargerSeq DEF TruthInv, Knowledge

LEMMA SendTrue ==
    ASSUME TruthInv, codes \subseteq codes', overran => overran',
           NEW type \in {"modified", "deleted"}, NEW s \in Status, Real(s)', Send(type, s)
    PROVE  stream' \in Seq(RealEvents')
  <1>1. [type |-> type, status |-> s] \in Event
    BY DEF Event
  <1>2. [type |-> type, status |-> s] \in RealEvents'
    BY <1>1 DEF RealEvents
  <1>3. QED
    BY <1>2, OldKnowledge, InSeq DEF Send

LEMMA ClusterTruth == TruthInv /\ Cluster => TruthInv'
  <1> SUFFICES ASSUME TruthInv, Cluster PROVE TruthInv'
    OBVIOUS
  <1>1. TypeOK /\ TypeOK'
    BY ClusterType DEF TruthInv
  <1>2. CASE StartPod
    <2>1. [running |-> TRUE, code |-> 0] \in RealPods
      BY CodesAssumption DEF Pod, RealPods
    <2>2. pods' \in Seq(RealPods')
      BY <1>2, <2>1, InSeq DEF StartPod, TruthInv, Knowledge, RealPods
    <2>3. stream' \in Seq(RealEvents') /\ (job' # None => Real(job)')
      BY <1>2 DEF StartPod, watch, TruthInv, Knowledge, RealEvents, Real, Cause
    <2>4. QED
      BY <1>2, <1>1, <2>2, <2>3, ClusterKeeps DEF StartPod, watch
  <1>3. CASE EndPod
    <2>1. PICK i \in DOMAIN pods, code \in Codes :
             /\ pods' = [pods EXCEPT ![i] = [running |-> FALSE, code |-> code]]
             /\ codes' = codes \union {code}
      BY <1>3 DEF EndPod
    <2>2. codes \subseteq codes' /\ overran' = overran
      BY <1>3, <2>1 DEF EndPod
    <2>3. [running |-> FALSE, code |-> code] \in RealPods'
      BY <2>1 DEF RealPods, Pod
    <2>4. pods' \in Seq(RealPods')
      BY <2>1, <2>2, <2>3, OldKnowledge, InSeq, ExceptSeq
    <2>5. stream' \in Seq(RealEvents')
      BY <1>3, <2>2, OldKnowledge DEF EndPod, watch
    <2>6. job' # None => Real(job)'
      BY <1>3, <2>2, Grow DEF EndPod, TruthInv, Knowledge
    <2>7. QED
      BY <1>3, <1>1, <2>2, <2>4, <2>5, <2>6, ClusterKeeps DEF EndPod, watch
  <1>4. CASE CountPods
    <2>1. job \in Status /\ job' \in Status /\ codes' = codes /\ overran' = overran
      <3>1. PICK i \in DOMAIN pods :
               job' = IF pods[i].code = 0 THEN [job EXCEPT !.succeeded = 1]
                                          ELSE [job EXCEPT !.failed = i]
        BY <1>4 DEF CountPods
      <3>2. job \in Status /\ i \in Nat
        BY <1>4, <1>1, JobType, InSeq DEF CountPods, TypeOK
      <3>3. QED
        BY <1>4, <3>1, <3>2 DEF CountPods, Status
    <2>2. PICK i \in DOMAIN pods :
             /\ ~pods[i].running
             /\ job' = IF pods[i].code = 0 THEN [job EXCEPT !.succeeded = 1]
                                           ELSE [job EXCEPT !.failed = i]
      BY <1>4 DEF CountPods
    <2>3. pods[i].code \in codes
      BY <2>2, InSeq DEF TruthInv, Knowledge, RealPods
    <2>4. Real(job)
      BY <1>4 DEF CountPods, TruthInv, Knowledge
    <2>5. Real(job)'
      <3>1. CASE pods[i].code = 0
        <4>1. job' = [job EXCEPT !.succeeded = 1]
          BY <2>2, <3>1
        <4>2. QED
          BY <2>1, <2>3, <2>4, <3>1, <4>1 DEF Real, Cause, Status
      <3>2. CASE pods[i].code # 0
        <4>1. job' = [job EXCEPT !.failed = i]
          BY <2>2, <3>2
        <4>2. Cause'
          BY <2>1, <2>3, <3>2 DEF Cause
        <4>3. QED
          BY <2>1, <2>4, <4>1, <4>2 DEF Real, Status
      <3>3. QED
        BY <3>1, <3>2
    <2>6. stream' \in Seq(RealEvents') /\ pods' \in Seq(RealPods')
      <3>1. Send("modified", job') /\ pods' = pods
        BY <1>4 DEF CountPods
      <3>2. QED
        BY <2>1, <2>5, <3>1, SendTrue, OldKnowledge DEF Real, Cause
    <2>7. QED
      BY <1>4, <1>1, <2>1, <2>5, <2>6, ClusterKeeps DEF CountPods
  <1>5. CASE FinishJob
    <2>1. job \in Status /\ codes' = codes /\ overran' = overran /\ Real(job)
      BY <1>5, <1>1, JobType DEF FinishJob, TruthInv, Knowledge
    <2>2. job' \in Status
      BY <1>5, <2>1 DEF FinishJob, Status
    <2>3. Real(job)'
      BY <1>5, <2>1, BoundsAssumption DEF FinishJob, Real, Cause, Status
    <2>4. stream' \in Seq(RealEvents') /\ pods' \in Seq(RealPods')
      <3>1. Send("modified", job') /\ pods' = pods
        BY <1>5 DEF FinishJob
      <3>2. QED
        BY <2>1, <2>2, <2>3, <3>1, SendTrue, OldKnowledge DEF Real, Cause
    <2>5. QED
      BY <1>5, <1>1, <2>1, <2>3, <2>4, ClusterKeeps DEF FinishJob
  <1>6. CASE Overrun
    <2>1. job \in Status /\ codes' = codes /\ overran' /\ Real(job)
      BY <1>6, <1>1, JobType DEF Overrun, TruthInv, Knowledge
    <2>2. /\ job' \in Status
          /\ job'.succeeded = job.succeeded /\ job'.condition = "failed"
      BY <1>6, <2>1, OverrunStatus
    <2>3. Real(job)'
      BY <2>1, <2>2 DEF Real, Cause
    <2>4. pods' \in Seq(RealPods')
      <3>1. pods \in Seq(RealPods')
        BY <2>1, OldKnowledge
      <3>2. SomeRunning => SubSeq(pods, 1, Len(pods) - 1) \in Seq(RealPods')
        <4>1. SomeRunning => Len(pods) - 1 \in 0 .. Len(pods)
          BY <3>1, InSeq DEF SomeRunning
        <4>2. QED
          BY <3>1, <4>1, PrefixInSeq
      <3>3. QED
        BY <1>6, <3>1, <3>2 DEF Overrun
    <2>5. stream' \in Seq(RealEvents')
      <3>1. Send("modified", job')
        BY <1>6 DEF Overrun
      <3>2. QED
        BY <2>1, <2>2, <2>3, <3>1, SendTrue DEF Real, Cause
    <2>6. QED
      BY <1>6, <1>1, <2>1, <2>3, <2>4, <2>5, ClusterKeeps DEF Overrun
  <1>7. CASE DeleteJob
    <2>1. job \in Status /\ codes' = codes /\ overran' = overran /\ Real(job)
      BY <1>7, <1>1, JobType DEF DeleteJob, TruthInv, Knowledge
    <2>2. \A s : Real(s) => Real(s)'
      BY <2>1, Grow
    <2>3. stream' \in Seq(RealEvents')
      <3>1. Send("deleted", job)
        BY <1>7 DEF DeleteJob
      <3>2. PICK s \in Status : s = job
        BY <2>1
      <3>3. Real(s)
        BY <2>1, <3>2 DEF Real
      <3>4. Real(s)'
        BY <2>2, <3>3
      <3>5. Send("deleted", s)
        BY <3>1, <3>2 DEF Send
      <3>6. QED
        BY <2>1, <3>4, <3>5, SendTrue
    <2>4. pods' \in Seq(RealPods')
      BY <1>7, EmptySeq DEF DeleteJob
    <2>5. QED
      BY <1>7, <1>1, <2>1, <2>3, <2>4, ClusterKeeps DEF DeleteJob
  <1>8. CASE BreakWatch
    <2>1. PICK n \in 0 .. Len(stream) :
             stream' \in {SubSeq(stream, 1, n),
                          Append(SubSeq(stream, 1, n), [type |-> "other", status |-> Fresh])}
      BY <1>8 DEF BreakWatch
    <2>2. codes' = codes /\ overran' = overran /\ job' = job /\ pods' = pods
      BY <1>8 DEF BreakWatch, cluster
    <2>3. stream \in Seq(RealEvents') /\ pods' \in Seq(RealPods')
      BY <2>2, OldKnowledge
    <2>4. SubSeq(stream, 1, n) \in Seq(RealEvents')
      BY <2>3, PrefixInSeq
    <2>5. [type |-> "other", status |-> Fresh] \in RealEvents'
      BY FreshType DEF Event, RealEvents, Real, Fresh
    <2>6. stream' \in Seq(RealEvents')
      BY <2>1, <2>4, <2>5, InSeq
    <2>7. job' # None => Real(job)'
      BY <2>2 DEF TruthInv, Knowledge, Real, Cause
    <2>8. QED
      BY <1>8, <1>1, <2>2, <2>3, <2>6, <2>7, ClusterKeeps DEF BreakWatch
  <1>9. QED
    BY <1>2, <1>3, <1>4, <1>5, <1>6, <1>7, <1>8 DEF Cluster


(* A step of Execute leaves history alone, and shuts no watch.  It         *)
(* preserves the invariant if the new stream and view are true.            *)
LEMMA ExecuteKeeps ==
    ASSUME TruthInv, TypeOK', UNCHANGED <<codes, overran, pods>>,
           job' # None => Real(job'), stream' \in Seq(RealEvents), Real(view'),
           ResultOK', Progress'
    PROVE  TruthInv'
  <1>1. \A s : Real(s)' <=> Real(s)
    BY DEF Real, Cause
  <1>2. RealEvents' = RealEvents /\ RealPods' = RealPods
    BY <1>1 DEF RealEvents, RealPods
  <1>3. stream' \in Seq(RealEvents') /\ pods' \in Seq(RealPods')
    BY <1>2 DEF TruthInv, Knowledge
  <1>4. ASSUME job' # None PROVE Real(job)'
    <2>1. Real(job')
      BY <1>4
    <2>2. QED
      BY <2>1 DEF Real, Cause
  <1>5. Real(view)'
    BY DEF Real, Cause
  <1>6. QED
    BY <1>3, <1>4, <1>5 DEF TruthInv, Knowledge


LEMMA FreshIsReal == Real(Fresh)
  BY DEF Fresh, Real

(* What Wait makes of a true status.                                       *)
LEMMA JudgeTrue ==
    ASSUME TruthInv, stage = "select", NEW s \in Status, Real(s), Judge(s),
           UNCHANGED <<codes, overran, open>>
    PROVE  Real(view') /\ ResultOK' /\ Progress'
  <1>1. Real(view')
    BY DEF Judge, TruthInv, Knowledge
  <1>2. result = None /\ result' = None /\ answer = "none" /\ answer' = "none"
    BY DEF Judge, TruthInv, Progress, Working
  <1>3. stage' = "loop" \/ (stage' = "collect" /\ IsFinished(view'))
    BY DEF Judge
  <1>4. IsFinished(view') = IsFinished(view)'
    BY DEF IsFinished
  <1>5. QED
    BY <1>1, <1>2, <1>3, <1>4 DEF ResultOK, Progress

LEMMA FailKeeps ==
    ASSUME TruthInv, Fail, UNCHANGED <<codes, overran, open>>
    PROVE  Real(view') /\ ResultOK' /\ Progress'
  <1>1. Real(view')
    BY DEF Fail, TruthInv, Knowledge
  <1>2. ResultOK'
    BY DEF Fail, TruthInv, ResultOK, Sound, Cause
  <1>3. Progress'
    BY DEF Fail, TruthInv, Progress, Working
  <1>4. QED
    BY <1>1, <1>2, <1>3

LEMMA ExecuteTruth == TruthInv /\ Execute => TruthInv'
  <1> SUFFICES ASSUME TruthInv, Execute PROVE TruthInv'
    OBVIOUS
  <1> USE DEF cluster, watch, report
  <1>1. TypeOK /\ TypeOK'
    BY ExecuteType DEF TruthInv
  <1>2. /\ job # None => Real(job)
        /\ stream \in Seq(RealEvents)
        /\ pods \in Seq(RealPods)
        /\ Real(view)
    BY DEF TruthInv, Knowledge
  <1>3. CASE CreateJob
    <2>1. ResultOK' /\ Progress'
      BY <1>3 DEF CreateJob, TruthInv, ResultOK, Progress, Working
    <2>2. QED
      BY <1>3, <1>1, <1>2, <2>1, FreshIsReal, ExecuteKeeps DEF CreateJob
  <1>4. CASE CreateFails
    BY <1>4, <1>1, <1>2, FreshIsReal, FailKeeps, ExecuteKeeps DEF CreateFails
  <1>5. CASE OpenWatch
    <2>1. ResultOK' /\ Progress'
      BY <1>5 DEF OpenWatch, TruthInv, ResultOK, Progress, Working
    <2>2. stream' \in Seq(RealEvents)
      <3>1. CASE job = None
        BY <1>5, <3>1, EmptySeq DEF OpenWatch
      <3>2. CASE job # None
        <4>1. [type |-> "modified", status |-> job] \in RealEvents
          BY <1>1, <1>2, <3>2, JobType DEF RealEvents, Event
        <4>2. QED
          BY <1>5, <3>2, <4>1 DEF OpenWatch
      <3>3. QED
        BY <3>1, <3>2
    <2>3. QED
      BY <1>5, <1>1, <1>2, <2>1, <2>2, ExecuteKeeps DEF OpenWatch
  <1>6. CASE WatchFails
    BY <1>6, <1>1, <1>2, FailKeeps, ExecuteKeeps DEF WatchFails
  <1>7. CASE CtxDone
    BY <1>7, <1>1, <1>2, FailKeeps, ExecuteKeeps DEF CtxDone
  <1>8. CASE TimedOut
    BY <1>8, <1>1, <1>2, FailKeeps, ExecuteKeeps DEF TimedOut
  <1>9. CASE NextRound
    <2>1. ResultOK' /\ Progress'
      BY <1>9 DEF NextRound, TruthInv, ResultOK, Progress, Working
    <2>2. QED
      BY <1>9, <1>1, <1>2, <2>1, ExecuteKeeps DEF NextRound
  <1>10. CASE Receive
    <2>1. Head(stream) \in RealEvents /\ stream' \in Seq(RealEvents)
      BY <1>10, <1>2, InSeq DEF Receive
    <2>2. Head(stream).status \in Status /\ Real(Head(stream).status)
      BY <2>1 DEF RealEvents, Event
    <2>3. Real(view') /\ ResultOK' /\ Progress'
      <3>1. CASE Head(stream).type = "deleted"
        BY <1>10, <3>1, FailKeeps DEF Receive
      <3>2. CASE Head(stream).type = "other"
        BY <1>10, <1>2, <3>2 DEF Receive, TruthInv, ResultOK, Progress, Working
      <3>3. CASE Head(stream).type \notin {"deleted", "other"}
        <4>1. Judge(Head(stream).status) /\ stage = "select"
          BY <1>10, <3>3 DEF Receive
        <4>2. PICK s \in Status : s = Head(stream).status
          BY <2>2
        <4>3. Real(s) /\ Judge(s)
          BY <2>2, <4>1, <4>2
        <4>4. QED
          BY <1>10, <4>1, <4>3, JudgeTrue DEF Receive
      <3>4. QED
        BY <3>1, <3>2, <3>3
    <2>4. QED
      BY <1>10, <1>1, <1>2, <2>1, <2>3, ExecuteKeeps DEF Receive
  <1>11. CASE ChannelClosed
    <2>1. ResultOK' /\ Progress'
      BY <1>11 DEF ChannelClosed, TruthInv, ResultOK, Progress, Working
    <2>2. QED
      BY <1>11, <1>1, <1>2, <2>1, ExecuteKeeps DEF ChannelClosed
  <1>12. CASE Poll
    <2>1. PICK s \in Status : s = job
      BY <1>12, <1>1, JobType DEF Poll
    <2>2. Real(s) /\ Judge(s)
      BY <1>12, <1>2, <2>1 DEF Poll
    <2>3. QED
      BY <1>12, <1>1, <1>2, <2>2, JudgeTrue, ExecuteKeeps DEF Poll
  <1>13. CASE FetchFails
    BY <1>13, <1>1, <1>2, FailKeeps, ExecuteKeeps DEF FetchFails
  <1>14. CASE Collect
    <2>1. view \in Status /\ Real(view) /\ (IsFinished(view) \/ ~open)
      BY <1>14, <1>1, <1>2 DEF Collect, TypeOK, TruthInv, Progress
    <2>2. /\ Succeeded(view) => 0 \in codes
          /\ ~Succeeded(view) => Cause \/ ~open
      BY <2>1 DEF Succeeded, Real, IsFinished, Status
    <2>3. ASSUME NEW i \in DOMAIN pods PROVE ExitCode(pods[i]) # 0 => ExitCode(pods[i]) \in codes
      BY <1>2, InSeq DEF ExitCode, RealPods
    <2>4. result' # None /\ Sound(result')
      <3>1. result' \in Result
        <4>1. ASSUME NEW i \in DOMAIN pods
              PROVE  [succeeded |-> Succeeded(view), code |-> ExitCode(pods[i])] \in Result
          <5>1. pods[i] \in Pod
            BY <1>1, InSeq DEF TypeOK
          <5>2. QED
            BY <5>1, CodesAssumption DEF Pod, ExitCode, Succeeded, Result
        <4>2. [succeeded |-> Succeeded(view), code |-> 0] \in Result
          BY CodesAssumption DEF Succeeded, Result
        <4>3. QED
          BY <1>14, <4>1, <4>2 DEF Collect
      <3>2. Sound(result')
        BY <1>14, <2>2, <2>3 DEF Collect, Sound
      <3>3. QED
        BY <3>1, <3>2, NoneAssumption
    <2>5. ResultOK'
      BY <1>14, <2>4 DEF Collect, ResultOK, Sound, Cause
    <2>6. Progress'
      BY <1>14, <2>4 DEF Collect, TruthInv, Progress, Working
    <2>7. QED
      BY <1>14, <1>1, <1>2, <2>5, <2>6, ExecuteKeeps DEF Collect
  <1>15. CASE Respond
    <2>1. ResultOK'
      BY <1>15 DEF Respond, TruthInv, ResultOK, Sound, Cause
    <2>2. Progress'
      BY <1>15 DEF Respond, TruthInv, Progress, Working
    <2>3. QED
      BY <1>15, <1>1, <1>2, <2>1, <2>2, ExecuteKeeps DEF Respond
  <1>16. QED
    BY <1>3, <1>4, <1>5, <1>6, <1>7, <1>8, <1>9, <1>10, <1>11, <1>12, <1>13, <1>14, <1>15
       DEF Execute

LEMMA NextTruth == TruthInv /\ [Next]_vars => TruthInv'
  <1> SUFFICES ASSUME TruthInv, [Next]_vars PROVE TruthInv'
    OBVIOUS
  <1> USE DEF cluster, watch, report
  <1>1. TypeOK'
    BY NextType DEF TruthInv
  <1>2. CASE Tick \/ Crash \/ UNCHANGED vars
    <2>1. UNCHANGED <<cluster, watch, report>>
      BY <1>2 DEF Tick, Crash, vars
    <2>2. Knowledge' /\ ResultOK'
      BY <2>1 DEF TruthInv, Knowledge, ResultOK, RealEvents, RealPods, Sound, Real, Cause
    <2>3. stage' = stage \/ stage' = "crashed"
      BY <1>2 DEF Tick, Crash, vars
    <2>4. Progress'
      BY <2>1, <2>3 DEF TruthInv, Progress, IsFinished, Working
    <2>5. QED
      BY <1>1, <2>2, <2>4 DEF TruthInv
  <1>3. QED
    BY <1>2, ClusterTruth, ExecuteTruth DEF Next

LEMMA TruthInvariant == Spec => []TruthInv
  BY InitTruth, NextTruth, PTL DEF Spec

(* Execute answers SUCCEEDED only if a pod of the Job exited with 0 (Wait, *)
(* collectResult).                                                         *)
THEOREM SuccessReal == Spec => []SuccessIsReal
  <1>1. TruthInv => SuccessIsReal
    BY DEF TruthInv, Progress, ResultOK, Sound, SuccessIsReal
  <1>2. QED
    BY <1>1, TruthInvariant, PTL

(* Execute answers FAILED only after a failure of the script, a Job that   *)
(* ran out of its time or a watch that broke off (isJobFailed, Wait).      *)
THEOREM FailureCaused == Spec => []FailureHasCause
  <1>1. TruthInv => FailureHasCause
    BY DEF TruthInv, Progress, ResultOK, Sound, Cause, FailureHasCause
  <1>2. QED
    BY <1>1, TruthInvariant, PTL

-----------------------------------------------------------------------------
(* Without retries there is one pod and one exit code at most, and once    *)
(* there is a code nothing runs or starts any more.                        *)

NoMore == job = None \/ job.condition # "none" \/ job.failed > 0 \/ pods # <<>>

Once == /\ Len(pods) <= 1
        /\ \A a, b \in codes : a = b
        /\ codes # {} => ~SomeRunning /\ NoMore
        /\ stage = "create" => job = None /\ pods = <<>> /\ codes = {}
        /\ result # None => (result.succeeded => result.code = 0)

OnceInv == TruthInv /\ (Retries = 0 => Once)

LEMMA NoMoreStarts ==
    ASSUME TypeOK, Retries = 0, NoMore
    PROVE  ~CanStart
  <1>1. ASSUME CanStart PROVE FALSE
    <2>1. job \in Status /\ job.failed = 0 /\ Len(pods) <= 0
      BY <1>1, JobType DEF CanStart, Status
    <2>2. pods = <<>>
      BY <2>1, EmptySeq DEF TypeOK
    <2>3. QED
      BY <1>1, <2>1, <2>2 DEF NoMore, CanStart
  <1>2. QED
    BY <1>1

LEMMA InitOnce == Init => Once
  BY EmptySeq DEF Init, Once

(* Steps that leave the pods as they are and the Job no less finished.     *)
LEMMA OnceKept ==
    ASSUME Once, UNCHANGED <<pods, codes>>, codes # {} => (NoMore => NoMore'),
           stage' = "create" => stage = "create" /\ job' = job,
           result' # None => (result'.succeeded => result'.code = 0)
    PROVE  Once'
  BY DEF Once, SomeRunning

LEMMA ClusterOnce == OnceInv /\ Retries = 0 /\ Cluster => Once'
  <1> SUFFICES ASSUME OnceInv, Retries = 0, Cluster PROVE Once'
    OBVIOUS
  <1> USE DEF cluster, watch, report
  <1>1. Once /\ TypeOK /\ pods \in Seq(Pod)
    BY DEF OnceInv, TruthInv, TypeOK
  <1>2. CASE StartPod
    <2>1. codes = {}
      BY <1>2, <1>1, NoMoreStarts DEF StartPod, Once
    <2>2. job \in Status /\ Len(pods) <= 0
      BY <1>2, <1>1, JobType DEF StartPod, CanStart, Status
    <2>3. [running |-> TRUE, code |-> 0] \in Pod
      BY CodesAssumption DEF Pod
    <2>4. Len(pods') <= 1
      BY <1>2, <1>1, <2>2, <2>3, InSeq DEF StartPod
    <2>5. stage' # "create"
      BY <1>2, <1>1 DEF StartPod, CanStart, Once
    <2>6. QED
      BY <1>2, <1>1, <2>1, <2>4, <2>5 DEF StartPod, Once
  <1>3. CASE EndPod
    <2>1. PICK i \in DOMAIN pods, code \in Codes :
             /\ pods[i].running
             /\ pods' = [pods EXCEPT ![i] = [running |-> FALSE, code |-> code]]
             /\ codes' = codes \union {code}
      BY <1>3 DEF EndPod
    <2>2. codes = {}
      BY <1>1, <2>1 DEF Once, SomeRunning
    <2>3. DOMAIN pods = 1 .. Len(pods) /\ Len(pods) \in Nat /\ Len(pods) <= 1
      BY <1>1, InSeq DEF Once
    <2>4. [running |-> FALSE, code |-> code] \in Pod
      BY DEF Pod
    <2>5. Len(pods') = Len(pods) /\ pods' \in Seq(Pod)
      BY <1>1, <2>1, <2>3, <2>4, ExceptSeq
    <2>6. pods' # <<>> /\ ~SomeRunning'
      BY <2>1, <2>3, <2>5, InSeq, EmptySeq DEF SomeRunning
    <2>7. stage' # "create"
      BY <1>3, <1>1, <2>1, <2>3, EmptySeq DEF EndPod, Once
    <2>8. QED
      BY <1>3, <1>1, <2>1, <2>2, <2>3, <2>5, <2>6, <2>7 DEF EndPod, Once, NoMore
  <1>4. CASE CountPods
    <2>1. PICK i \in DOMAIN pods :
             job' = IF pods[i].code = 0 THEN [job EXCEPT !.succeeded = 1]
                                        ELSE [job EXCEPT !.failed = i]
      BY <1>4 DEF CountPods
    <2>2. pods # <<>>
      BY <2>1
    <2>3. QED
      BY <1>4, <1>1, <2>2, OnceKept DEF CountPods, Once, NoMore
  <1>5. CASE FinishJob
    <2>1. job \in Status
      BY <1>5, <1>1, JobType DEF FinishJob
    <2>2. job'.condition # "none"
      BY <1>5, <2>1 DEF FinishJob, Status
    <2>3. QED
      BY <1>5, <1>1, <2>2, OnceKept DEF FinishJob, Once, NoMore
  <1>6. CASE Overrun
    <2>1. job \in Status
      BY <1>6, <1>1, JobType DEF Overrun
    <2>2. job'.condition # "none"
      BY <1>6, <2>1, OverrunStatus
    <2>3. CASE pods' = pods
      BY <1>6, <1>1, <2>2, <2>3, OnceKept DEF Overrun, Once, NoMore
    <2>4. CASE pods' # pods
      <3>1. SomeRunning /\ pods' = SubSeq(pods, 1, Len(pods) - 1)
        BY <1>6, <2>4 DEF Overrun
      <3>2. codes = {}
        BY <1>1, <3>1 DEF Once
      <3>3. Len(pods) - 1 \in 0 .. Len(pods) /\ Len(pods) <= 1
        BY <1>1, <3>1, InSeq DEF SomeRunning, Once
      <3>4. Len(pods') <= 1
        BY <1>1, <3>1, <3>3, PrefixInSeq
      <3>5. QED
        BY <1>6, <1>1, <3>2, <3>4 DEF Overrun, Once
    <2>5. QED
      BY <2>3, <2>4
  <1>7. CASE DeleteJob
    BY <1>7, <1>1, EmptySeq DEF DeleteJob, Once, NoMore, SomeRunning
  <1>8. CASE BreakWatch
    BY <1>8, <1>1, OnceKept DEF BreakWatch, Once, NoMore
  <1>9. QED
    BY <1>2, <1>3, <1>4, <1>5, <1>6, <1>7, <1>8 DEF Cluster

LEMMA ExecuteOnce == OnceInv /\ Retries = 0 /\ Execute => Once'
  <1> SUFFICES ASSUME OnceInv, Retries = 0, Execute PROVE Once'
    OBVIOUS
  <1> USE DEF cluster, watch, report
  <1>1. Once /\ TypeOK
    BY DEF OnceInv, TruthInv
  <1>2. CASE CreateJob
    BY <1>2, <1>1, OnceKept DEF CreateJob, Once
  <1>3. CASE CreateFails
    BY <1>3, <1>1, OnceKept DEF CreateFails, Fail, Once
  <1>4. CASE OpenWatch
    BY <1>4, <1>1, OnceKept DEF OpenWatch, Once, NoMore
  <1>5. CASE WatchFails \/ CtxDone \/ TimedOut \/ FetchFails
    BY <1>5, <1>1, OnceKept DEF WatchFails, CtxDone, TimedOut, FetchFails, Fail, Once, NoMore
  <1>6. CASE NextRound \/ ChannelClosed
    BY <1>6, <1>1, OnceKept DEF NextRound, ChannelClosed, Once, NoMore
  <1>7. CASE Receive
    <2>1. stage' # "create" /\ result' = result /\ job' = job
      <3>1. CASE Head(stream).type = "deleted"
        BY <1>7, <3>1 DEF Receive, Fail
      <3>2. CASE Head(stream).type = "other"
        BY <1>7, <3>2 DEF Receive
      <3>3. CASE Head(stream).type \notin {"deleted", "other"}
        <4>1. Judge(Head(stream).status)
          BY <1>7, <3>3 DEF Receive
        <4>2. QED
          BY <1>7, <4>1 DEF Receive, Judge
      <3>4. QED
        BY <3>1, <3>2, <3>3
    <2>2. QED
      BY <1>7, <1>1, <2>1, OnceKept DEF Receive, Once, NoMore
  <1>8. CASE Poll
    <2>1. stage' # "create" /\ result' = result
      BY <1>8 DEF Poll, Judge
    <2>2. QED
      BY <1>8, <1>1, <2>1, OnceKept DEF Poll, Once, NoMore
  <1>9. CASE Collect
    <2>1. Real(view) /\ pods \in Seq(RealPods)
      BY DEF OnceInv, TruthInv, Knowledge
    <2>2. ASSUME Succeeded(view), NEW i \in DOMAIN pods PROVE ExitCode(pods[i]) = 0
      <3>1. 0 \in codes
        BY <2>1, <2>2 DEF Succeeded, Real
      <3>2. pods[i].running \/ pods[i].code \in codes
        BY <2>1, InSeq DEF RealPods
      <3>3. QED
        BY <1>1, <3>1, <3>2 DEF ExitCode, Once
    <2>3. result'.succeeded => result'.code = 0
      BY <1>9, <2>2 DEF Collect
    <2>4. QED
      BY <1>9, <1>1, <2>3, OnceKept DEF Collect, NoMore
  <1>10. CASE Respond
    BY <1>10, <1>1, OnceKept DEF Respond, Once, NoMore
  <1>11. QED
    BY <1>2, <1>3, <1>4, <1>5, <1>6, <1>7, <1>8, <1>9, <1>10 DEF Execute

LEMMA NextOnce == OnceInv /\ [Next]_vars => OnceInv'
  <1> SUFFICES ASSUME OnceInv, [Next]_vars PROVE OnceInv'
    OBVIOUS
  <1>1. TruthInv'
    BY NextTruth DEF OnceInv
  <1>2. ASSUME Retries = 0, Tick \/ Crash \/ UNCHANGED vars PROVE Once'
    <2>1. Once
      BY <1>2 DEF OnceInv
    <2>2. QED
      BY <1>2, <2>1, OnceKept DEF Tick, Crash, vars, cluster, report, Once, NoMore
  <1>3. Retries = 0 => Once'
    BY <1>2, ClusterOnce, ExecuteOnce DEF Next
  <1>4. QED
    BY <1>1, <1>3 DEF OnceInv

LEMMA OnceInvariant == Spec => []OnceInv
  <1>1. Init => OnceInv
    BY InitTruth, InitOnce DEF OnceInv
  <1>2. QED
    BY <1>1, NextOnce, PTL DEF Spec

(* The exit code in the output is a pod's; without retries a success is    *)
(* never reported with another code than 0 (collectResult).                *)
THEOREM CodeReal == Spec => []CodeIsReal
  <1>1. OnceInv => CodeIsReal
    BY DEF OnceInv, TruthInv, ResultOK, Sound, Once, CodeIsReal
  <1>2. QED
    BY <1>1, OnceInvariant, PTL

(* A verdict given while the watch holds and the Job is in its time means  *)
(* that, without retries, the script neither runs nor will run (Wait).     *)
THEOREM Quiet == Spec => []QuietAfterVerdict
  <1>1. OnceInv => QuietAfterVerdict
    <2> SUFFICES ASSUME OnceInv, answer \in {"succeeded", "failed"}, open, ~overran, Retries = 0
                 PROVE  ~SomeRunning /\ ~CanStart
      BY DEF QuietAfterVerdict
    <2>1. codes # {}
      BY DEF OnceInv, TruthInv, Progress, ResultOK, Sound, Cause
    <2>2. TypeOK /\ ~SomeRunning /\ NoMore
      BY <2>1 DEF OnceInv, TruthInv, Once
    <2>3. QED
      BY <2>2, NoMoreStarts
  <1>2. QED
    BY <1>1, OnceInvariant, PTL

-----------------------------------------------------------------------------
(* The Job only moves on: what a status reports of an outcome is still so  *)
(* of the Job that exists, however old the status is.  Won is final for    *)
(* any backoffLimit, Lost excludes a success when there are no retries.    *)

Won(s) == s.succeeded > 0
Lost(s) == s.failed > 0 \/ s.condition = "failed"

Upheld(s) == job # None => (Won(s) => Won(job)) /\ (Lost(s) => Lost(job))
UpheldEvents == {e \in Event : Upheld(e.status)}

Settled == job # None => /\ Won(job) => job.condition # "failed"
                         /\ Retries = 0 => ~(Won(job) /\ Lost(job))

Shown == /\ stream \in Seq(UpheldEvents)
         /\ Upheld(view)
         /\ stage = "create" => job = None /\ ~open /\ stream = <<>> /\ view = Fresh

Held == result # None /\ job # None =>
           /\ result.succeeded => Won(job)
           /\ ~result.succeeded /\ open => Lost(job)

StandInv == OnceInv /\ Settled /\ Shown /\ Held

LEMMA FreshUpheld == Upheld(Fresh) /\ Upheld(Fresh)' /\ ~Won(Fresh) /\ ~Lost(Fresh)
  BY DEF Fresh, Upheld, Won, Lost

LEMMA InitStand == Init => Settled /\ Shown /\ Held
  <1> SUFFICES ASSUME Init PROVE Settled /\ Shown /\ Held
    OBVIOUS
  <1>1. <<>> \in Seq(UpheldEvents)
    BY EmptySeq
  <1>2. QED
    BY <1>1, FreshUpheld DEF Init, Settled, Shown, Held

(* How a step of the controller changes a Job that it leaves in place.     *)
Onward == job' # None => /\ job # None
                         /\ Won(job) => Won(job')
                         /\ Lost(job) => Lost(job')

LEMMA CountOnward ==
    ASSUME OnceInv, Settled, CountPods
    PROVE  Onward /\ Settled'
  <1>1. TypeOK /\ TruthInv
    BY DEF OnceInv, TruthInv
  <1>2. job \in Status /\ job # None /\ job.condition = "none" /\ Real(job)
    BY <1>1, JobType DEF CountPods, TruthInv, Knowledge
  <1>3. PICK i \in DOMAIN pods :
           /\ ~pods[i].running /\ i > job.failed
           /\ job' = IF pods[i].code = 0 THEN [job EXCEPT !.succeeded = 1]
                                         ELSE [job EXCEPT !.failed = i]
    BY DEF CountPods
  <1>4. i \in Nat /\ i <= Len(pods) /\ Len(pods) \in Nat /\ pods[i].code \in codes
    BY <1>1, <1>3, InSeq DEF TypeOK, TruthInv, Knowledge, RealPods
  <1>5. job'.condition = "none" /\ Onward
    BY <1>2, <1>3, <1>4 DEF Onward, Won, Lost, Status
  <1>6. ASSUME Retries = 0 PROVE ~(Won(job') /\ Lost(job'))
    <2>1. Len(pods) <= 1 /\ \A a, b \in codes : a = b
      BY <1>6 DEF OnceInv, Once
    <2>2. job.failed = 0
      BY <1>2, <1>3, <1>4, <2>1 DEF Status
    <2>3. CASE pods[i].code = 0
      BY <1>2, <1>3, <2>2, <2>3 DEF Won, Lost, Status
    <2>4. CASE pods[i].code # 0
      <3>1. ~Won(job)
        BY <1>2, <1>4, <2>1, <2>4 DEF Won, Real
      <3>2. job' = [job EXCEPT !.failed = i]
        BY <1>3, <2>4
      <3>3. QED
        BY <1>2, <3>1, <3>2 DEF Won, Status
    <2>5. QED
      BY <2>3, <2>4
  <1>7. QED
    BY <1>5, <1>6 DEF Settled

LEMMA ClusterOnward ==
    ASSUME OnceInv, Settled, Cluster
    PROVE  Onward /\ Settled'
  <1>1. TypeOK
    BY DEF OnceInv, TruthInv
  <1>2. CASE StartPod \/ EndPod \/ BreakWatch
    <2>1. job' = job
      BY <1>2 DEF StartPod, EndPod, BreakWatch, cluster
    <2>2. QED
      BY <2>1 DEF Onward, Settled
  <1>3. CASE CountPods
    BY <1>3, CountOnward
  <1>4. CASE FinishJob
    <2>1. job \in Status /\ job # None
      BY <1>4, <1>1, JobType DEF FinishJob
    <2>2. /\ job.condition = "none"
          /\ job.succeeded > 0 \/ job.failed > Retries
          /\ job' = [job EXCEPT !.condition = IF job.succeeded > 0 THEN "complete" ELSE "failed"]
      BY <1>4 DEF FinishJob
    <2>3. CASE Won(job)
      <3>1. job' = [job EXCEPT !.condition = "complete"]
        BY <2>2, <2>3 DEF Won
      <3>2. QED
        BY <2>1, <2>2, <2>3, <3>1 DEF Onward, Settled, Won, Lost, Status
    <2>4. CASE ~Won(job)
      <3>1. job' = [job EXCEPT !.condition = "failed"]
        BY <2>2, <2>4 DEF Won
      <3>2. QED
        BY <2>1, <2>4, <3>1 DEF Onward, Settled, Won, Lost, Status
    <2>5. QED
      BY <2>3, <2>4
  <1>5. CASE Overrun
    <2>1. job \in Status /\ job # None /\ job.succeeded = 0
      BY <1>5, <1>1, JobType DEF Overrun
    <2>2. job'.succeeded = 0 /\ job'.condition = "failed"
      BY <1>5, <2>1, OverrunStatus
    <2>3. QED
      BY <2>1, <2>2 DEF Onward, Settled, Won, Lost
  <1>6. CASE DeleteJob
    BY <1>6 DEF DeleteJob, Onward, Settled
  <1>7. QED
    BY <1>2, <1>3, <1>4, <1>5, <1>6 DEF Cluster

(* So what was upheld by the old Job is upheld by the new one.             *)
LEMMA StillUpheld ==
    ASSUME Onward
    PROVE  /\ \A s : Upheld(s) => Upheld(s)'
           /\ UpheldEvents \subseteq UpheldEvents'
  <1>1. \A s : Upheld(s) => Upheld(s)'
    BY DEF Onward, Upheld, Won, Lost
  <1>2. QED
    BY <1>1 DEF UpheldEvents

LEMMA StreamUpheld ==
    ASSUME Onward, stream \in Seq(UpheldEvents)
    PROVE  stream \in Seq(UpheldEvents')
  BY StillUpheld, LargerSeq

LEMMA SendUpheld ==
    ASSUME Onward, stream \in Seq(UpheldEvents), job' \in Status, Send("modified", job')
    PROVE  stream' \in Seq(UpheldEvents')
  <1>1. [type |-> "modified", status |-> job'] \in UpheldEvents'
    BY DEF Event, UpheldEvents, Upheld
  <1>2. QED
    BY <1>1, StreamUpheld, InSeq DEF Send

LEMMA ChangedJob ==
    ASSUME TypeOK, job # None, CountPods \/ FinishJob \/ Overrun
    PROVE  job' \in Status
  <1>1. job \in Status
    BY JobType
  <1>2. CASE CountPods
    <2>1. PICK i \in DOMAIN pods :
             job' = IF pods[i].code = 0 THEN [job EXCEPT !.succeeded = 1]
                                        ELSE [job EXCEPT !.failed = i]
      BY <1>2 DEF CountPods
    <2>2. i \in Nat
      BY InSeq DEF TypeOK
    <2>3. QED
      BY <1>1, <2>1, <2>2 DEF Status
  <1>3. CASE FinishJob
    BY <1>1, <1>3 DEF FinishJob, Status
  <1>4. CASE Overrun
    BY <1>1, <1>4, OverrunStatus
  <1>5. QED
    BY <1>2, <1>3, <1>4

LEMMA ClusterStand == StandInv /\ Cluster => Settled' /\ Shown' /\ Held'
  <1> SUFFICES ASSUME StandInv, Cluster PROVE Settled' /\ Shown' /\ Held'
    OBVIOUS
  <1>1. OnceInv /\ TypeOK /\ TypeOK' /\ Settled /\ Shown /\ Held
    BY ClusterType DEF StandInv, OnceInv, TruthInv
  <1>2. Onward /\ Settled'
    BY <1>1, ClusterOnward
  <1>3. stream \in Seq(UpheldEvents) /\ stream \in Seq(UpheldEvents') /\ Upheld(view)'
    <2>1. Upheld(view) => Upheld(view)'
      <3>1. view' = view
        BY DEF Cluster, StartPod, EndPod, CountPods, FinishJob, Overrun, DeleteJob, BreakWatch, report
      <3>2. QED
        BY <1>2, <3>1 DEF Onward, Upheld, Won, Lost
    <2>2. QED
      BY <1>1, <1>2, <2>1, StreamUpheld DEF Shown
  <1>4. UNCHANGED <<stage, result, view>> /\ (open' => open)
    BY DEF Cluster, StartPod, EndPod, CountPods, FinishJob, Overrun, DeleteJob, BreakWatch,
           watch, report
  <1>5. Held'
    BY <1>1, <1>2, <1>4 DEF Held, Onward, Won, Lost
  <1>6. stage = "create" => job' = None /\ ~open' /\ stream' = <<>> /\ view' = Fresh
    <2>1. ASSUME stage = "create" PROVE stream' = stream
      <3>1. ~open
        BY <1>1, <2>1 DEF Shown
      <3>2. QED
        BY <3>1 DEF Cluster, StartPod, EndPod, CountPods, FinishJob, Overrun, DeleteJob,
                    BreakWatch, Send, watch
    <2>2. QED
      BY <1>1, <1>2, <1>4, <2>1 DEF Shown, Onward
  <1>7. stream' \in Seq(UpheldEvents')
    <2>1. CASE StartPod \/ EndPod
      BY <1>3, <2>1 DEF StartPod, EndPod, watch
    <2>2. CASE CountPods \/ FinishJob \/ Overrun
      <3>1. job # None /\ Send("modified", job')
        BY <2>2 DEF CountPods, FinishJob, Overrun
      <3>2. job' \in Status
        BY <1>1, <2>2, <3>1, ChangedJob
      <3>3. QED
        BY <1>2, <1>3, <3>1, <3>2, SendUpheld
    <2>3. CASE DeleteJob
      <3>1. job \in Status /\ job' = None /\ Send("deleted", job)
        BY <1>1, <2>3, JobType DEF DeleteJob
      <3>2. [type |-> "deleted", status |-> job] \in UpheldEvents'
        BY <3>1 DEF Event, UpheldEvents, Upheld
      <3>3. QED
        BY <1>3, <3>1, <3>2, InSeq DEF Send
    <2>4. CASE BreakWatch
      <3>1. PICK n \in 0 .. Len(stream) :
               stream' \in {SubSeq(stream, 1, n),
                            Append(SubSeq(stream, 1, n), [type |-> "other", status |-> Fresh])}
        BY <2>4 DEF BreakWatch
      <3>2. SubSeq(stream, 1, n) \in Seq(UpheldEvents')
        BY <1>3, PrefixInSeq
      <3>3. [type |-> "other", status |-> Fresh] \in UpheldEvents'
        BY FreshType, FreshUpheld DEF Event, UpheldEvents
      <3>4. QED
        BY <3>1, <3>2, <3>3, InSeq
    <2>5. QED
      BY <2>1, <2>2, <2>3, <2>4 DEF Cluster
  <1>8. Shown'
    BY <1>3, <1>4, <1>6, <1>7 DEF Shown
  <1>9. QED
    BY <1>2, <1>5, <1>8

(* A step of Execute leaves the Job as it is, creates it or creates none.  *)
LEMMA SameJob ==
    ASSUME job' = job
    PROVE  /\ \A s : Upheld(s) <=> Upheld(s)'
           /\ UpheldEvents' = UpheldEvents
           /\ Settled => Settled'
  <1>1. \A s : Upheld(s) <=> Upheld(s)'
    BY DEF Upheld
  <1>2. QED
    BY <1>1 DEF UpheldEvents, Settled

LEMMA CreateStand ==
    ASSUME StandInv, CreateJob \/ CreateFails
    PROVE  Settled' /\ Shown' /\ Held'
  <1>1. /\ stream = <<>> /\ view = Fresh /\ result = None /\ stage' # "create"
        /\ UNCHANGED <<stream, view, result>>
        /\ job' = Fresh \/ job' = None
    BY DEF CreateJob, CreateFails, Fail, watch, report, StandInv, OnceInv, TruthInv, Progress,
           Shown
  <1>2. Settled' /\ Upheld(view)'
    BY <1>1 DEF Settled, Upheld, Fresh, Won, Lost
  <1>3. stream' \in Seq(UpheldEvents')
    BY <1>1, EmptySeq
  <1>4. QED
    BY <1>1, <1>2, <1>3 DEF Shown, Held

(* The steps that leave Job, result and watch as they are and take the     *)
(* next status, if any, from the Job or from the stream.                   *)
LEMMA LookStand ==
    ASSUME StandInv, job' = job, result' = result, open' = open, stage' # "create",
           stream' \in Seq(UpheldEvents), Upheld(view')
    PROVE  Settled' /\ Shown' /\ Held'
  <1>1. Settled' /\ UpheldEvents' = UpheldEvents
    BY SameJob DEF StandInv
  <1>2. Upheld(view)'
    BY DEF Upheld
  <1>3. QED
    BY <1>1, <1>2 DEF StandInv, Shown, Held, Won, Lost

LEMMA JobUpheld == Upheld(job)
  BY DEF Upheld

LEMMA ReceiveStand ==
    ASSUME StandInv, Receive
    PROVE  Settled' /\ Shown' /\ Held'
  <1>1. stream \in Seq(UpheldEvents) /\ stream # <<>> /\ Upheld(view)
    BY DEF Receive, StandInv, Shown
  <1>2. Head(stream) \in UpheldEvents /\ stream' \in Seq(UpheldEvents)
    BY <1>1, InSeq DEF Receive
  <1>3. Upheld(Head(stream).status)
    BY <1>2 DEF UpheldEvents
  <1>4. Upheld(view') /\ stage' # "create" /\ result' = result
    <2>1. CASE Head(stream).type = "deleted"
      BY <1>1, <2>1 DEF Receive, Fail
    <2>2. CASE Head(stream).type = "other"
      BY <1>1, <2>2 DEF Receive, report
    <2>3. CASE Head(stream).type \notin {"deleted", "other"}
      <3>1. Judge(Head(stream).status)
        BY <2>3 DEF Receive
      <3>2. view' = view \/ view' = Head(stream).status
        BY <3>1 DEF Judge
      <3>3. QED
        BY <1>1, <1>3, <3>1, <3>2 DEF Judge
    <2>4. QED
      BY <2>1, <2>2, <2>3
  <1>5. job' = job /\ open' = open
    BY DEF Receive, cluster
  <1>6. QED
    BY <1>2, <1>4, <1>5, LookStand

(* The verdict that collectResult takes from its status is upheld.         *)
LEMMA CollectStand ==
    ASSUME StandInv, Collect
    PROVE  Settled' /\ Shown' /\ Held'
  <1>1. Settled' /\ Shown'
    <2>1. job' = job /\ UNCHANGED <<stream, view>> /\ stage' # "create"
      BY DEF Collect, cluster, watch
    <2>2. Settled' /\ UpheldEvents' = UpheldEvents
      BY <2>1, SameJob DEF StandInv
    <2>3. Upheld(view)'
      BY <2>1 DEF StandInv, Shown, Upheld
    <2>4. QED
      BY <2>1, <2>2, <2>3 DEF StandInv, Shown
  <1>2. result'.succeeded = Succeeded(view)
    BY DEF Collect
  <1>3. view \in Status /\ Real(view) /\ Upheld(view) /\ (IsFinished(view) \/ ~open)
    BY DEF Collect, StandInv, OnceInv, TruthInv, TypeOK, Knowledge, Progress, Shown
  <1>4. ~Won(view) /\ open => Lost(view)
    BY <1>3 DEF Won, Lost, IsFinished, Real, Status
  <1>5. Held'
    <2>1. job' = job /\ open' = open
      BY DEF Collect, cluster, watch
    <2>2. QED
      BY <1>2, <1>3, <1>4, <2>1 DEF Held, Upheld, Succeeded, Won, Lost
  <1>6. QED
    BY <1>1, <1>5

LEMMA ExecuteStand == StandInv /\ Execute => Settled' /\ Shown' /\ Held'
  <1> SUFFICES ASSUME StandInv, Execute PROVE Settled' /\ Shown' /\ Held'
    OBVIOUS
  <1>1. stream \in Seq(UpheldEvents) /\ Upheld(view) /\ TypeOK
    BY DEF StandInv, Shown, OnceInv, TruthInv
  <1>2. CASE CreateJob \/ CreateFails
    BY <1>2, CreateStand
  <1>3. CASE OpenWatch
    <2>1. job' = job /\ view' = view /\ result' = result /\ result = None /\ stage' # "create"
      BY <1>3 DEF OpenWatch, cluster, report, StandInv, OnceInv, TruthInv, Progress
    <2>2. Settled' /\ UpheldEvents' = UpheldEvents /\ Upheld(view)'
      BY <1>1, <2>1, SameJob DEF StandInv, Upheld
    <2>3. stream' \in Seq(UpheldEvents)
      <3>1. CASE job = None
        BY <1>3, <3>1, EmptySeq DEF OpenWatch
      <3>2. CASE job # None
        <4>1. [type |-> "modified", status |-> job] \in UpheldEvents
          BY <1>1, <3>2, JobType, JobUpheld DEF UpheldEvents, Event
        <4>2. QED
          BY <1>3, <3>2, <4>1 DEF OpenWatch
      <3>3. QED
        BY <3>1, <3>2
    <2>4. QED
      BY <2>1, <2>2, <2>3 DEF Shown, Held
  <1>4. CASE WatchFails \/ CtxDone \/ TimedOut \/ NextRound \/ FetchFails
    <2>1. /\ UNCHANGED <<job, result, open, stream, view>> /\ stage' # "create"
      BY <1>4 DEF WatchFails, CtxDone, TimedOut, NextRound, FetchFails, Fail, cluster, watch,
                  report
    <2>2. QED
      BY <1>1, <2>1, LookStand
  <1>5. CASE Receive
    BY <1>5, ReceiveStand
  <1>6. CASE ChannelClosed
    <2>1. /\ UNCHANGED <<job, result, open, stream>> /\ stage' # "create" /\ view' = job
      BY <1>6 DEF ChannelClosed, cluster, watch
    <2>2. QED
      BY <1>1, <2>1, JobUpheld, LookStand
  <1>7. CASE Poll
    <2>1. /\ UNCHANGED <<job, result, open, stream>> /\ stage' # "create"
          /\ view' = view \/ view' = job
      BY <1>7 DEF Poll, Judge, cluster, watch
    <2>2. QED
      BY <1>1, <2>1, JobUpheld, LookStand
  <1>8. CASE Collect
    BY <1>8, CollectStand
  <1>9. CASE Respond
    <2>1. UNCHANGED <<job, result, open, stream, view>> /\ stage' # "create"
      BY <1>9 DEF Respond, cluster, watch
    <2>2. QED
      BY <1>1, <2>1, LookStand
  <1>10. QED
    BY <1>2, <1>3, <1>4, <1>5, <1>6, <1>7, <1>8, <1>9 DEF Execute

LEMMA StandInvariant == Spec => []StandInv
  <1>1. Init => StandInv
    BY InitTruth, InitOnce, InitStand DEF StandInv, OnceInv
  <1>2. StandInv /\ [Next]_vars => StandInv'
    <2> SUFFICES ASSUME StandInv, [Next]_vars PROVE StandInv'
      OBVIOUS
    <2>1. OnceInv'
      BY NextOnce DEF StandInv
    <2>2. CASE Tick \/ Crash \/ UNCHANGED vars
      <3>1. UNCHANGED <<job, result, open, stream, view>> /\ (stage' = "create" => stage = "create")
        BY <2>2 DEF Tick, Crash, vars, cluster, watch, report
      <3>2. Settled' /\ UpheldEvents' = UpheldEvents /\ Upheld(view)'
        BY <3>1, SameJob DEF StandInv, Shown, Upheld
      <3>3. QED
        BY <2>1, <3>1, <3>2 DEF StandInv, Shown, Held, Won, Lost
    <2>3. CASE Cluster \/ Execute
      BY <2>1, <2>3, ClusterStand, ExecuteStand DEF StandInv
    <2>4. QED
      BY <2>2, <2>3 DEF Next
  <1>3. QED
    BY <1>1, <1>2, PTL DEF Spec

(* The Job never contradicts a verdict that was given on it: a success     *)
(* stands for any backoffLimit, a failure without retries and while the    *)
(* watch holds, however stale the event was that it was read from (Wait,   *)
(* collectResult).                                                         *)
THEOREM Stands == Spec => []VerdictStands
  <1>1. StandInv => VerdictStands
    <2> SUFFICES ASSUME StandInv, job # None
                 PROVE  /\ answer = "succeeded" => job.succeeded > 0 /\ job.condition # "failed"
                        /\ answer = "failed" /\ open /\ Retries = 0 =>
                              job.succeeded = 0 /\ job.condition # "complete"
      BY DEF VerdictStands
    <2>1. job \in Status /\ Real(job) /\ Settled /\ Held
      BY JobType DEF StandInv, OnceInv, TruthInv, Knowledge
    <2>2. ASSUME answer = "succeeded" PROVE job.succeeded > 0 /\ job.condition # "failed"
      <3>1. result # None /\ result.succeeded
        BY <2>2 DEF StandInv, OnceInv, TruthInv, Progress
      <3>2. QED
        BY <2>1, <3>1 DEF Held, Settled, Won
    <2>3. ASSUME answer = "failed", open, Retries = 0
          PROVE  job.succeeded = 0 /\ job.condition # "complete"
      <3>1. result # None /\ ~result.succeeded
        BY <2>3 DEF StandInv, OnceInv, TruthInv, Progress
      <3>2. Lost(job) /\ ~Won(job)
        BY <2>1, <2>3, <3>1 DEF Held, Settled
      <3>3. QED
        BY <2>1, <3>2 DEF Won, Real, Status
    <2>4. QED
      BY <2>2, <2>3
  <1>2. QED
    BY <1>1, StandInvariant, PTL

-----------------------------------------------------------------------------
(* What there is of progress without fairness: Execute never goes back, no *)
(* step gives Wait more time than OpenWatch gave it, and when there is     *)
(* none left Wait can begin no other round.                                *)

Turn == CASE stage = "create" -> 5
          [] stage = "watch" -> 4
          [] stage \in {"loop", "select"} -> 3
          [] stage = "collect" -> 2
          [] stage = "audit" -> 1
          [] OTHER -> 0

(* Nothing that happens in the cluster, no event, poll or error takes      *)
(* Execute back or puts its deadline off; each of its own steps takes it   *)
(* on, or is a round of Wait's loop that its deadline still allows (the    *)
(* loop of Wait; ExecuteReturns is this and fairness).                     *)
WaitWindsDown ==
    [][/\ Turn' <= Turn
       /\ Turn' = 3 /\ Turn = 3 => left' <= left
       /\ Tick => left' < left
       /\ Execute /\ Turn' = Turn => \/ stage = "loop" /\ stage' = "select" /\ left > 0
                                     \/ stage = "select" /\ stage' = "loop"]_vars

LEMMA TurnOf ==
    ASSUME TypeOK
    PROVE  /\ Turn \in 0 .. 5
           /\ stage = "create" => Turn = 5
           /\ stage = "watch" => Turn = 4
           /\ stage \in {"loop", "select"} => Turn = 3
           /\ stage = "collect" => Turn = 2
           /\ stage = "audit" => Turn = 1
           /\ stage \in {"over", "crashed"} => Turn = 0
  BY DEF TypeOK, Turn, Working

(* Turn is a function of the stage; this is TurnOf of the next state.      *)
LEMMA TurnNext ==
    ASSUME TypeOK'
    PROVE  /\ Turn' \in 0 .. 5
           /\ stage' = "create" => Turn' = 5
           /\ stage' = "watch" => Turn' = 4
           /\ stage' \in {"loop", "select"} => Turn' = 3
           /\ stage' = "collect" => Turn' = 2
           /\ stage' = "audit" => Turn' = 1
           /\ stage' \in {"over", "crashed"} => Turn' = 0
  BY DEF TypeOK, Turn, Working

LEMMA SelectNext ==
    ASSUME Receive \/ ChannelClosed \/ Poll \/ FetchFails
    PROVE  /\ stage = "select" /\ stage' \in {"loop", "collect", "over"}
           /\ left' = left
  <1>1. CASE Receive
    <2>1. CASE Head(stream).type = "deleted"
      BY <1>1, <2>1 DEF Receive, Fail
    <2>2. CASE Head(stream).type = "other"
      BY <1>1, <2>2 DEF Receive
    <2>3. CASE Head(stream).type \notin {"deleted", "other"}
      <3>1. Judge(Head(stream).status)
        BY <1>1, <2>3 DEF Receive
      <3>2. QED
        BY <1>1, <3>1 DEF Receive, Judge
    <2>4. QED
      BY <2>1, <2>2, <2>3
  <1>2. CASE ChannelClosed
    BY <1>2 DEF ChannelClosed
  <1>3. CASE Poll
    BY <1>3 DEF Poll, Judge
  <1>4. CASE FetchFails
    BY <1>4 DEF FetchFails, Fail
  <1>5. QED
    BY <1>1, <1>2, <1>3, <1>4

LEMMA ExecuteWinds ==
    ASSUME TypeOK, Execute
    PROVE  \/ Turn' < Turn
           \/ /\ Turn' = Turn /\ left' = left
              /\ \/ stage = "loop" /\ stage' = "select" /\ left > 0
                 \/ stage = "select" /\ stage' = "loop"
  <1>1. TypeOK' /\ left \in Nat
    BY ExecuteType DEF TypeOK
  <1>2. CASE CreateJob \/ CreateFails
    BY <1>1, <1>2, TurnOf, TurnNext DEF CreateJob, CreateFails, Fail
  <1>3. CASE OpenWatch \/ WatchFails
    BY <1>1, <1>3, TurnOf, TurnNext DEF OpenWatch, WatchFails, Fail
  <1>4. CASE CtxDone \/ TimedOut
    BY <1>1, <1>4, TurnOf, TurnNext DEF CtxDone, TimedOut, Fail
  <1>5. CASE NextRound
    BY <1>1, <1>5, TurnOf, TurnNext DEF NextRound, Expired
  <1>6. CASE Receive \/ ChannelClosed \/ Poll \/ FetchFails
    <2>1. stage = "select" /\ stage' \in {"loop", "collect", "over"} /\ left' = left
      BY <1>6, SelectNext
    <2>2. QED
      BY <1>1, <2>1, TurnOf, TurnNext
  <1>7. CASE Collect \/ Respond
    BY <1>1, <1>7, TurnOf, TurnNext DEF Collect, Respond
  <1>8. QED
    BY <1>2, <1>3, <1>4, <1>5, <1>6, <1>7 DEF Execute

LEMMA OthersWind ==
    ASSUME TypeOK, Cluster \/ Tick \/ Crash
    PROVE  /\ Turn' <= Turn
           /\ left' <= left
           /\ Tick => left' < left
  <1>1. TypeOK' /\ left \in Nat
    BY NextType DEF TypeOK, Next
  <1>2. CASE Cluster
    <2>1. stage' = stage /\ left' = left
      BY <1>2 DEF Cluster, StartPod, EndPod, CountPods, FinishJob, Overrun, DeleteJob, BreakWatch
    <2>2. QED
      BY <1>1, <2>1, TurnOf DEF Turn, Tick
  <1>3. CASE Tick
    BY <1>1, <1>3, TurnOf DEF Tick, Turn
  <1>4. CASE Crash
    BY <1>1, <1>4, TurnOf, TurnNext DEF Crash, Tick, Working
  <1>5. QED
    BY <1>2, <1>3, <1>4

THEOREM WindsDown == Spec => WaitWindsDown
  <1>1. TypeOK /\ [Next]_vars =>
           [/\ Turn' <= Turn
            /\ Turn' = 3 /\ Turn = 3 => left' <= left
            /\ Tick => left' < left
            /\ Execute /\ Turn' = Turn => \/ stage = "loop" /\ stage' = "select" /\ left > 0
                                          \/ stage = "select" /\ stage' = "loop"]_vars
    <2> SUFFICES ASSUME TypeOK, Next
                 PROVE  /\ Turn' <= Turn
                        /\ Turn' = 3 /\ Turn = 3 => left' <= left
                        /\ Tick => left' < left
                        /\ Execute /\ Turn' = Turn =>
                              \/ stage = "loop" /\ stage' = "select" /\ left > 0
                              \/ stage = "select" /\ stage' = "loop"
      OBVIOUS
    <2>1. left \in Nat /\ Turn \in 0 .. 5 /\ TypeOK'
      BY TurnOf, NextType DEF TypeOK
    <2>2. Turn' \in 0 .. 5
      BY <2>1, TurnNext
    <2>3. ASSUME Execute PROVE /\ Turn' <= Turn
                               /\ Turn' = Turn => left' <= left
                               /\ Turn' = Turn => \/ stage = "loop" /\ stage' = "select" /\ left > 0
                                                  \/ stage = "select" /\ stage' = "loop"
      BY <2>1, <2>2, <2>3, ExecuteWinds
    <2>4. ASSUME Cluster \/ Tick \/ Crash
          PROVE  Turn' <= Turn /\ left' <= left /\ (Tick => left' < left)
      BY <2>4, OthersWind
    <2>5. QED
      BY <2>3, <2>4 DEF Next
  <1>2. QED
    BY <1>1, TypeCorrect, PTL DEF Spec, WaitWindsDown

=============================================================================
