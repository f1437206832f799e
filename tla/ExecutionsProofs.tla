-------------------------- MODULE ExecutionsProofs --------------------------
(***************************************************************************)
(* Approvals, Jobs and verdicts of any number of Execute calls, for every  *)
(* set of executions, steps, scripts, users and requests.                  *)
(***************************************************************************)
EXTENDS Executions, RegisterProofs, SequenceTheorems, TLAPS

(* A call that arrived has a request, and so a key and the name of a Job.  *)
CallInv == \A c \in Calls : pc[c] # "idle" => ask[c] \in Asked

LEMMA AskFacts ==
    ASSUME NEW c \in Calls, ask[c] \in Asked
    PROVE  /\ Id(c) \in Executions /\ ask[c].step \in Steps
           /\ MyKey(c) \in Keys
           /\ JobName(c) \in Names
  <1>1. ask[c] \in Ask
    BY FreshAssumption
  <1>2. Id(c) \in Executions /\ ask[c].step \in Steps
    BY <1>1, FreshAssumption DEF Ask, Id
  <1>3. QED
    BY <1>2 DEF MyKey, Keys, JobName, Names

(* The requests of calls that have arrived stay.                           *)
Settled == \A c \in Calls : pc[c] # "idle" => ask'[c] = ask[c] /\ pc'[c] # "idle"

LEMMA SameRequest ==
    ASSUME NEW c \in Calls, ask'[c] = ask[c]
    PROVE  /\ Id(c)' = Id(c)
           /\ MyKey(c)' = MyKey(c)
           /\ JobName(c)' = JobName(c)
  BY DEF Id, MyKey, JobName

(* A step of a call that touches neither requests nor the cluster.         *)
Move(c) == \/ PrepareFails(c) \/ Check(c) \/ CheckBlind(c) \/ SubmitRequest(c) \/ SubmitFails(c)
           \/ CreateFails(c) \/ OpenWatch(c) \/ Told(c) \/ Poll(c) \/ Refetch(c)
           \/ GiveUp(c) \/ Crash(c)
Work(n) == StartScript(n) \/ FinishScript(n) \/ Controller(n)

LEMMA NextCases ==
    ASSUME Next
    PROVE  \/ Decision
           \/ \E c \in Calls : Arrive(c) \/ CreateJob(c) \/ Move(c)
           \/ \E n \in Names : Work(n)
  BY DEF Next, Proceed, Move, Work

(* Where a call may have made a Job.                                       *)
Made == {"watch", "wait", "succeeded", "failed", "gone"}

LEMMA JobFacts ==
    ASSUME TypeOK, NEW n \in Names, jobs[n] # None
    PROVE  jobs[n] \in Job /\ jobs[n].by \in Calls /\ jobs[n].state \in States
  BY DEF TypeOK, Job

LEMMA MadeFacts ==
    ASSUME TypeOK, NEW n \in Names
    PROVE  /\ made[n] \in Seq(Calls) /\ Len(made[n]) \in Nat
           /\ DOMAIN made[n] = 1 .. Len(made[n])
           /\ \A i \in DOMAIN made[n] : made[n][i] \in Calls
  BY LenProperties, ElementOfSeq DEF TypeOK

LEMMA AppendFacts ==
    ASSUME TypeOK, NEW n \in Names, NEW c \in Calls
    PROVE  /\ Append(made[n], c) \in Seq(Calls)
           /\ Len(Append(made[n], c)) = Len(made[n]) + 1
           /\ DOMAIN Append(made[n], c) = 1 .. (Len(made[n]) + 1)
           /\ \A i \in 1 .. Len(made[n]) : Append(made[n], c)[i] = made[n][i]
           /\ Append(made[n], c)[Len(made[n]) + 1] = c
  <1>1. made[n] \in Seq(Calls)
    BY MadeFacts
  <1>2. QED
    BY <1>1, AppendProperties, LenProperties

-----------------------------------------------------------------------------
(* Type correctness, with CallInv.                                         *)

(* A move goes from a stage to a stage, and what a call has made stays so. *)
LEMMA MoveFacts ==
    ASSUME TypeOK, CallInv, NEW c \in Calls, Move(c)
    PROVE  \E stage \in Waiting \union Over :
               /\ pc' = [pc EXCEPT ![c] = stage]
               /\ pc[c] \in Waiting
               /\ pc[c] \in Made => stage \in Made
               /\ UNCHANGED <<ask, cluster>>
  <1> USE DEF Waiting, Over, Made, Goto
  <1>1. CASE PrepareFails(c) \/ CheckBlind(c) \/ SubmitFails(c) \/ CreateFails(c) \/ GiveUp(c)
             \/ Crash(c)
    BY <1>1 DEF PrepareFails, CheckBlind, SubmitFails, CreateFails, GiveUp, Crash
  <1>2. CASE Check(c)
    BY <1>2 DEF Check, StageAfter
  <1>3. CASE SubmitRequest(c) \/ OpenWatch(c)
    BY <1>3 DEF SubmitRequest, OpenWatch
  <1>4. CASE Told(c)
    <2>1. JobName(c) \in Names
      BY <1>4, AskFacts DEF CallInv, Told
    <2>2. made[JobName(c)][open[c]] \in Calls
      BY <1>4, <2>1, MadeFacts DEF Told
    <2>3. QED
      BY <1>4, <2>2 DEF Told, Answer, TypeOK
  <1>5. CASE Poll(c) \/ Refetch(c)
    BY <1>5 DEF Poll, Refetch, Answer, Finished
  <1>6. QED
    BY <1>1, <1>2, <1>3, <1>4, <1>5 DEF Move

LEMMA CallNext ==
    ASSUME TypeOK, CallInv, [Next]_vars
    PROVE  CallInv' /\ Settled
  <1>1. CASE UNCHANGED <<pc, ask>>
    BY <1>1 DEF CallInv, Settled
  <1>2. CASE Decision
    BY <1>1, <1>2 DEF Decision
  <1>3. ASSUME NEW c \in Calls, Arrive(c) PROVE CallInv' /\ Settled
    BY <1>3 DEF Arrive, Goto, CallInv, Settled, TypeOK
  <1>4. ASSUME NEW c \in Calls, CreateJob(c) PROVE CallInv' /\ Settled
    BY <1>4 DEF CreateJob, Goto, CallInv, Settled, TypeOK
  <1>5. ASSUME NEW c \in Calls, Move(c) PROVE CallInv' /\ Settled
    <2>1. PICK stage \in Waiting \union Over :
              pc' = [pc EXCEPT ![c] = stage] /\ pc[c] \in Waiting /\ UNCHANGED ask
      BY <1>5, MoveFacts
    <2>2. QED
      BY <2>1 DEF CallInv, Settled, TypeOK, Waiting, Over
  <1>6. ASSUME NEW n \in Names, Work(n) PROVE CallInv' /\ Settled
    BY <1>1, <1>6 DEF Work, Controller, StartScript, FinishScript, FinishJob, Overrun,
                      Finish, StopScript, DeleteJob
  <1>7. QED
    BY <1>1, <1>2, <1>3, <1>4, <1>5, <1>6, NextCases DEF vars

(* The register keeps its type whichever record replaces another.          *)
LEMMA RequestIsRecord == ASSUME NEW r \in Requests PROVE r \in Record
  <1>1. \A t \in {0} : t \in Times
    BY TimesAssumption
  <1>2. QED
    BY <1>1 DEF Requests, Record, Statuses

LEMMA ReplaceType ==
    ASSUME RegTypeOK, NEW r \in Record, Replace(r)
    PROVE  register' \in [Keys -> Record \union {None}]
  BY DEF RegTypeOK, Replace

LEMMA SettledRecord ==
    ASSUME NEW r \in Record, NEW verdict \in Statuses, NEW u \in Users, NEW t \in Times
    PROVE  [r EXCEPT !.status = verdict, !.by = u, !.at = t] \in Record
  BY DEF Record

LEMMA ExpiredRecord == ASSUME NEW r \in Record PROVE [r EXCEPT !.status = "expired"] \in Record
  BY DEF Record, Statuses

LEMMA RegType ==
    ASSUME RegTypeOK, Decision \/ \E c \in Calls : SubmitRequest(c)
    PROVE  RegTypeOK'
  <1>1. CASE \E c \in Calls : SubmitRequest(c)
    <2>1. PICK r : Submit(r)
      BY <1>1 DEF SubmitRequest
    <2>2. QED
      BY <2>1, RequestIsRecord, ReplaceType DEF Submit, RegTypeOK
  <1>2. CASE Decision
    <2>1. PICK r \in submitted :
             \/ \E u \in Users, t \in Times : Settle(r, "approved", u, t) \/ Settle(r, "denied", u, t)
             \/ Expire(r)
      BY <1>2 DEF Decision
    <2>2. r \in Record
      BY <2>1, RequestIsRecord DEF RegTypeOK
    <2>3. \E s \in Record : Replace(s) /\ UNCHANGED submitted
      <3>1. CASE Expire(r)
        BY <2>2, <3>1, ExpiredRecord DEF Expire
      <3>2. ASSUME NEW u \in Users, NEW t \in Times, NEW verdict \in {"approved", "denied"},
                   Settle(r, verdict, u, t)
            PROVE  \E s \in Record : Replace(s) /\ UNCHANGED submitted
        <4>1. [r EXCEPT !.status = verdict, !.by = u, !.at = t] \in Record
          BY <2>2, SettledRecord DEF Statuses
        <4>2. QED
          BY <3>2, <4>1 DEF Settle
      <3>3. QED
        BY <2>1, <3>1, <3>2
    <2>4. QED
      BY <2>3, ReplaceType DEF RegTypeOK
  <1>3. QED
    BY <1>1, <1>2

LEMMA CallType ==
    ASSUME TypeOK, CallInv, NEW c \in Calls, Arrive(c) \/ CreateJob(c) \/ Move(c)
    PROVE  TypeOK'
  <1>1. CASE Arrive(c)
    BY <1>1 DEF Arrive, Goto, TypeOK, RegTypeOK, approvals, cluster, Waiting
  <1>2. CASE CreateJob(c)
    <2> DEFINE n == JobName(c)
    <2>1. n \in Names
      BY <1>2, AskFacts DEF CallInv, CreateJob
    <2>2. [by |-> c, state |-> "new"] \in Job
      BY DEF Job, States
    <2>3. jobs' \in [Names -> Job \union {None}]
      BY <1>2, <2>2 DEF CreateJob, TypeOK
    <2>4. made' \in [Names -> Seq(Calls)]
      BY <1>2, <2>1, AppendFacts DEF CreateJob, TypeOK
    <2>5. pc' \in [Calls -> {"idle"} \union Waiting \union Over]
      BY <1>2 DEF CreateJob, Goto, TypeOK, Waiting, Over
    <2>6. QED
      BY <1>2, <2>3, <2>4, <2>5 DEF CreateJob, TypeOK, RegTypeOK, approvals
  <1>3. CASE Move(c)
    <2>1. pc' \in [Calls -> {"idle"} \union Waiting \union Over] /\ UNCHANGED <<ask, cluster>>
      <3>1. PICK stage \in Waiting \union Over :
                pc' = [pc EXCEPT ![c] = stage] /\ UNCHANGED <<ask, cluster>>
        BY <1>3, MoveFacts
      <3>2. QED
        BY <3>1 DEF TypeOK
    <2>2. JobName(c) \in Names
      <3>1. pc[c] # "idle"
        BY <1>3, MoveFacts DEF Waiting
      <3>2. QED
        BY <3>1, AskFacts DEF CallInv
    <2>3. RegTypeOK' /\ approved' \subseteq Keys
      BY <1>3, RegType
      DEF TypeOK, RegTypeOK, Move, PrepareFails, Check, CheckBlind, SubmitRequest, SubmitFails,
          CreateFails, OpenWatch, Told, Poll, Refetch, Answer, GiveUp, Crash, approvals
    <2>4. open' \in [Calls -> Nat]
      <3>1. CASE OpenWatch(c)
        BY <2>2, <3>1, MadeFacts DEF OpenWatch, TypeOK
      <3>2. CASE UNCHANGED open
        BY <3>2 DEF TypeOK
      <3>3. QED
        BY <1>3, <3>1, <3>2
        DEF Move, PrepareFails, Check, CheckBlind, SubmitRequest, SubmitFails,
            CreateFails, Told, Poll, Refetch, Answer, GiveUp, Crash
    <2>5. shown' \in [Calls -> Calls \union {None}]
      <3>1. CASE \E d \in Calls : shown' = [shown EXCEPT ![c] = d]
        BY <3>1 DEF TypeOK
      <3>2. CASE Told(c)
        BY <2>2, <3>1, <3>2, MadeFacts DEF Told, Answer
      <3>3. CASE Poll(c) \/ Refetch(c)
        BY <2>2, <3>1, <3>3, JobFacts DEF Poll, Refetch, Answer
      <3>4. CASE UNCHANGED shown
        BY <3>4 DEF TypeOK
      <3>5. QED
        BY <1>3, <3>2, <3>3, <3>4
        DEF Move, PrepareFails, Check, CheckBlind, SubmitRequest, SubmitFails,
            CreateFails, OpenWatch, GiveUp, Crash
    <2>6. QED
      BY <2>1, <2>3, <2>4, <2>5 DEF TypeOK, cluster
  <1>4. QED
    BY <1>1, <1>2, <1>3

LEMMA BecomeType ==
    ASSUME TypeOK, NEW n \in Names, jobs[n] # None, NEW state \in States, Become(n, state)
    PROVE  jobs' \in [Names -> Job \union {None}]
  <1>1. [jobs[n] EXCEPT !.state = state] \in Job
    BY JobFacts DEF Job
  <1>2. QED
    BY <1>1 DEF TypeOK, Become

LEMMA WorkType ==
    ASSUME TypeOK, NEW n \in Names, Work(n)
    PROVE  TypeOK'
  <1>1. jobs[n] # None
    BY DEF Work, Controller, StartScript, FinishScript, FinishJob, Overrun, StopScript, DeleteJob
  <1>2. jobs[n].by \in Calls
    BY <1>1, JobFacts
  <1>3. CASE StartScript(n) \/ FinishScript(n)
    <2>1. jobs' \in [Names -> Job \union {None}]
      BY <1>1, <1>3, BecomeType DEF StartScript, FinishScript, States
    <2>2. running' \subseteq Calls
      BY <1>2, <1>3 DEF StartScript, FinishScript, TypeOK
    <2>3. QED
      BY <1>3, <2>1, <2>2 DEF StartScript, FinishScript, TypeOK, RegTypeOK, approvals
  <1>4. ASSUME NEW state \in {"succeeded", "failed"}, Finish(n, state) PROVE TypeOK'
    <2>1. jobs' \in [Names -> Job \union {None}]
      BY <1>1, <1>4, BecomeType DEF Finish, States
    <2>2. QED
      BY <1>4, <2>1 DEF Finish, TypeOK, RegTypeOK, approvals
  <1>5. CASE StopScript(n) \/ DeleteJob(n)
    BY <1>5 DEF StopScript, DeleteJob, TypeOK, RegTypeOK, approvals
  <1>6. QED
    BY <1>3, <1>4, <1>5 DEF Work, Controller, FinishJob, Overrun

LEMMA NextType == TypeOK /\ CallInv /\ [Next]_vars => TypeOK' /\ CallInv'
  <1> SUFFICES ASSUME TypeOK, CallInv, [Next]_vars PROVE TypeOK'
    BY CallNext
  <1>1. CASE Decision
    <2>1. RegTypeOK'
      BY <1>1, RegType DEF TypeOK
    <2>2. approved' \subseteq Keys
      <3>1. \A r \in submitted : KeyOf(r) \in Keys
        BY DEF TypeOK, RegTypeOK, Requests, KeyOf, Keys
      <3>2. QED
        BY <1>1, <3>1 DEF Decision, TypeOK
    <2>3. QED
      BY <1>1, <2>1, <2>2 DEF Decision, TypeOK, cluster
  <1>2. CASE UNCHANGED vars
    BY <1>2 DEF vars, TypeOK, RegTypeOK
  <1>3. QED
    BY <1>1, <1>2, CallType, WorkType, NextCases

LEMMA InitType == Init => TypeOK /\ CallInv
  BY EmptySeq DEF Init, RegInit, TypeOK, RegTypeOK, CallInv

(* The state of the calls and of the cluster is always of its type.        *)
THEOREM TypeCorrect == Spec => []TypeOK
  BY InitType, NextType, PTL DEF Spec

-----------------------------------------------------------------------------
(* Jobs and scripts: the Job under a name is the last one made, for a call *)
(* whose requests give that name, and every running script is that of a    *)
(* Job in the cluster.                                                     *)
JobAt(n) ==
    jobs[n] # None =>
        /\ JobName(jobs[n].by) = n
        /\ Len(made[n]) > 0 /\ made[n][Len(made[n])] = jobs[n].by
        /\ outcome[jobs[n].by] = IF Finished(jobs[n]) THEN jobs[n].state ELSE "none"
MadeAt(n) == \A i \in DOMAIN made[n] : pc[made[n][i]] \in Made
RunningAt(c) ==
    /\ pc[c] \in Made
    /\ jobs[JobName(c)] # None /\ jobs[JobName(c)].by = c

JobInv ==
    /\ \A n \in Names : JobAt(n) /\ MadeAt(n)
    /\ \A c \in running : RunningAt(c)
    /\ \A c \in Calls : outcome[c] # "none" => pc[c] \in Made

LEMMA MadeBy ==
    ASSUME TypeOK, JobInv, NEW n \in Names, jobs[n] # None
    PROVE  pc[jobs[n].by] \in Made
  <1>1. Len(made[n]) \in DOMAIN made[n] /\ made[n][Len(made[n])] = jobs[n].by
    BY MadeFacts DEF JobInv, JobAt
  <1>2. QED
    BY <1>1 DEF JobInv, MadeAt

(* Steps that leave the cluster alone.                                     *)
LEMMA JobFrame ==
    ASSUME TypeOK, CallInv, JobInv, UNCHANGED cluster, Settled,
           \A c \in Calls : pc[c] \in Made => pc'[c] \in Made
    PROVE  JobInv'
  <1> USE DEF cluster
  <1>0. \A c \in Calls : pc[c] \in Made => JobName(c)' = JobName(c)
    BY SameRequest DEF Settled, Made
  <1>1. ASSUME NEW n \in Names PROVE JobAt(n)' /\ MadeAt(n)'
    <2>1. JobAt(n)'
      BY <1>0, JobFacts, MadeBy DEF JobInv, JobAt, Finished
    <2>2. MadeAt(n)'
      BY MadeFacts DEF JobInv, MadeAt
    <2>3. QED
      BY <2>1, <2>2
  <1>2. ASSUME NEW c \in running PROVE RunningAt(c)'
    BY <1>0 DEF JobInv, RunningAt, TypeOK
  <1>3. QED
    BY <1>1, <1>2 DEF JobInv

LEMMA JobCreate ==
    ASSUME TypeOK, CallInv, JobInv, NEW c \in Calls, CreateJob(c)
    PROVE  JobInv'
  <1>1. PICK n \in Names : n = JobName(c) /\ jobs[n] = None
    BY AskFacts DEF CallInv, CreateJob, Free
  <1>2. /\ jobs'[n] = [by |-> c, state |-> "new"]
        /\ made'[n] = Append(made[n], c)
        /\ \A m \in Names : m # n => jobs'[m] = jobs[m] /\ made'[m] = made[m]
        /\ UNCHANGED <<ask, running, outcome>>
    BY <1>1 DEF CreateJob, TypeOK
  <1>3. /\ pc[c] \notin Made /\ pc'[c] \in Made
        /\ \A d \in Calls : pc[d] \in Made => pc'[d] \in Made
    BY DEF CreateJob, Goto, Made, TypeOK
  <1>4. \A d : JobName(d)' = JobName(d)
    BY <1>2 DEF JobName, Id
  <1>5. outcome[c] = "none"
    BY <1>3 DEF JobInv
  <1>6. None \notin Job /\ [by |-> c, state |-> "new"] \in Job
    BY ExecutionsNoneAssumption DEF Job, States
  <1>7. JobAt(n)' /\ MadeAt(n)'
    <2>1. JobAt(n)'
      BY <1>1, <1>2, <1>4, <1>5, <1>6, AppendFacts, MadeFacts DEF JobAt, Finished
    <2>2. MadeAt(n)'
      <3>1. \A i \in 1 .. Len(made[n]) : pc'[made[n][i]] \in Made
        BY <1>1, <1>3, MadeFacts DEF JobInv, MadeAt
      <3>2. DOMAIN made'[n] = 1 .. (Len(made[n]) + 1) /\ Len(made[n]) \in Nat
        BY <1>1, <1>2, AppendFacts, MadeFacts
      <3>3. \A i \in 1 .. (Len(made[n]) + 1) :
               \/ i \in 1 .. Len(made[n]) /\ made'[n][i] = made[n][i]
               \/ made'[n][i] = c
        BY <1>1, <1>2, <3>2, AppendFacts
      <3>4. QED
        BY <1>3, <3>1, <3>2, <3>3 DEF MadeAt
    <2>3. QED
      BY <2>1, <2>2
  <1>8. ASSUME NEW m \in Names, m # n PROVE JobAt(m)' /\ MadeAt(m)'
    <2>1. JobAt(m)'
      BY <1>2, <1>4, <1>8 DEF JobInv, JobAt, Finished
    <2>2. MadeAt(m)'
      BY <1>2, <1>3, <1>8, MadeFacts DEF JobInv, MadeAt
    <2>3. QED
      BY <2>1, <2>2
  <1>9. ASSUME NEW d \in running PROVE RunningAt(d)'
    <2>1. d \in Calls /\ JobName(d) \in Names
      BY AskFacts DEF JobInv, RunningAt, CallInv, TypeOK, Made
    <2>2. JobName(d) # n
      BY <1>1 DEF JobInv, RunningAt
    <2>3. QED
      BY <1>2, <1>3, <1>4, <2>1, <2>2 DEF JobInv, RunningAt
  <1>10. \A d \in Calls : outcome'[d] # "none" => pc'[d] \in Made
    BY <1>2, <1>3 DEF JobInv
  <1>11. QED
    BY <1>2, <1>7, <1>8, <1>9, <1>10 DEF JobInv

LEMMA JobWork ==
    ASSUME TypeOK, CallInv, JobInv, NEW n \in Names, Work(n)
    PROVE  JobInv'
  <1>0. PICK b : b = jobs[n].by
    OBVIOUS
  <1>1. jobs[n] # None
    BY DEF Work, Controller, StartScript, FinishScript, FinishJob, Overrun, StopScript, DeleteJob
  <1>2. /\ jobs[n] \in Job /\ b \in Calls /\ b # None
        /\ pc[b] \in Made /\ JobName(b) = n
    BY <1>0, <1>1, JobFacts, MadeBy, ExecutionsNoneAssumption DEF JobInv, JobAt
  <1>3. UNCHANGED <<pc, ask, made>>
    BY DEF Work, Controller, StartScript, FinishScript, FinishJob, Overrun, Finish,
           StopScript, DeleteJob
  <1>4. (\A d : JobName(d)' = JobName(d)) /\ \A m : MadeAt(m)' = MadeAt(m)
    BY <1>3 DEF JobName, Id, MadeAt
  <1>5. \A m \in Names : m # n /\ jobs[m] # None => jobs[m].by # b
    BY <1>2 DEF JobInv, JobAt
  <1>6. \A c \in running : JobName(c) \in Names /\ c \in Calls
                           /\ (JobName(c) = n => c = b) /\ (c = b => JobName(c) = n)
    BY <1>0, <1>2, AskFacts DEF JobInv, RunningAt, CallInv, TypeOK, Made
  <1>7. None \notin Job
    BY ExecutionsNoneAssumption
  <1>8. ASSUME NEW state \in States, Become(n, state), ~Finished(jobs[n]),
               outcome' = IF state \in {"succeeded", "failed"}
                          THEN [outcome EXCEPT ![b] = state] ELSE outcome,
               \A c \in running' : c \in running \/ c = b
        PROVE  JobInv'
    <2>1. /\ jobs'[n] = [jobs[n] EXCEPT !.state = state]
          /\ \A m \in Names : m # n => jobs'[m] = jobs[m]
      BY <1>8 DEF Become, TypeOK
    <2>2. jobs'[n] \in Job /\ jobs'[n].by = b /\ jobs'[n].state = state
      BY <1>0, <1>2, <2>1 DEF Job
    <2>3. /\ outcome'[b] = IF state \in {"succeeded", "failed"} THEN state ELSE "none"
          /\ \A d \in Calls : d # b => outcome'[d] = outcome[d]
      BY <1>0, <1>1, <1>2, <1>8 DEF JobInv, JobAt, TypeOK
    <2>4. JobAt(n)'
      BY <1>0, <1>1, <1>2, <1>3, <1>4, <2>2, <2>3 DEF JobInv, JobAt, Finished
    <2>5. ASSUME NEW m \in Names, m # n PROVE JobAt(m)'
      BY <1>3, <1>4, <1>5, <2>1, <2>3, <2>5, JobFacts DEF JobInv, JobAt, Finished
    <2>6. ASSUME NEW c \in running' PROVE RunningAt(c)'
      <3>1. CASE c = b
        BY <1>2, <1>3, <1>4, <1>7, <2>2, <3>1 DEF RunningAt
      <3>2. CASE c \in running /\ c # b
        BY <1>3, <1>4, <1>6, <2>1, <3>2 DEF RunningAt, JobInv
      <3>3. QED
        BY <1>8, <3>1, <3>2
    <2>7. \A d \in Calls : outcome'[d] # "none" => pc'[d] \in Made
      BY <1>2, <1>3, <2>3 DEF JobInv
    <2>8. QED
      BY <1>4, <2>4, <2>5, <2>6, <2>7 DEF JobInv
  <1>9. CASE StartScript(n) \/ FinishScript(n)
    BY <1>0, <1>8, <1>9 DEF StartScript, FinishScript, Finished, States
  <1>10. CASE FinishJob(n) \/ Overrun(n)
    BY <1>0, <1>8, <1>10 DEF FinishJob, Overrun, Finish, Finished, States
  <1>11. CASE StopScript(n)
    BY <1>3, <1>4, <1>11 DEF StopScript, JobInv, JobAt, RunningAt, Finished
  <1>12. CASE DeleteJob(n)
    <2>1. /\ jobs'[n] = None /\ \A m \in Names : m # n => jobs'[m] = jobs[m]
          /\ UNCHANGED <<running, outcome>> /\ b \notin running
      BY <1>0, <1>12 DEF DeleteJob, TypeOK
    <2>2. \A m \in Names : JobAt(m)'
      BY <1>3, <1>4, <2>1 DEF JobInv, JobAt, Finished
    <2>3. ASSUME NEW c \in running PROVE RunningAt(c)'
      <3>1. JobName(c) \in Names /\ JobName(c) # n
        BY <1>6, <2>1
      <3>2. QED
        BY <1>3, <1>4, <2>1, <3>1 DEF JobInv, RunningAt
    <2>4. QED
      BY <1>3, <1>4, <2>1, <2>2, <2>3 DEF JobInv
  <1>13. QED
    BY <1>9, <1>10, <1>11, <1>12 DEF Work, Controller

LEMMA JobNext == TypeOK /\ CallInv /\ JobInv /\ [Next]_vars => JobInv'
  <1> SUFFICES ASSUME TypeOK, CallInv, JobInv, [Next]_vars PROVE JobInv'
    OBVIOUS
  <1>1. Settled
    BY CallNext
  <1>2. CASE UNCHANGED <<pc, cluster>>
    BY <1>1, <1>2, JobFrame
  <1>3. CASE Decision
    BY <1>2, <1>3 DEF Decision
  <1>4. ASSUME NEW c \in Calls, Arrive(c) PROVE JobInv'
    <2>1. \A d \in Calls : pc[d] \in Made => pc'[d] \in Made
      BY <1>4 DEF Arrive, Goto, Made, TypeOK
    <2>2. QED
      BY <1>1, <1>4, <2>1, JobFrame DEF Arrive
  <1>5. ASSUME NEW c \in Calls, Move(c) PROVE JobInv'
    <2>1. UNCHANGED cluster /\ \A d \in Calls : pc[d] \in Made => pc'[d] \in Made
      <3>1. PICK stage \in Waiting \union Over :
               /\ pc' = [pc EXCEPT ![c] = stage]
               /\ pc[c] \in Made => stage \in Made
               /\ UNCHANGED cluster
        BY <1>5, MoveFacts
      <3>2. QED
        BY <3>1 DEF TypeOK
    <2>2. QED
      BY <1>1, <2>1, JobFrame
  <1>6. QED
    BY <1>2, <1>3, <1>4, <1>5, JobCreate, JobWork, NextCases DEF vars, cluster

LEMMA InitJob == Init => JobInv
  <1> SUFFICES ASSUME Init PROVE JobInv
    OBVIOUS
  <1>1. \A n \in Names : jobs[n] = None /\ made[n] = <<>>
    BY DEF Init
  <1>2. QED
    BY <1>1 DEF Init, JobInv, JobAt, MadeAt

(* Scripts of one execution never run at once (job_builder.go).            *)
THEOREM OneAtATime == Spec => []RunsOneAtATime
  <1>1. JobInv => RunsOneAtATime
    BY DEF JobInv, RunningAt, RunsOneAtATime, JobName, NameOf
  <1>2. QED
    BY <1>1, InitType, NextType, InitJob, JobNext, PTL DEF Spec

-----------------------------------------------------------------------------
(* Verdicts.                                                               *)

(* A call that waits has made a Job, its watch is about this one or a      *)
(* later one, and so is its verdict.                                       *)
MadeAs(c, i) == i \in DOMAIN made[JobName(c)] /\ made[JobName(c)][i] = c
Attending == {"watch", "wait", "succeeded", "failed"}

VerdictAt(c) ==
    /\ pc[c] \in {"watch", "wait"} => \E i \in Nat : MadeAs(c, i)
    /\ pc[c] = "wait" => \E i \in Nat : MadeAs(c, i) /\ i <= open[c]
    /\ pc[c] \in {"succeeded", "failed"} =>
          /\ \E i, j \in Nat :
                /\ i <= j
                /\ MadeAs(c, i)
                /\ j \in DOMAIN made[JobName(c)] /\ made[JobName(c)][j] = shown[c]
          /\ pc[c] = "succeeded" => outcome[shown[c]] = "succeeded"
VerdictInv == \A c \in Calls : VerdictAt(c)

(* What was made stays made, and a Job finishes once.                      *)
Lasting ==
    /\ \A n \in Names : \A i \in DOMAIN made[n] :
          i \in DOMAIN made'[n] /\ made'[n][i] = made[n][i]
    /\ \A d \in Calls : outcome[d] # "none" => outcome'[d] = outcome[d]

LEMMA MadeLasts == TypeOK /\ CallInv /\ JobInv /\ [Next]_vars => Lasting
  <1> SUFFICES ASSUME TypeOK, CallInv, JobInv, [Next]_vars PROVE Lasting
    OBVIOUS
  <1>1. CASE UNCHANGED <<made, outcome>>
    BY <1>1 DEF Lasting
  <1>2. CASE Decision
    BY <1>1, <1>2 DEF Decision, cluster
  <1>3. ASSUME NEW c \in Calls, Arrive(c) \/ Move(c) PROVE Lasting
    BY <1>1, <1>3, MoveFacts DEF Arrive, cluster
  <1>4. ASSUME NEW c \in Calls, CreateJob(c) PROVE Lasting
    <2>1. PICK n \in Names : n = JobName(c)
      BY <1>4, AskFacts DEF CallInv, CreateJob
    <2>2. /\ made'[n] = Append(made[n], c) /\ UNCHANGED outcome
          /\ \A m \in Names : m # n => made'[m] = made[m]
      BY <1>4, <2>1 DEF CreateJob, TypeOK
    <2>3. \A i \in DOMAIN made[n] : i \in DOMAIN made'[n] /\ made'[n][i] = made[n][i]
      BY <2>2, AppendFacts, MadeFacts
    <2>4. QED
      BY <2>2, <2>3 DEF Lasting
  <1>5. ASSUME NEW n \in Names, Work(n) PROVE Lasting
    <2>1. ASSUME NEW state, Finish(n, state), jobs[n] # None, ~Finished(jobs[n]) PROVE Lasting
      <3>1. outcome[jobs[n].by] = "none" /\ UNCHANGED made
        BY <2>1 DEF JobInv, JobAt, Finish
      <3>2. \A d \in Calls : d # jobs[n].by => outcome'[d] = outcome[d]
        BY <2>1 DEF Finish, TypeOK
      <3>3. QED
        BY <3>1, <3>2 DEF Lasting
    <2>2. CASE FinishJob(n) \/ Overrun(n)
      BY <2>1, <2>2 DEF FinishJob, Overrun, Finished
    <2>3. CASE StartScript(n) \/ FinishScript(n) \/ StopScript(n) \/ DeleteJob(n)
      BY <1>1, <2>3 DEF StartScript, FinishScript, StopScript, DeleteJob
    <2>4. QED
      BY <1>5, <2>2, <2>3 DEF Work, Controller
  <1>6. QED
    BY <1>1, <1>2, <1>3, <1>4, <1>5, NextCases DEF vars

LEMMA VerdictStays ==
    ASSUME TypeOK, CallInv, Lasting, NEW c \in Calls, VerdictAt(c), ask'[c] = ask[c],
           pc'[c] = pc[c], open'[c] = open[c], shown'[c] = shown[c]
    PROVE  VerdictAt(c)'
  <1>1. CASE pc[c] \notin Attending
    BY <1>1 DEF VerdictAt, Attending
  <1>2. CASE pc[c] \in Attending
    <2>1. JobName(c) \in Names /\ JobName(c)' = JobName(c)
      BY <1>2, AskFacts, SameRequest DEF CallInv, Attending
    <2>2. \A i : MadeAs(c, i) => MadeAs(c, i)'
      BY <2>1 DEF Lasting, MadeAs
    <2>3. pc[c] \in {"succeeded", "failed"} => shown[c] \in Calls
      BY <2>1, MadeFacts DEF VerdictAt
    <2>4. QED
      BY <2>1, <2>2, <2>3 DEF VerdictAt, Lasting
  <1>3. QED
    BY <1>1, <1>2

(* The calls that a step is not about.                                     *)
LEMMA OthersKeep ==
    ASSUME TypeOK, NEW c \in Calls, Arrive(c) \/ CreateJob(c) \/ Move(c),
           NEW d \in Calls, d # c
    PROVE  ask'[d] = ask[d] /\ pc'[d] = pc[d] /\ open'[d] = open[d] /\ shown'[d] = shown[d]
  BY DEF Arrive, CreateJob, Move, PrepareFails, Check, CheckBlind, SubmitRequest, SubmitFails,
         CreateFails, OpenWatch, Told, Poll, Refetch, Answer, GiveUp, Crash, Goto, TypeOK

LEMMA VerdictCreate ==
    ASSUME TypeOK, CallInv, NEW c \in Calls, CreateJob(c)
    PROVE  VerdictAt(c)'
  <1>1. PICK n \in Names : n = JobName(c) /\ n = JobName(c)'
    BY AskFacts, SameRequest DEF CallInv, CreateJob
  <1>2. made'[n] = Append(made[n], c) /\ pc'[c] \in {"watch", "gone"}
    BY <1>1 DEF CreateJob, TypeOK, Goto
  <1>3. \E i \in Nat : MadeAs(c, i)'
    BY <1>1, <1>2, AppendFacts, MadeFacts DEF MadeAs
  <1>4. QED
    BY <1>2, <1>3 DEF VerdictAt

LEMMA VerdictMove ==
    ASSUME TypeOK, CallInv, JobInv, NEW c \in Calls, VerdictAt(c), Move(c)
    PROVE  VerdictAt(c)'
  <1>1. /\ UNCHANGED <<ask, made, outcome, jobs>>
        /\ ask[c] \in Asked
    BY MoveFacts DEF cluster, CallInv, Waiting
  <1>2. PICK n \in Names : n = JobName(c) /\ n = JobName(c)'
    BY <1>1, AskFacts, SameRequest
  <1>3. \A i : MadeAs(c, i)' = MadeAs(c, i)
    BY <1>1, <1>2 DEF MadeAs
  <1>4. jobs[n] # None => \A i \in Nat : MadeAs(c, i) => i <= Len(made[n])
    BY <1>2, MadeFacts DEF MadeAs
  <1>5. CASE OpenWatch(c)
    <2>1. PICK i \in Nat : MadeAs(c, i)
      BY <1>5 DEF OpenWatch, VerdictAt
    <2>2. open'[c] \in {Len(made[n]), Len(made[n]) + 1} /\ pc'[c] = "wait"
      BY <1>2, <1>5 DEF OpenWatch, Goto, TypeOK
    <2>3. i <= open'[c]
      BY <1>2, <2>1, <2>2, MadeFacts DEF MadeAs
    <2>4. QED
      BY <1>3, <2>1, <2>2, <2>3 DEF VerdictAt
  <1>6. ASSUME NEW d \in Calls, NEW verdict \in {"succeeded", "failed"}, Answer(c, d, verdict),
               NEW j \in DOMAIN made[n], made[n][j] = d, pc[c] = "wait",
               \E i \in Nat : MadeAs(c, i) /\ i <= j,
               verdict = "succeeded" => outcome[d] = "succeeded"
        PROVE  VerdictAt(c)'
    <2>1. pc'[c] = verdict /\ shown'[c] = d
      BY <1>6 DEF Answer, Goto, TypeOK
    <2>2. PICK i \in Nat : MadeAs(c, i) /\ i <= j
      BY <1>6
    <2>3. j \in Nat
      BY MadeFacts
    <2>4. QED
      BY <1>1, <1>2, <1>3, <1>6, <2>1, <2>2, <2>3 DEF VerdictAt
  <1>7. CASE Told(c)
    <2>1. PICK j : j = open[c]
      OBVIOUS
    <2>2. j \in DOMAIN made[n] /\ outcome[made[n][j]] \in {"succeeded", "failed"}
      BY <1>2, <1>7, <2>1, MadeFacts DEF Told, TypeOK
    <2>3. pc[c] = "wait" /\ Answer(c, made[n][j], outcome[made[n][j]]) /\ made[n][j] \in Calls
      BY <1>2, <1>7, <2>1, <2>2, MadeFacts DEF Told
    <2>4. \E i \in Nat : MadeAs(c, i) /\ i <= j
      BY <2>1, <2>3 DEF VerdictAt
    <2>5. QED
      BY <1>6, <2>2, <2>3, <2>4
  <1>8. CASE Poll(c) \/ Refetch(c)
    <2>1. jobs[n] # None /\ pc[c] = "wait"
      BY <1>2, <1>8 DEF Poll, Refetch
    <2>2. PICK j : j = Len(made[n])
      OBVIOUS
    <2>3. j \in DOMAIN made[n] /\ made[n][j] = jobs[n].by /\ jobs[n].by \in Calls
      BY <2>1, <2>2, MadeFacts, JobFacts DEF JobInv, JobAt
    <2>4. PICK verdict \in {"succeeded", "failed"} :
             /\ Answer(c, jobs[n].by, verdict)
             /\ verdict = "succeeded" => jobs[n].state = "succeeded"
      BY <1>2, <1>8 DEF Poll, Refetch, Finished
    <2>5. verdict = "succeeded" => outcome[jobs[n].by] = "succeeded"
      BY <2>1, <2>4 DEF JobInv, JobAt, Finished
    <2>6. \E i \in Nat : MadeAs(c, i) /\ i <= j
      BY <1>4, <2>1, <2>2 DEF VerdictAt
    <2>7. QED
      BY <1>6, <2>1, <2>3, <2>4, <2>5, <2>6
  <1>9. CASE PrepareFails(c) \/ Check(c) \/ CheckBlind(c) \/ SubmitRequest(c) \/ SubmitFails(c)
             \/ CreateFails(c) \/ GiveUp(c) \/ Crash(c)
    <2>1. pc'[c] \notin Attending
      BY <1>9 DEF PrepareFails, Check, CheckBlind, SubmitRequest, SubmitFails, CreateFails,
                  GiveUp, Crash, StageAfter, Goto, TypeOK, Attending
    <2>2. QED
      BY <2>1 DEF VerdictAt, Attending
  <1>10. QED
    BY <1>5, <1>7, <1>8, <1>9 DEF Move

LEMMA VerdictNext == TypeOK /\ CallInv /\ JobInv /\ VerdictInv /\ [Next]_vars => VerdictInv'
  <1> SUFFICES ASSUME TypeOK, CallInv, JobInv, VerdictInv, [Next]_vars, NEW c \in Calls
               PROVE  VerdictAt(c)'
    BY DEF VerdictInv
  <1>0. Lasting /\ VerdictAt(c)
    BY MadeLasts DEF VerdictInv
  <1>1. CASE UNCHANGED <<ask, pc, open, shown>>
    BY <1>0, <1>1, VerdictStays
  <1>2. ASSUME NEW d \in Calls, d # c, Arrive(d) \/ CreateJob(d) \/ Move(d) PROVE VerdictAt(c)'
    BY <1>0, <1>2, OthersKeep, VerdictStays
  <1>3. CASE Arrive(c)
    BY <1>3 DEF Arrive, Goto, VerdictAt, TypeOK
  <1>4. CASE CreateJob(c) \/ Move(c)
    BY <1>0, <1>4, VerdictCreate, VerdictMove
  <1>5. ASSUME NEW n \in Names, Work(n) PROVE VerdictAt(c)'
    BY <1>1, <1>5 DEF Work, Controller, StartScript, FinishScript, FinishJob, Overrun, Finish,
                      StopScript, DeleteJob
  <1>6. CASE Decision
    BY <1>1, <1>6 DEF Decision
  <1>7. QED
    BY <1>1, <1>2, <1>3, <1>4, <1>5, <1>6, NextCases DEF vars

(* A verdict is never that of a Job made before the caller's own, and      *)
(* SUCCEEDED is one of a Job that succeeded (monitor.go).                  *)
THEOREM VerdictSound == Spec => []VerdictNotOlder
  <1>1. VerdictInv => VerdictNotOlder
    BY DEF VerdictInv, VerdictAt, MadeAs, VerdictNotOlder
  <1>2. Init => VerdictInv
    BY DEF Init, VerdictInv, VerdictAt
  <1>3. QED
    BY <1>1, <1>2, InitType, NextType, InitJob, JobNext, VerdictNext, PTL DEF Spec

-----------------------------------------------------------------------------
(* Approvals.                                                              *)

(* Whatever the register holds answers something submitted; approvals are  *)
(* remembered; and what is submitted under a made-up id is submitted by    *)
(* the call that made it up, which is then over without a Job.             *)
TurnedAway(c) ==
    /\ pc[c] \in {"pending", "gone"}
    /\ \A n \in Names : \A i \in DOMAIN made[n] : made[n][i] # c

RegisterInv ==
    /\ \A k \in Keys : register[k] # None =>
          /\ \E r \in submitted : KeyOf(r) = k
          /\ register[k].status = "approved" => k \in approved
    /\ \A r \in submitted, c \in Calls, s \in Steps :
          KeyOf(r) = Key(Fresh[c], s) => TurnedAway(c)

(* A call that needs an approval and gets to its Job has one, under an id  *)
(* that it was given.                                                      *)
Cleared(c) == ask[c].approval => MyKey(c) \in approved /\ ask[c].exec # None
ClearInv ==
    /\ \A c \in Calls : pc[c] = "create" => Cleared(c)
    /\ \A n \in Names : \A i \in DOMAIN made[n] : Cleared(made[n][i])

(* A Job that was not there before is that of the call that creates it.    *)
LEMMA NewJob ==
    ASSUME TypeOK, CallInv, [Next]_vars, NEW n \in Names,
           NEW i \in DOMAIN made'[n], i \notin DOMAIN made[n]
    PROVE  \E c \in Calls : CreateJob(c) /\ n = JobName(c) /\ made'[n][i] = c
  <1>1. PICK c \in Calls : CreateJob(c) /\ n = JobName(c)
    BY NextCases, MoveFacts
    DEF vars, Decision, Arrive, CreateJob, cluster, Work, Controller, StartScript,
        FinishScript, FinishJob, Overrun, Finish, StopScript, DeleteJob, TypeOK
  <1>2. made'[n] = Append(made[n], c)
    BY <1>1 DEF CreateJob, TypeOK
  <1>3. made'[n][i] = c
    BY <1>2, AppendFacts, MadeFacts
  <1>4. QED
    BY <1>1, <1>3

(* A call that is over stays so, with its request and its verdict.         *)
LEMMA OverStays ==
    ASSUME TypeOK, CallInv, [Next]_vars, NEW c \in Calls, pc[c] \in Over
    PROVE  pc'[c] = pc[c] /\ ask'[c] = ask[c] /\ shown'[c] = shown[c]
  <1>1. CASE UNCHANGED <<pc, ask, shown>>
    BY <1>1
  <1>2. ASSUME NEW d \in Calls, d # c, Arrive(d) \/ CreateJob(d) \/ Move(d)
        PROVE  pc'[c] = pc[c] /\ ask'[c] = ask[c] /\ shown'[c] = shown[c]
    BY <1>2, OthersKeep
  <1>3. ASSUME Arrive(c) \/ CreateJob(c) PROVE FALSE
    BY <1>3 DEF Arrive, CreateJob, Over
  <1>4. ASSUME Move(c) PROVE FALSE
    <2>1. pc[c] \in Waiting
      BY <1>4, MoveFacts
    <2>2. QED
      BY <2>1 DEF Waiting, Over
  <1>5. ASSUME NEW n \in Names, Work(n) PROVE UNCHANGED <<pc, ask, shown>>
    BY <1>5 DEF Work, Controller, StartScript, FinishScript, FinishJob, Overrun, Finish,
                StopScript, DeleteJob
  <1>6. CASE Decision
    BY <1>1, <1>6 DEF Decision
  <1>7. QED
    BY <1>1, <1>2, <1>3, <1>4, <1>5, <1>6, NextCases DEF vars

(* A call that was turned away never makes a Job.                          *)
LEMMA AwayStays ==
    ASSUME TypeOK, CallInv, JobInv, [Next]_vars, NEW c \in Calls, TurnedAway(c)
    PROVE  TurnedAway(c)'
  <1>1. pc'[c] = pc[c]
    BY OverStays DEF TurnedAway, Over
  <1>2. ASSUME NEW n \in Names, NEW i \in DOMAIN made'[n], made'[n][i] = c PROVE FALSE
    <2>1. CASE i \in DOMAIN made[n]
      <3>1. made'[n][i] = made[n][i]
        BY <2>1, MadeLasts DEF Lasting
      <3>2. QED
        BY <1>2, <2>1, <3>1 DEF TurnedAway
    <2>2. CASE i \notin DOMAIN made[n]
      BY <1>2, <2>2, NewJob DEF CreateJob, TurnedAway
    <2>3. QED
      BY <2>1, <2>2
  <1>3. QED
    BY <1>1, <1>2 DEF TurnedAway

(* So is a call once it has submitted its request.                         *)
LEMMA SubmitTurnsAway ==
    ASSUME TypeOK, CallInv, JobInv, NEW c \in Calls, SubmitRequest(c)
    PROVE  TurnedAway(c)'
  <1>1. pc[c] = "submit" /\ pc'[c] \in {"pending", "gone"} /\ made' = made
    BY DEF SubmitRequest, Goto, TypeOK, cluster
  <1>2. \A n \in Names : \A i \in DOMAIN made[n] : made[n][i] # c
    BY <1>1 DEF JobInv, MadeAt, Made
  <1>3. QED
    BY <1>1, <1>2 DEF TurnedAway

(* One record replaced by one of the same key.                             *)
LEMMA RegisterReplace ==
    ASSUME TypeOK, RegisterInv, NEW s \in Record, Replace(s),
           submitted \subseteq submitted', \E r \in submitted' : KeyOf(r) = KeyOf(s),
           approved \subseteq approved', s.status = "approved" => KeyOf(s) \in approved',
           \A r \in submitted', c \in Calls, t \in Steps :
              KeyOf(r) = Key(Fresh[c], t) => TurnedAway(c)'
    PROVE  RegisterInv'
  <1>1. ASSUME NEW k \in Keys, register'[k] # None
        PROVE  /\ \E r \in submitted' : KeyOf(r) = k
               /\ register'[k].status = "approved" => k \in approved'
    <2>1. CASE k = KeyOf(s)
      <3>1. register'[k] = s
        BY <2>1 DEF Replace, TypeOK, RegTypeOK
      <3>2. QED
        BY <2>1, <3>1
    <2>2. CASE k # KeyOf(s)
      <3>1. register'[k] = register[k]
        BY <2>2 DEF Replace, TypeOK, RegTypeOK
      <3>2. QED
        BY <1>1, <3>1 DEF RegisterInv
    <2>3. QED
      BY <2>1, <2>2
  <1>2. QED
    BY <1>1 DEF RegisterInv

(* Keys of made-up ids are the own keys of the calls that made them up.    *)
LEMMA FreshKeys ==
    ASSUME NEW c \in Calls, NEW d \in Calls, ask[c] \in Asked, NEW s \in Steps,
           MyKey(c) = Key(Fresh[d], s)
    PROVE  c = d
  <1>1. CASE ask[c].exec # None
    BY <1>1, FreshAssumption DEF MyKey, Id
  <1>2. CASE ask[c].exec = None
    <2>1. MyKey(c) = Key(Fresh[c], ask[c].step) /\ ask[c].step \in Steps
      BY <1>2, AskFacts DEF MyKey, Id
    <2>2. QED
      BY <2>1, FreshAssumption
  <1>3. QED
    BY <1>1, <1>2

LEMMA RegisterFrame ==
    ASSUME TypeOK, RegisterInv, UNCHANGED approvals,
           \A c \in Calls : TurnedAway(c) => TurnedAway(c)'
    PROVE  RegisterInv'
  BY DEF RegisterInv, approvals

LEMMA RegisterDecision == TypeOK /\ RegisterInv /\ Decision => RegisterInv'
  <1> SUFFICES ASSUME TypeOK, RegisterInv, Decision PROVE RegisterInv'
    OBVIOUS
  <1>1. PICK r \in submitted :
           \/ \E u \in Users, t \in Times :
                \/ Settle(r, "approved", u, t) /\ approved' = approved \union {KeyOf(r)}
                \/ Settle(r, "denied", u, t) /\ UNCHANGED approved
           \/ Expire(r) /\ UNCHANGED approved
    BY DEF Decision
  <1>2. r \in Record /\ UNCHANGED submitted /\ \A c : TurnedAway(c)' <=> TurnedAway(c)
    BY <1>1, RequestIsRecord
    DEF TypeOK, RegTypeOK, Decision, Settle, Expire, TurnedAway, cluster
  <1>3. ASSUME NEW s \in Record, Replace(s), KeyOf(s) = KeyOf(r), approved \subseteq approved',
               s.status = "approved" => KeyOf(r) \in approved'
        PROVE  RegisterInv'
    BY <1>2, <1>3, RegisterReplace DEF RegisterInv
  <1>4. ASSUME NEW u \in Users, NEW t \in Times, NEW verdict \in {"approved", "denied"},
               Settle(r, verdict, u, t), approved \subseteq approved',
               verdict = "approved" => KeyOf(r) \in approved'
        PROVE  RegisterInv'
    <2> DEFINE s == [r EXCEPT !.status = verdict, !.by = u, !.at = t]
    <2>1. s \in Record
      BY <1>2, SettledRecord DEF Statuses
    <2>2. KeyOf(s) = KeyOf(r) /\ s.status = verdict
      BY <1>2 DEF KeyOf, Record
    <2>3. Replace(s)
      BY <1>4 DEF Settle
    <2> HIDE DEF s
    <2>4. QED
      BY <1>3, <1>4, <2>1, <2>2, <2>3
  <1>5. CASE Expire(r) /\ UNCHANGED approved
    <2> DEFINE s == [r EXCEPT !.status = "expired"]
    <2>1. s \in Record
      BY <1>2, ExpiredRecord
    <2>2. KeyOf(s) = KeyOf(r) /\ s.status = "expired"
      BY <1>2 DEF KeyOf, Record
    <2>3. Replace(s)
      BY <1>5 DEF Expire
    <2> HIDE DEF s
    <2>4. QED
      BY <1>3, <1>5, <2>1, <2>2, <2>3
  <1>6. QED
    BY <1>1, <1>4, <1>5

LEMMA RegisterSubmit ==
    ASSUME TypeOK, CallInv, JobInv, RegisterInv, [Next]_vars, NEW c \in Calls, SubmitRequest(c)
    PROVE  RegisterInv'
  <1>1. PICK t \in Times : Submit(NewRequest(c, t))
    BY DEF SubmitRequest
  <1>2. PICK r \in Requests : r = NewRequest(c, t) /\ Submit(r)
    BY <1>1 DEF Submit
  <1>3. KeyOf(r) = MyKey(c) /\ r.status = "pending" /\ r \in Record
    BY <1>2, RequestIsRecord DEF NewRequest, KeyOf, MyKey
  <1>4. ask[c] \in Asked /\ UNCHANGED approved /\ submitted' = submitted \union {r} /\ Replace(r)
    BY <1>2 DEF SubmitRequest, CallInv, Submit
  <1>5. TurnedAway(c)' /\ \A d \in Calls : TurnedAway(d) => TurnedAway(d)'
    BY SubmitTurnsAway, AwayStays
  <1>6. ASSUME NEW q \in submitted', NEW d \in Calls, NEW s \in Steps,
               KeyOf(q) = Key(Fresh[d], s)
        PROVE  TurnedAway(d)'
    <2>1. CASE q \in submitted
      BY <1>5, <1>6, <2>1 DEF RegisterInv
    <2>2. CASE q = r
      BY <1>3, <1>4, <1>5, <1>6, <2>2, FreshKeys
    <2>3. QED
      BY <1>4, <2>1, <2>2
  <1>7. QED
    BY <1>3, <1>4, <1>6, RegisterReplace

LEMMA RegisterNext == TypeOK /\ CallInv /\ JobInv /\ RegisterInv /\ [Next]_vars => RegisterInv'
  <1> SUFFICES ASSUME TypeOK, CallInv, JobInv, RegisterInv, [Next]_vars PROVE RegisterInv'
    OBVIOUS
  <1>1. CASE UNCHANGED approvals
    BY <1>1, RegisterFrame, AwayStays
  <1>2. ASSUME NEW c \in Calls, Arrive(c) \/ CreateJob(c) PROVE UNCHANGED approvals
    BY <1>2 DEF Arrive, CreateJob
  <1>3. ASSUME NEW c \in Calls, Move(c), ~SubmitRequest(c) PROVE UNCHANGED approvals
    BY <1>3 DEF Move, PrepareFails, Check, CheckBlind, SubmitFails, CreateFails, OpenWatch,
                Told, Poll, Refetch, Answer, GiveUp, Crash
  <1>4. ASSUME NEW n \in Names, Work(n) PROVE UNCHANGED approvals
    BY <1>4 DEF Work, Controller, StartScript, FinishScript, FinishJob, Overrun, Finish,
                StopScript, DeleteJob
  <1>5. QED
    BY <1>1, <1>2, <1>3, <1>4, RegisterDecision, RegisterSubmit, NextCases
    DEF vars, approvals

(* Approvals last, and so does what is cleared.                            *)
LEMMA ClearedStays ==
    ASSUME TypeOK, CallInv, [Next]_vars, NEW c \in Calls, pc[c] # "idle", Cleared(c)
    PROVE  Cleared(c)'
  <1>1. ask'[c] = ask[c] /\ MyKey(c)' = MyKey(c)
    BY CallNext, SameRequest DEF Settled
  <1>2. approved \subseteq approved'
    BY NextCases
    DEF vars, Decision, Arrive, CreateJob, Move, PrepareFails, Check, CheckBlind, SubmitRequest,
        SubmitFails, CreateFails, OpenWatch, Told, Poll, Refetch, Answer, GiveUp, Crash,
        Work, Controller, StartScript, FinishScript, FinishJob, Overrun, Finish, StopScript,
        DeleteJob, approvals
  <1>3. QED
    BY <1>1, <1>2 DEF Cleared

(* Only a lookup leads to a Job.                                           *)
LEMMA CheckClears ==
    ASSUME TypeOK, CallInv, RegisterInv, NEW c \in Calls, Check(c), pc'[c] = "create"
    PROVE  Cleared(c)
  <1>1. ask[c] \in Asked /\ MyKey(c) \in Keys /\ ask[c].step \in Steps
    BY AskFacts DEF Check, CallInv
  <1>2. CASE ask[c].approval
    <2>1. register[MyKey(c)] # None /\ register[MyKey(c)].status = "approved"
      BY <1>2 DEF Check, Goto, StageAfter, TypeOK
    <2>2. MyKey(c) \in approved /\ \E r \in submitted : KeyOf(r) = MyKey(c)
      BY <1>1, <2>1 DEF RegisterInv
    <2>3. ask[c].exec # None
      BY <1>1, <2>2 DEF RegisterInv, MyKey, Id, Check, TurnedAway
    <2>4. QED
      BY <2>2, <2>3 DEF Cleared
  <1>3. QED
    BY <1>2 DEF Cleared

LEMMA ClearNext ==
    TypeOK /\ CallInv /\ JobInv /\ RegisterInv /\ ClearInv /\ [Next]_vars => ClearInv'
  <1> SUFFICES ASSUME TypeOK, CallInv, JobInv, RegisterInv, ClearInv, [Next]_vars
               PROVE  ClearInv'
    OBVIOUS
  <1>1. ASSUME NEW c \in Calls, pc[c] = "create" PROVE Cleared(c)'
    BY <1>1, ClearedStays DEF ClearInv
  <1>2. ASSUME NEW n \in Names, NEW i \in DOMAIN made[n] PROVE Cleared(made[n][i])'
    <2>1. PICK c \in Calls : c = made[n][i] /\ c = made'[n][i]
      BY MadeLasts, MadeFacts DEF Lasting
    <2>2. pc[c] # "idle" /\ Cleared(c)
      BY <2>1 DEF ClearInv, JobInv, MadeAt, Made
    <2>3. Cleared(c)'
      BY <2>2, ClearedStays
    <2>4. QED
      BY <2>1, <2>3 DEF Cleared, MyKey, Id
  <1>3. ASSUME NEW c \in Calls, pc'[c] = "create" PROVE Cleared(c)'
    <2>1. CASE pc[c] = "create"
      BY <1>1, <2>1
    <2>2. CASE Check(c)
      BY <1>3, <2>2, CheckClears, ClearedStays DEF Check
    <2>3. CASE pc[c] # "create" /\ ~Check(c)
      <3>1. pc'[c] # "create"
        <4>1. CASE pc'[c] = pc[c]
          BY <2>3, <4>1
        <4>2. ASSUME NEW d \in Calls, d # c, Arrive(d) \/ CreateJob(d) \/ Move(d)
              PROVE  pc'[c] = pc[c]
          BY <4>2, OthersKeep
        <4>3. CASE Arrive(c) \/ CreateJob(c)
          BY <4>3 DEF Arrive, CreateJob, Goto, TypeOK
        <4>4. CASE Move(c)
          <5>1. CASE Told(c) \/ Poll(c) \/ Refetch(c)
            <6>1. PICK stage : pc' = [pc EXCEPT ![c] = stage] /\ (pc[c] \in Made => stage \in Made)
              BY <4>4, MoveFacts
            <6>2. QED
              BY <5>1, <6>1 DEF Told, Poll, Refetch, Made, TypeOK
          <5>2. QED
            BY <2>3, <4>4, <5>1
            DEF Move, PrepareFails, CheckBlind, SubmitRequest, SubmitFails, CreateFails,
                OpenWatch, GiveUp, Crash, Goto, TypeOK
        <4>5. ASSUME NEW n \in Names, Work(n) PROVE UNCHANGED pc
          BY <4>5 DEF Work, Controller, StartScript, FinishScript, FinishJob, Overrun,
                      Finish, StopScript, DeleteJob
        <4>6. CASE Decision
          BY <4>1, <4>6 DEF Decision
        <4>7. QED
          BY <4>1, <4>2, <4>3, <4>4, <4>5, <4>6, NextCases DEF vars
      <3>2. QED
        BY <1>3, <3>1
    <2>4. QED
      BY <2>1, <2>2, <2>3
  <1>4. ASSUME NEW n \in Names, NEW i \in DOMAIN made'[n] PROVE Cleared(made[n][i])'
    <2>1. CASE i \in DOMAIN made[n]
      BY <1>2, <2>1
    <2>2. CASE i \notin DOMAIN made[n]
      <3>1. PICK c \in Calls : CreateJob(c) /\ made'[n][i] = c
        BY <2>2, NewJob
      <3>2. Cleared(c)'
        BY <1>1, <3>1 DEF CreateJob
      <3>3. QED
        BY <3>1, <3>2 DEF Cleared, MyKey, Id
    <2>3. QED
      BY <2>1, <2>2
  <1>5. QED
    BY <1>3, <1>4 DEF ClearInv

LEMMA InitRegister == Init => RegisterInv /\ ClearInv
  BY DEF Init, RegInit, RegisterInv, ClearInv

(* A Job that needed an approval had one (manager.go, step 6).             *)
THEOREM Approvals == Spec => []JobsWereApproved
  <1>1. ClearInv => JobsWereApproved
    BY DEF ClearInv, Cleared, JobsWereApproved
  <1>2. QED
    BY <1>1, InitType, NextType, InitJob, JobNext, InitRegister, RegisterNext, ClearNext, PTL
    DEF Spec

(* What is approved under a made-up id never runs (manager.go, step 1).    *)
THEOREM Anonymous == Spec => []AnonymousNeverRuns
  <1>1. ClearInv => AnonymousNeverRuns
    BY DEF ClearInv, Cleared, AnonymousNeverRuns
  <1>2. QED
    BY <1>1, InitType, NextType, InitJob, JobNext, InitRegister, RegisterNext, ClearNext, PTL
    DEF Spec

-----------------------------------------------------------------------------
(* The Jobs of the cluster are slots: creating a Job takes one, starting   *)
(* and stopping its script runs and stops the holder, deleting it gives    *)
(* the slot back, and everything else stutters.                            *)
holder == [n \in Names |-> IF jobs[n] = None THEN None ELSE jobs[n].by]
used == {c \in Calls : \E n \in Names : \E i \in DOMAIN made[n] : made[n][i] = c}

LEMMA HolderFacts ==
    ASSUME TypeOK, NEW n \in Names
    PROVE  /\ jobs[n] = None <=> holder[n] = None
           /\ jobs[n] # None => holder[n] = jobs[n].by
  BY JobFacts, ExecutionsNoneAssumption DEF holder

LEMMA SlotTake ==
    ASSUME TypeOK, CallInv, JobInv, NEW c \in Calls, CreateJob(c)
    PROVE  Slots!SlotNext
  <1>1. PICK n \in Names : n = JobName(c) /\ jobs[n] = None
    BY AskFacts DEF CallInv, CreateJob, Free
  <1>2. /\ jobs' = [jobs EXCEPT ![n] = [by |-> c, state |-> "new"]]
        /\ made'[n] = Append(made[n], c)
        /\ \A m \in Names : m # n => made'[m] = made[m]
        /\ UNCHANGED running
    BY <1>1 DEF CreateJob, TypeOK
  <1>3. [by |-> c, state |-> "new"] # None
    BY ExecutionsNoneAssumption DEF Job, States
  <1>4. holder' = [holder EXCEPT ![n] = c]
    <2>1. jobs'[n] = [by |-> c, state |-> "new"] /\ \A m \in Names : m # n => jobs'[m] = jobs[m]
      BY <1>2 DEF TypeOK
    <2>2. jobs'[n].by = c /\ jobs'[n] # None
      BY <1>3, <2>1
    <2>3. \A m \in Names : holder'[m] = IF m = n THEN c ELSE holder[m]
      BY <2>1, <2>2 DEF holder
    <2>4. DOMAIN holder = Names /\ DOMAIN holder' = Names
          /\ holder' = [m \in Names |-> holder'[m]]
      BY DEF holder
    <2> HIDE DEF holder
    <2>5. QED
      BY <2>3, <2>4
  <1>5. c \notin used
    BY MadeFacts DEF used, JobInv, MadeAt, CreateJob, Made
  <1>6. used' = used \union {c}
    <2>1. ASSUME NEW d \in used PROVE d \in used'
      <3>0. PICK m \in Names : \E i \in DOMAIN made[m] : made[m][i] = d
        BY <2>1 DEF used
      <3>1. PICK i \in DOMAIN made[m] : made[m][i] = d
        BY <3>0
      <3>2. i \in DOMAIN made'[m] /\ made'[m][i] = d
        BY <1>2, <3>1, AppendFacts, MadeFacts
      <3>3. QED
        BY <2>1, <3>2 DEF used
    <2>2. c \in used'
      <3>1. Len(made[n]) + 1 \in DOMAIN made'[n] /\ made'[n][Len(made[n]) + 1] = c
        BY <1>2, AppendFacts, MadeFacts
      <3>2. QED
        BY <3>1 DEF used
    <2>3. ASSUME NEW d \in used', d # c PROVE d \in used
      <3>0. PICK m \in Names : \E i \in DOMAIN made'[m] : made'[m][i] = d
        BY <2>3 DEF used
      <3>1. PICK i \in DOMAIN made'[m] : made'[m][i] = d
        BY <3>0
      <3>2. i \in DOMAIN made[m] /\ made[m][i] = d
        <4>1. CASE m # n
          BY <1>2, <3>1, <4>1
        <4>2. CASE m = n
          <5>1. i \in 1 .. (Len(made[n]) + 1) /\ Append(made[n], c)[i] = d
            BY <1>2, <3>1, <4>2, AppendFacts
          <5>2. i # Len(made[n]) + 1
            BY <2>3, <5>1, AppendFacts
          <5>3. i \in 1 .. Len(made[n])
            BY <5>1, <5>2, MadeFacts
          <5>4. QED
            BY <4>2, <5>1, <5>3, AppendFacts, MadeFacts
        <4>3. QED
          BY <4>1, <4>2
      <3>3. d \in Calls
        BY <2>3 DEF used
      <3>4. QED
        BY <3>2, <3>3 DEF used
    <2>4. QED
      BY <2>1, <2>2, <2>3
  <1>7. holder[n] = None
    BY <1>1, HolderFacts
  <1>8. Slots!Take(n, c)
    BY <1>2, <1>4, <1>5, <1>6, <1>7 DEF Slots!Take, holder, used
  <1>9. QED
    BY <1>8 DEF Slots!SlotNext

LEMMA SlotWork ==
    ASSUME TypeOK, NEW n \in Names, Work(n)
    PROVE  Slots!SlotNext \/ UNCHANGED Slots!slotvars
  <1>1. jobs[n] # None /\ UNCHANGED used
    BY DEF Work, Controller, StartScript, FinishScript, FinishJob, Overrun, Finish, StopScript,
           DeleteJob, used
  <1>2. jobs[n].by = holder[n] /\ holder[n] # None
    BY <1>1, HolderFacts
  <1>3. ASSUME NEW state \in States, Become(n, state) PROVE UNCHANGED holder
    <2>1. jobs'[n] = [jobs[n] EXCEPT !.state = state]
          /\ \A m \in Names : m # n => jobs'[m] = jobs[m]
      BY <1>3 DEF Become, TypeOK
    <2>2. jobs'[n] \in Job /\ jobs'[n].by = jobs[n].by
      BY <1>1, <2>1, JobFacts DEF Job
    <2>3. jobs'[n] # None
      BY <2>2, ExecutionsNoneAssumption
    <2>4. QED
      BY <1>1, <2>1, <2>2, <2>3 DEF holder
  <1>4. CASE StartScript(n)
    <2>1. UNCHANGED holder /\ running' = running \union {holder[n]}
      BY <1>2, <1>3, <1>4 DEF StartScript, States
    <2>2. Slots!Run(n)
      BY <1>1, <1>2, <2>1 DEF Slots!Run, holder, used
    <2>3. QED
      BY <2>2 DEF Slots!SlotNext
  <1>5. CASE FinishScript(n) \/ StopScript(n)
    <2>1. UNCHANGED holder
      BY <1>3, <1>5 DEF FinishScript, StopScript, States, holder
    <2>2. running' = running \ {holder[n]}
      BY <1>2, <1>5 DEF FinishScript, StopScript
    <2>3. Slots!Stop(n)
      BY <1>1, <2>1, <2>2 DEF Slots!Stop, holder, used
    <2>4. QED
      BY <2>3 DEF Slots!SlotNext
  <1>6. CASE FinishJob(n) \/ Overrun(n)
    <2>1. UNCHANGED <<holder, running>>
      BY <1>3, <1>6 DEF FinishJob, Overrun, Finish, States
    <2>2. QED
      BY <1>1, <2>1 DEF Slots!slotvars, holder, used
  <1>7. CASE DeleteJob(n)
    <2>1. holder' = [holder EXCEPT ![n] = None] /\ UNCHANGED running
      BY <1>7 DEF DeleteJob, TypeOK, holder
    <2>2. holder[n] \notin running
      BY <1>2, <1>7 DEF DeleteJob
    <2>3. Slots!Release(n)
      BY <1>1, <2>1, <2>2 DEF Slots!Release, holder, used
    <2>4. QED
      BY <2>3 DEF Slots!SlotNext
  <1>8. QED
    BY <1>4, <1>5, <1>6, <1>7 DEF Work, Controller

LEMMA SlotStep ==
    TypeOK /\ CallInv /\ JobInv /\ [Next]_vars => [Slots!SlotNext]_(Slots!slotvars)
  <1> SUFFICES ASSUME TypeOK, CallInv, JobInv, [Next]_vars
               PROVE  Slots!SlotNext \/ UNCHANGED Slots!slotvars
    OBVIOUS
  <1>1. CASE UNCHANGED cluster
    BY <1>1 DEF cluster, Slots!slotvars
  <1>2. CASE Decision
    BY <1>1, <1>2 DEF Decision
  <1>3. ASSUME NEW c \in Calls, Arrive(c) \/ Move(c) PROVE UNCHANGED cluster
    BY <1>3, MoveFacts DEF Arrive
  <1>4. QED
    BY <1>1, <1>2, <1>3, SlotTake, SlotWork, NextCases DEF vars, cluster

(* Jobs named after executions implement slots (job_builder.go,            *)
(* manager.go).                                                            *)
THEOREM Refinement == Spec => RefinesSlots
  <1>1. Init => Slots!SlotInit
    <2> SUFFICES ASSUME Init PROVE Slots!SlotInit
      OBVIOUS
    <2>1. \A n \in Names : jobs[n] = None /\ made[n] = <<>>
      BY DEF Init
    <2>2. QED
      BY <2>1 DEF Init, Slots!SlotInit
  <1>2. QED
    BY <1>1, InitType, NextType, InitJob, JobNext, SlotStep, PTL
    DEF Spec, RefinesSlots, Slots!SlotSpec

(* So no two scripts run in one slot, and no script in two (SlotProofs     *)
(* proves it of every implementation of slots; here it is of the Jobs).    *)
THEOREM SlotsKept == Spec => []Slots!SlotsExclusive
  <1>1. TypeOK /\ CallInv /\ JobInv => Slots!SlotsExclusive
    <2> SUFFICES ASSUME TypeOK, CallInv, JobInv, NEW c \in running
                 PROVE  \E n \in Names : /\ holder[n] = c
                                         /\ \A m \in Names : holder[m] = c => m = n
      BY DEF Slots!SlotsExclusive, holder
    <2>1. c \in Calls /\ RunningAt(c)
      BY DEF TypeOK, JobInv
    <2>2. JobName(c) \in Names
      BY <2>1, AskFacts DEF RunningAt, CallInv, Made
    <2>3. holder[JobName(c)] = c
      BY <2>1, <2>2, HolderFacts DEF RunningAt
    <2>4. ASSUME NEW m \in Names, holder[m] = c PROVE m = JobName(c)
      <3>1. jobs[m] # None /\ jobs[m].by = c
        BY <2>1, <2>4, HolderFacts, ExecutionsNoneAssumption
      <3>2. QED
        BY <3>1 DEF JobInv, JobAt
    <2>5. QED
      BY <2>2, <2>3, <2>4
  <1>2. QED
    BY <1>1, InitType, NextType, InitJob, JobNext, PTL DEF Spec

-----------------------------------------------------------------------------
(* The approvals of the calls are those of ApprovalRegister: each of its   *)
(* promises holds of them too, by the theorem of RegisterProofs.           *)
LEMMA RegisterStep == TypeOK /\ CallInv /\ [Next]_vars => [RegNext]_regvars
  <1> SUFFICES ASSUME TypeOK, CallInv, [Next]_vars
               PROVE  RegNext \/ UNCHANGED regvars
    OBVIOUS
  <1>1. CASE UNCHANGED approvals
    BY <1>1 DEF approvals, regvars
  <1>2. CASE Decision
    BY <1>2 DEF Decision, RegNext
  <1>3. ASSUME NEW c \in Calls, SubmitRequest(c) PROVE RegNext
    <2>1. PICK t \in Times : Submit(NewRequest(c, t))
      BY <1>3 DEF SubmitRequest
    <2>2. PICK r \in Requests : r = NewRequest(c, t)
      BY <2>1 DEF Submit
    <2>3. QED
      BY <2>1, <2>2 DEF RegNext
  <1>4. ASSUME NEW c \in Calls, Arrive(c) \/ CreateJob(c) \/ Move(c), ~SubmitRequest(c)
        PROVE  UNCHANGED approvals
    BY <1>4 DEF Arrive, CreateJob, Move, PrepareFails, Check, CheckBlind, SubmitFails,
                CreateFails, OpenWatch, Told, Poll, Refetch, Answer, GiveUp, Crash
  <1>5. ASSUME NEW n \in Names, Work(n) PROVE UNCHANGED approvals
    BY <1>5 DEF Work, Controller, StartScript, FinishScript, FinishJob, Overrun, Finish,
                StopScript, DeleteJob
  <1>6. QED
    BY <1>1, <1>2, <1>3, <1>4, <1>5, NextCases DEF vars, approvals

(* The calls, the approvers and the clock use the register as it promises  *)
(* to be used (Execute steps 6 and 7, checker.go).                         *)
THEOREM RegisterRefinement == Spec => RegSpec
  <1>1. Init => RegInit
    BY DEF Init
  <1>2. QED
    BY <1>1, InitType, NextType, RegisterStep, PTL DEF Spec, RegSpec

(* So every record that a lookup of Execute finds answers a request that   *)
(* was submitted under this key, and an approval is one that an approver   *)
(* of that request gave.                                                   *)
THEOREM ApprovalsSound == Spec => []RegSound
  BY RegisterRefinement, Soundness, PTL

-----------------------------------------------------------------------------
(* Where the approval of a running script comes from.                      *)

(* d needs an approval, submitted the request r for itself, and got no Job. *)
AskedFor(d, r) ==
    /\ TurnedAway(d) /\ ask[d].approval
    /\ r.exec = Id(d) /\ r.step = ask[d].step
    /\ r.script = ask[d].script /\ r.approvers = ask[d].approvers

OriginInv ==
    /\ \A c \in Calls : pc[c] = "submit" => ask[c].approval
    /\ \A r \in submitted : \E d \in Calls : AskedFor(d, r)
    /\ \A k \in approved : \E r \in submitted, u \in Users :
          KeyOf(r) = k /\ Contains(r.approvers, u)

(* A script that needs an approval runs only after another call was turned *)
(* away for it: a call that submitted a request under the same key, naming *)
(* somebody who could approve it, and that was answered PENDING, or with   *)
(* an error, and never made a Job itself (steps 6 and 7 of Execute): no    *)
(* call clears itself, and no failed lookup or lost reply clears it.       *)
RunsWereAskedFor ==
    \A c \in running : ask[c].approval =>
        \E d \in Calls, r \in submitted, u \in Users :
            /\ d # c /\ AskedFor(d, r)
            /\ KeyOf(r) = MyKey(c) /\ Contains(r.approvers, u)

LEMMA AskedForStays ==
    ASSUME TypeOK, CallInv, JobInv, [Next]_vars, NEW d \in Calls, NEW r, AskedFor(d, r)
    PROVE  AskedFor(d, r)'
  <1>1. TurnedAway(d)'
    BY AwayStays DEF AskedFor
  <1>2. ask'[d] = ask[d]
    BY OverStays DEF AskedFor, TurnedAway, Over
  <1>3. QED
    BY <1>1, <1>2 DEF AskedFor, Id

(* Only a call that needs an approval comes to submit a request.           *)
LEMMA SubmitAsks ==
    ASSUME TypeOK, CallInv, OriginInv, [Next]_vars, NEW c \in Calls, pc'[c] = "submit"
    PROVE  ask'[c].approval
  <1>1. CASE pc'[c] = pc[c]
    <2>1. ask'[c] = ask[c]
      BY <1>1, CallNext DEF Settled
    <2>2. QED
      BY <1>1, <2>1 DEF OriginInv
  <1>2. ASSUME NEW d \in Calls, d # c, Arrive(d) \/ CreateJob(d) \/ Move(d)
        PROVE  pc'[c] = pc[c]
    BY <1>2, OthersKeep
  <1>3. ASSUME Arrive(c) \/ CreateJob(c) PROVE FALSE
    BY <1>3 DEF Arrive, CreateJob, Goto, TypeOK
  <1>4. CASE Check(c)
    BY <1>4 DEF Check, StageAfter, Goto, TypeOK
  <1>5. CASE CheckBlind(c)
    BY <1>5 DEF CheckBlind
  <1>6. ASSUME Move(c), ~Check(c), ~CheckBlind(c) PROVE FALSE
    <2>1. CASE Told(c) \/ Poll(c) \/ Refetch(c)
      <3>1. PICK stage : pc' = [pc EXCEPT ![c] = stage] /\ (pc[c] \in Made => stage \in Made)
        BY <1>6, MoveFacts
      <3>2. QED
        BY <2>1, <3>1 DEF Told, Poll, Refetch, Made, TypeOK
    <2>2. QED
      BY <1>6, <2>1 DEF Move, PrepareFails, SubmitRequest, SubmitFails, CreateFails, OpenWatch,
                        GiveUp, Crash, Goto, TypeOK
  <1>7. ASSUME NEW n \in Names, Work(n) PROVE UNCHANGED pc
    BY <1>7 DEF Work, Controller, StartScript, FinishScript, FinishJob, Overrun, Finish,
                StopScript, DeleteJob
  <1>8. CASE Decision
    BY <1>1, <1>8 DEF Decision
  <1>9. QED
    BY <1>1, <1>2, <1>3, <1>4, <1>5, <1>6, <1>7, <1>8, NextCases DEF vars

(* What is submitted or approved in a step.                                *)
LEMMA NewSubmission ==
    ASSUME TypeOK, CallInv, JobInv, OriginInv, [Next]_vars, NEW r \in submitted', r \notin submitted
    PROVE  \E d \in Calls : AskedFor(d, r)'
  <1>1. PICK d \in Calls : SubmitRequest(d)
    BY NextCases
    DEF vars, Decision, Settle, Expire, Arrive, CreateJob, Move, PrepareFails, Check, CheckBlind,
        SubmitFails, CreateFails, OpenWatch, Told, Poll, Refetch, Answer, GiveUp, Crash, Work,
        Controller, StartScript, FinishScript, FinishJob, Overrun, Finish, StopScript, DeleteJob,
        approvals
  <1>2. PICK t \in Times : Submit(NewRequest(d, t))
    BY <1>1 DEF SubmitRequest
  <1>3. r = NewRequest(d, t)
    BY <1>2 DEF Submit
  <1>4. TurnedAway(d)' /\ ask' = ask /\ ask[d].approval
    BY <1>1, SubmitTurnsAway DEF SubmitRequest, OriginInv
  <1>5. /\ r.exec = Id(d) /\ r.step = ask[d].step
        /\ r.script = ask[d].script /\ r.approvers = ask[d].approvers
    BY <1>3 DEF NewRequest
  <1>6. QED
    BY <1>4, <1>5 DEF AskedFor, Id

LEMMA NewApproval ==
    ASSUME [Next]_vars, NEW k \in approved', k \notin approved
    PROVE  \E r \in submitted, u \in Users : KeyOf(r) = k /\ Contains(r.approvers, u)
  <1>1. Decision
    BY NextCases
    DEF vars, Arrive, CreateJob, Move, PrepareFails, Check, CheckBlind, SubmitRequest,
        SubmitFails, CreateFails, OpenWatch, Told, Poll, Refetch, Answer, GiveUp, Crash, Work,
        Controller, StartScript, FinishScript, FinishJob, Overrun, Finish, StopScript, DeleteJob,
        approvals
  <1>2. PICK r \in submitted, u \in Users, t \in Times :
           Settle(r, "approved", u, t) /\ approved' = approved \union {KeyOf(r)}
    BY <1>1 DEF Decision
  <1>3. QED
    BY <1>2 DEF Settle

LEMMA SubmissionsLast == [Next]_vars => submitted \subseteq submitted'
  BY NextCases
  DEF vars, Decision, Settle, Expire, Submit, Arrive, CreateJob, Move, PrepareFails, Check,
      CheckBlind, SubmitRequest, SubmitFails, CreateFails, OpenWatch, Told, Poll, Refetch, Answer,
      GiveUp, Crash, Work, Controller, StartScript, FinishScript, FinishJob, Overrun, Finish,
      StopScript, DeleteJob, approvals

LEMMA OriginNext == TypeOK /\ CallInv /\ JobInv /\ OriginInv /\ [Next]_vars => OriginInv'
  <1> SUFFICES ASSUME TypeOK, CallInv, JobInv, OriginInv, [Next]_vars PROVE OriginInv'
    OBVIOUS
  <1>1. \A c \in Calls : pc'[c] = "submit" => ask'[c].approval
    BY SubmitAsks
  <1>2. ASSUME NEW r \in submitted' PROVE \E d \in Calls : AskedFor(d, r)'
    <2>1. CASE r \in submitted
      BY <2>1, AskedForStays DEF OriginInv
    <2>2. CASE r \notin submitted
      BY <2>2, NewSubmission
    <2>3. QED
      BY <2>1, <2>2
  <1>3. ASSUME NEW k \in approved'
        PROVE  \E r \in submitted', u \in Users : KeyOf(r) = k /\ Contains(r.approvers, u)
    <2>1. PICK r \in submitted, u \in Users : KeyOf(r) = k /\ Contains(r.approvers, u)
      BY NewApproval DEF OriginInv
    <2>2. QED
      BY <2>1, SubmissionsLast
  <1>4. QED
    BY <1>1, <1>2, <1>3 DEF OriginInv

(* A script that needs an approval runs only after another call was turned *)
(* away for it, having submitted a request that somebody could approve     *)
(* (manager.go, steps 6 and 7).                                            *)
THEOREM RunsAskedFor == Spec => []RunsWereAskedFor
  <1>1. TypeOK /\ CallInv /\ JobInv /\ ClearInv /\ OriginInv => RunsWereAskedFor
    <2> SUFFICES ASSUME TypeOK, CallInv, JobInv, ClearInv, OriginInv,
                        NEW c \in running, ask[c].approval
                 PROVE  \E d \in Calls, r \in submitted, u \in Users :
                           /\ d # c /\ AskedFor(d, r)
                           /\ KeyOf(r) = MyKey(c) /\ Contains(r.approvers, u)
      BY DEF RunsWereAskedFor
    <2>1. c \in Calls /\ RunningAt(c)
      BY DEF TypeOK, JobInv
    <2>2. JobName(c) \in Names
      BY <2>1, AskFacts DEF RunningAt, CallInv, Made
    <2>3. \E i \in DOMAIN made[JobName(c)] : made[JobName(c)][i] = c
      BY <2>1, <2>2, MadeFacts DEF RunningAt, JobInv, JobAt
    <2>4. MyKey(c) \in approved
      BY <2>2, <2>3 DEF ClearInv, Cleared
    <2>5. PICK r \in submitted, u \in Users : KeyOf(r) = MyKey(c) /\ Contains(r.approvers, u)
      BY <2>4 DEF OriginInv
    <2>6. PICK d \in Calls : AskedFor(d, r)
      BY <2>5 DEF OriginInv
    <2>7. d # c
      BY <2>2, <2>3, <2>6 DEF AskedFor, TurnedAway
    <2>8. QED
      BY <2>5, <2>6, <2>7
  <1>2. Init => OriginInv
    BY DEF Init, RegInit, OriginInv
  <1>3. QED
    BY <1>1, <1>2, InitType, NextType, InitJob, JobNext, InitRegister, RegisterNext, ClearNext,
       OriginNext, PTL
    DEF Spec

-----------------------------------------------------------------------------
(* What is final, and what makes names come free.                          *)

(* No step takes back an answer: a call that is over stays as it was       *)
(* answered, by the Job that answered it, and a Job finishes once however  *)
(* many events, polls and deadlines there are about it (Wait).             *)
AnswersAreFinal ==
    [][\A c \in Calls :
          /\ pc[c] \in Over => pc'[c] = pc[c] /\ ask'[c] = ask[c] /\ shown'[c] = shown[c]
          /\ outcome[c] # "none" => outcome'[c] = outcome[c]]_vars

THEOREM Final == Spec => AnswersAreFinal
  <1>1. TypeOK /\ CallInv /\ JobInv /\ [Next]_vars =>
           [\A c \in Calls :
              /\ pc[c] \in Over => pc'[c] = pc[c] /\ ask'[c] = ask[c] /\ shown'[c] = shown[c]
              /\ outcome[c] # "none" => outcome'[c] = outcome[c]]_vars
    BY OverStays, MadeLasts DEF Lasting
  <1>2. QED
    BY <1>1, InitType, NextType, InitJob, JobNext, PTL DEF Spec, AnswersAreFinal

(* A call makes at most one Job, whatever replies it lost (Execute does    *)
(* not create again).                                                      *)
OneJobPerCall ==
    \A m, n \in Names : \A i \in DOMAIN made[m], j \in DOMAIN made[n] :
        made[m][i] = made[n][j] => m = n /\ i = j

LEMMA OneJobNext == TypeOK /\ CallInv /\ JobInv /\ OneJobPerCall /\ [Next]_vars => OneJobPerCall'
  <1> SUFFICES ASSUME TypeOK, CallInv, JobInv, OneJobPerCall, [Next]_vars
               PROVE  OneJobPerCall'
    OBVIOUS
  <1>1. CASE UNCHANGED made
    BY <1>1 DEF OneJobPerCall
  <1>2. ASSUME NEW c \in Calls, CreateJob(c) PROVE OneJobPerCall'
    <2>1. PICK n \in Names : n = JobName(c)
      BY <1>2, AskFacts DEF CallInv, CreateJob
    <2>2. made'[n] = Append(made[n], c) /\ \A m \in Names : m # n => made'[m] = made[m]
      BY <1>2, <2>1 DEF CreateJob, TypeOK
    <2>3. \A m \in Names : \A i \in DOMAIN made[m] : made[m][i] # c
      BY <1>2 DEF JobInv, MadeAt, CreateJob, Made
    <2>4. ASSUME NEW m \in Names, NEW i \in DOMAIN made'[m]
          PROVE  \/ i \in DOMAIN made[m] /\ made'[m][i] = made[m][i]
                 \/ m = n /\ i = Len(made[n]) + 1 /\ made'[m][i] = c
      <3>1. CASE m # n
        BY <2>2, <3>1
      <3>2. CASE m = n
        BY <2>2, <3>2, AppendFacts, MadeFacts
      <3>3. QED
        BY <3>1, <3>2
    <2>5. QED
      BY <2>3, <2>4 DEF OneJobPerCall
  <1>3. ASSUME NEW c \in Calls, Arrive(c) \/ Move(c) PROVE UNCHANGED made
    BY <1>3, MoveFacts DEF Arrive, cluster
  <1>4. ASSUME NEW n \in Names, Work(n) PROVE UNCHANGED made
    BY <1>4 DEF Work, Controller, StartScript, FinishScript, FinishJob, Overrun, Finish,
                StopScript, DeleteJob
  <1>5. QED
    BY <1>1, <1>2, <1>3, <1>4, NextCases DEF vars, Decision, cluster

THEOREM OneJob == Spec => []OneJobPerCall
  <1>1. Init => OneJobPerCall
    <2>1. Init => \A n \in Names : made[n] = <<>>
      BY DEF Init
    <2>2. QED
      BY <2>1 DEF OneJobPerCall
  <1>2. QED
    BY <1>1, InitType, NextType, InitJob, JobNext, OneJobNext, PTL DEF Spec

(* How far the Job under a name is from leaving it free.                   *)
Left(n) ==
    IF jobs[n] = None THEN 0
    ELSE CASE jobs[n].state = "new" -> 5
           [] jobs[n].state = "started" -> 4
           [] jobs[n].state \in {"exited0", "exited1"} -> 3
           [] OTHER -> IF jobs[n].by \in running THEN 2 ELSE 1

(* The controller takes every Job, in at most five steps, off its name,    *)
(* and nothing, no call, no script and no Job of another name, sets it     *)
(* back; a name that is free is taken by creating a Job only (the fields   *)
(* that Build sets).  With the fairness of the controllers this is what    *)
(* NamesComeFree needs.                                                    *)
NamesWindDown ==
    [][\A n \in Names :
          /\ jobs[n] # None => Left(n)' <= Left(n)
          /\ Controller(n) => Left(n)' < Left(n)
          /\ jobs[n] = None /\ ~(\E c \in Calls : CreateJob(c) /\ JobName(c) = n) =>
                jobs'[n] = None]_vars

(* A name whose Job and pod a step leaves alone, or whose pod it stops.    *)
LEMMA LeftFrame ==
    ASSUME TypeOK, NEW n \in Names, jobs'[n] = jobs[n],
           jobs[n] # None /\ jobs[n].by \in running' => jobs[n].by \in running
    PROVE  Left(n)' <= Left(n)
  <1>1. CASE jobs[n] = None
    BY <1>1 DEF Left
  <1>2. CASE jobs[n] # None
    <2>1. jobs[n].state \in States
      BY <1>2, JobFacts
    <2>2. CASE ~Finished(jobs[n])
      BY <1>2, <2>1, <2>2 DEF Left, States, Finished
    <2>3. CASE Finished(jobs[n])
      BY <1>2, <2>3 DEF Left, Finished
    <2>4. QED
      BY <2>2, <2>3
  <1>3. QED
    BY <1>1, <1>2

LEMMA LeftOwn ==
    ASSUME TypeOK, NEW n \in Names, Work(n)
    PROVE  jobs[n] # None /\ Left(n)' < Left(n)
  <1>1. jobs[n] # None
    BY DEF Work, Controller, StartScript, FinishScript, FinishJob, Overrun, StopScript, DeleteJob
  <1>2. ASSUME NEW state \in States, Become(n, state)
        PROVE  jobs'[n] # None /\ jobs'[n].state = state /\ jobs'[n].by = jobs[n].by
    <2>1. jobs'[n] = [jobs[n] EXCEPT !.state = state]
      BY <1>2 DEF Become, TypeOK
    <2>2. jobs'[n] \in Job /\ jobs'[n].state = state /\ jobs'[n].by = jobs[n].by
      BY <1>1, <2>1, JobFacts DEF Job
    <2>3. QED
      BY <2>2, ExecutionsNoneAssumption
  <1>3. CASE StartScript(n)
    <2>1. jobs'[n] # None /\ jobs'[n].state = "started"
      BY <1>2, <1>3 DEF StartScript, States
    <2>2. QED
      BY <1>1, <1>3, <2>1 DEF StartScript, Left
  <1>4. CASE FinishScript(n)
    <2>1. jobs'[n] # None /\ jobs'[n].state \in {"exited0", "exited1"}
      BY <1>2, <1>4 DEF FinishScript, States
    <2>2. QED
      BY <1>1, <1>4, <2>1 DEF FinishScript, Left
  <1>5. CASE FinishJob(n) \/ Overrun(n)
    <2>1. jobs'[n] # None /\ jobs'[n].state \in {"succeeded", "failed"}
      BY <1>2, <1>5 DEF FinishJob, Overrun, Finish, States
    <2>2. jobs[n].state \in {"new", "started", "exited0", "exited1"}
      BY <1>5 DEF FinishJob, Overrun
    <2>3. QED
      BY <1>1, <2>1, <2>2 DEF Left
  <1>6. CASE StopScript(n)
    <2>1. /\ jobs' = jobs /\ running' = running \ {jobs[n].by} /\ jobs[n].by \in running
          /\ jobs[n].state \in {"succeeded", "failed"}
      BY <1>6 DEF StopScript, Finished
    <2>2. QED
      BY <1>1, <2>1 DEF Left
  <1>7. CASE DeleteJob(n)
    <2>1. jobs'[n] = None /\ jobs[n].by \notin running /\ jobs[n].state \in {"succeeded", "failed"}
      BY <1>7 DEF DeleteJob, Finished, TypeOK
    <2>2. QED
      BY <1>1, <2>1 DEF Left
  <1>8. QED
    BY <1>1, <1>3, <1>4, <1>5, <1>6, <1>7 DEF Work, Controller

(* The controller and the script of another name.                          *)
LEMMA LeftOther ==
    ASSUME TypeOK, JobInv, NEW m \in Names, Work(m), NEW n \in Names, n # m
    PROVE  jobs'[n] = jobs[n] /\ Left(n)' <= Left(n)
  <1>1. jobs[m] # None /\ jobs'[n] = jobs[n]
    BY DEF Work, Controller, StartScript, FinishScript, FinishJob, Overrun, Finish, Become,
           StopScript, DeleteJob, TypeOK
  <1>2. \A c \in running' : c \in running \/ c = jobs[m].by
    BY DEF Work, Controller, StartScript, FinishScript, FinishJob, Overrun, Finish, StopScript,
           DeleteJob
  <1>3. jobs[n] # None => jobs[n].by # jobs[m].by
    BY <1>1 DEF JobInv, JobAt
  <1>4. QED
    BY <1>1, <1>2, <1>3, LeftFrame

LEMMA LeftNext ==
    ASSUME TypeOK, CallInv, JobInv, Next, NEW n \in Names
    PROVE  /\ jobs[n] # None => Left(n)' <= Left(n)
           /\ Controller(n) => Left(n)' < Left(n)
           /\ jobs[n] = None /\ ~(\E c \in Calls : CreateJob(c) /\ JobName(c) = n) =>
                 jobs'[n] = None
  <1>1. CASE UNCHANGED <<jobs, running>>
    BY <1>1, LeftFrame, LeftOwn DEF Work
  <1>2. CASE Decision
    BY <1>1, <1>2 DEF Decision, cluster
  <1>3. ASSUME NEW c \in Calls, Arrive(c) \/ Move(c) PROVE UNCHANGED <<jobs, running>>
    BY <1>3, MoveFacts DEF Arrive, cluster
  <1>4. ASSUME NEW c \in Calls, CreateJob(c)
        PROVE  /\ jobs[n] # None => Left(n)' <= Left(n)
               /\ jobs[n] = None /\ JobName(c) # n => jobs'[n] = None
    <2>1. JobName(c) \in Names /\ jobs[JobName(c)] = None
      BY <1>4, AskFacts DEF CallInv, CreateJob, Free
    <2>2. UNCHANGED running /\ \A m \in Names : m # JobName(c) => jobs'[m] = jobs[m]
      BY <1>4, <2>1 DEF CreateJob, TypeOK
    <2>3. QED
      BY <2>1, <2>2, LeftFrame
  <1>5. ASSUME NEW m \in Names, Work(m)
        PROVE  /\ jobs[n] # None => Left(n)' <= Left(n)
               /\ jobs[n] = None => jobs'[n] = None
    <2>1. CASE m = n
      <3>1. jobs[n] # None /\ Left(n)' < Left(n)
        BY <1>5, <2>1, LeftOwn
      <3>2. Left(n) \in 0 .. 5 /\ Left(n)' \in 0 .. 5
        BY DEF Left
      <3>3. QED
        BY <3>1, <3>2
    <2>2. CASE m # n
      BY <1>5, <2>2, LeftOther
    <2>3. QED
      BY <2>1, <2>2
  <1>6. Controller(n) => Left(n)' < Left(n)
    BY LeftOwn DEF Work
  <1>7. QED
    BY <1>1, <1>2, <1>3, <1>4, <1>5, <1>6, NextCases

THEOREM NamesWind == Spec => NamesWindDown
  <1>1. TypeOK /\ CallInv /\ JobInv /\ [Next]_vars =>
           [\A n \in Names :
              /\ jobs[n] # None => Left(n)' <= Left(n)
              /\ Controller(n) => Left(n)' < Left(n)
              /\ jobs[n] = None /\ ~(\E c \in Calls : CreateJob(c) /\ JobName(c) = n) =>
                    jobs'[n] = None]_vars
    BY LeftNext
  <1>2. QED
    BY <1>1, InitType, NextType, InitJob, JobNext, PTL DEF Spec, NamesWindDown

=============================================================================
