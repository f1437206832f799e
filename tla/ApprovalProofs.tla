--------------------------- MODULE ApprovalProofs ---------------------------
(***************************************************************************)
(* Proofs about Approval, for every set of calls, executions, steps,       *)
(* scripts and users, every approver list and every lifetime.              *)
(***************************************************************************)
EXTENDS Approval, SequenceTheorems, TLAPS

-----------------------------------------------------------------------------
(* Lemmas about requests as values.                                        *)

(* The key of an execution and a step is one of the ConfigMap's keys. *)
LEMMA KeyType ==
    ASSUME NEW e \in Executions, NEW s \in Steps
    PROVE  Key(e, s) \in Keys
  BY DEF Keys

(* The key of a record is one of the ConfigMap's keys. *)
LEMMA KeyOfType ==
    ASSUME NEW r \in Record
    PROVE  KeyOf(r) \in Keys
  BY KeyType DEF KeyOf, Record

(* The arguments of a call name an execution and a step, and its operation *)
(* tells which arguments it has besides.                                   *)
LEMMA ArgType ==
    ASSUME NEW a \in Arg
    PROVE  /\ a.exec \in Executions /\ a.step \in Steps
           /\ a.op \in {"execute", "approve", "deny"}
           /\ a.op = "execute" => a \in ExecuteArg
           /\ a.op # "execute" => a \in DecideArg /\ a.user \in Users
  BY DEF Arg, ExecuteArg, DecideArg

(* A new request is a pending record under the key of its call. *)
LEMMA NewRequestType ==
    ASSUME NEW a \in ExecuteArg, now \in 0 .. MaxTime
    PROVE  /\ NewRequest(a) \in Requests
           /\ KeyOf(NewRequest(a)) = Key(a.exec, a.step)
  <1>1. now + Lifetime \in Times
    BY TimeAssumption
  <1>2. (IF a.approvers = {} THEN DefaultApprovers ELSE a.approvers) \in SUBSET Users
    BY ApproversAssumption DEF ExecuteArg
  <1>3. NewRequest(a) \in Requests
    BY <1>1, <1>2 DEF ExecuteArg, NewRequest, Requests
  <1>4. QED
    BY <1>3 DEF NewRequest, KeyOf

(* A request is a record. *)
LEMMA RequestsAreRecords == Requests \subseteq Record
  BY TimesAssumption DEF Requests, Record, Statuses

(* A decision keeps the request it answers. *)
LEMMA JudgedType ==
    ASSUME NEW r \in Requests, NEW a \in DecideArg, now \in 0 .. MaxTime
    PROVE  /\ Judged(r, a) \in Record
           /\ KeyOf(Judged(r, a)) = KeyOf(r)
           /\ Request(Judged(r, a)) = r
           /\ Judged(r, a).status = Verdict(a.op)
           /\ Judged(r, a).by = a.user
           /\ Judged(r, a).at = now
           /\ Judged(r, a).approvers = r.approvers
           /\ Judged(r, a).expiresAt = r.expiresAt
  <1>1. now \in Times
    BY TimeAssumption
  <1>2. Verdict(a.op) \in Statuses /\ a.user \in Users
    BY DEF DecideArg, Verdict, Statuses
  <1>3. Judged(r, a) \in Record
    BY <1>1, <1>2 DEF Judged, Requests, Record
  <1>4. Request(Judged(r, a)) = r
    BY DEF Judged, Request, Requests
  <1>5. QED
    BY <1>3, <1>4 DEF Judged, KeyOf, Requests

(* An expired request keeps the request it gives up. *)
LEMMA ExpiredType ==
    ASSUME NEW r \in Requests
    PROVE  /\ [r EXCEPT !.status = "expired"] \in Record
           /\ KeyOf([r EXCEPT !.status = "expired"]) = KeyOf(r)
           /\ Request([r EXCEPT !.status = "expired"]) = r
           /\ [r EXCEPT !.status = "expired"].status = "expired"
  <1>1. [r EXCEPT !.status = "expired"] \in Record
    BY TimesAssumption DEF Requests, Record, Statuses
  <1>2. Request([r EXCEPT !.status = "expired"]) = r
    BY DEF Request, Requests
  <1>3. QED
    BY <1>1, <1>2 DEF KeyOf, Requests

-----------------------------------------------------------------------------
(* Type correctness.  TypeOK alone is not inductive: what a call will store *)
(* has its type because of where the call stands, and the map it stores is *)
(* the current one because of the version it was read at.                  *)

Holding == {"open", "make", "fetch", "store"}

ArgOK == \A c \in Calls : /\ pc[c] # "idle" => arg[c] \in Arg
                          /\ pc[c] = "stamp" => arg[c] \in ExecuteArg

Filed(r, k) == KeyOf(r) = k /\ (r.status = "pending" => r \in Requests)

DataOK == \A k \in Keys : data[k] # None => Filed(data[k], k)

DraftOK == \A c \in Calls : pc[c] \in Holding =>
              draft[c] \in Record /\ Filed(draft[c], MyKey(c))

(* What is about to be decided is a request of the call's key. *)
JudgeOK == \A c \in Calls : pc[c] = "judge" =>
              /\ arg[c] \in DecideArg
              /\ draft[c] \in Requests /\ KeyOf(draft[c]) = MyKey(c)

CopyOK == \A c \in Calls : pc[c] = "store" =>
              /\ copy[c] \in Copy
              /\ copy[c].version \in 1 .. version
              /\ copy[c].version = version => copy[c].data = data

TypeInv == TypeOK /\ ArgOK /\ DataOK /\ DraftOK /\ JudgeOK /\ CopyOK

(* A call that is running has a key, and what is stored under it is filed  *)
(* there.                                                                  *)
LEMMA RunningFacts ==
    ASSUME TypeInv, NEW c \in Calls, pc[c] # "idle"
    PROVE  /\ MyKey(c) \in Keys
           /\ arg[c] \in Arg
           /\ Stored(c) # None => Stored(c) \in Record /\ Filed(Stored(c), MyKey(c))
  <1>1. arg[c] \in Arg
    BY DEF TypeInv, ArgOK
  <1>2. MyKey(c) \in Keys
    BY <1>1, ArgType, KeyType DEF MyKey
  <1>3. QED
    BY <1>1, <1>2 DEF TypeInv, TypeOK, DataOK, Stored

LEMMA InitTypeInv == Init => TypeInv
  BY TimeAssumption DEF Init, TypeInv, TypeOK, ArgOK, DataOK, DraftOK, JudgeOK, CopyOK,
     Holding, Copy

(* An action that moves one call and leaves its record, its copy and the   *)
(* ConfigMap alone.                                                        *)
LEMMA MoveTypeInv ==
    ASSUME TypeInv, NEW c \in Calls, pc[c] # "idle",
           NEW p \in (Running \union Answered) \ {"judge"}, pc' = [pc EXCEPT ![c] = p],
           p \in Holding => pc[c] \in Holding /\ p # "store",
           p = "stamp" => arg[c] \in ExecuteArg,
           seen' \in [Calls -> Nat], looked' \in [Calls -> 0 .. MaxTime],
           UNCHANGED <<now, arg, draft, copy, configMap>>
    PROVE  TypeInv'
  BY DEF TypeInv, TypeOK, ArgOK, DataOK, DraftOK, JudgeOK, CopyOK, MyKey, Filed, Holding,
     configMap

LEMMA StartTypeInv ==
    ASSUME TypeInv, NEW c \in Calls, Start(c)
    PROVE  TypeInv'
  BY DEF TypeInv, TypeOK, ArgOK, DataOK, DraftOK, JudgeOK, CopyOK, MyKey, Filed, Holding,
     configMap, Start, Goto, Running

(* An action that gives a call the record it is about to store. *)
LEMMA DraftTypeInv ==
    ASSUME TypeInv, NEW c \in Calls, pc[c] # "idle",
           NEW p \in {"open", "fetch"}, pc' = [pc EXCEPT ![c] = p],
           NEW r \in Record, Filed(r, MyKey(c)),
           draft' = [draft EXCEPT ![c] = r],
           seen' \in [Calls -> Nat], looked' \in [Calls -> 0 .. MaxTime],
           UNCHANGED <<now, arg, copy, configMap>>
    PROVE  TypeInv'
  BY DEF TypeInv, TypeOK, ArgOK, DataOK, DraftOK, JudgeOK, CopyOK, MyKey, Filed, Holding,
     configMap, Running

(* An action that ends a call's write, or the call. *)
LEMMA LeaveTypeInv ==
    ASSUME TypeInv, NEW c \in Calls, pc[c] # "idle",
           NEW p \in (Running \union Answered) \ (Holding \union {"judge"}),
           pc' = [pc EXCEPT ![c] = p],
           p = "stamp" => arg[c] \in ExecuteArg, Drop(c),
           UNCHANGED <<now, arg, seen, looked, configMap>>
    PROVE  TypeInv'
  BY DEF TypeInv, TypeOK, ArgOK, DataOK, DraftOK, JudgeOK, CopyOK, MyKey, Filed, Holding,
     configMap, Drop

LEMMA WhereNext ==
    ASSUME TypeInv, NEW c \in Calls, pc[c] # "idle"
    PROVE  /\ Undecided(c) \in {"stamp", "rejected"}
           /\ Undecided(c) = "stamp" => arg[c] \in ExecuteArg
           /\ \A ok \in BOOLEAN :
                /\ AfterWrite(c, ok) \in {"stamp", "rejected", "pending", "failed", "ok"}
                /\ AfterWrite(c, ok) = "stamp" => arg[c] \in ExecuteArg
  BY RunningFacts, ArgType DEF Undecided, AfterWrite

LEMMA GetTypeInv ==
    ASSUME TypeInv, NEW c \in Calls,
           GetMissing(c) \/ GetError(c) \/ Check(c)
    PROVE  TypeInv'
  <1>1. seen' \in [Calls -> Nat] /\ looked' \in [Calls -> 0 .. MaxTime]
    BY DEF TypeInv, TypeOK, GetMissing, GetError, Check
  <1>2. PICK p \in {"stamp", "rejected", "cleared", "failed"} :
            /\ pc' = [pc EXCEPT ![c] = p]
            /\ p = "stamp" => arg[c] \in ExecuteArg
    BY WhereNext, RunningFacts, ArgType DEF GetMissing, GetError, Check, Goto
  <1>3. pc[c] = "get" /\ UNCHANGED <<now, arg, draft, copy, configMap>>
    BY DEF GetMissing, GetError, Check
  <1>4. QED
    BY <1>1, <1>2, <1>3, MoveTypeInv DEF Running, Answered, Holding

LEMMA GetOverdueTypeInv ==
    ASSUME TypeInv, NEW c \in Calls, GetOverdue(c)
    PROVE  TypeInv'
  <1> DEFINE r == [Stored(c) EXCEPT !.status = "expired"]
  <1>1. Stored(c) \in Requests /\ KeyOf(Stored(c)) = MyKey(c)
    BY RunningFacts DEF GetOverdue, Overdue, Filed
  <1>2. r \in Record /\ Filed(r, MyKey(c))
    BY <1>1, ExpiredType DEF Filed
  <1>3. seen' \in [Calls -> Nat] /\ looked' \in [Calls -> 0 .. MaxTime]
    BY DEF TypeInv, TypeOK, GetOverdue
  <1>4. QED
    BY <1>2, <1>3, DraftTypeInv DEF GetOverdue, Goto

LEMMA DecideTypeInv ==
    ASSUME TypeInv, NEW c \in Calls, Decide(c)
    PROVE  TypeInv'
  <1>1. seen' \in [Calls -> Nat] /\ looked' \in [Calls -> 0 .. MaxTime]
    BY DEF TypeInv, TypeOK, Decide
  <1>2. CASE Decidable(Stored(c), arg[c].user)
    <2>1. Stored(c) \in Requests /\ KeyOf(Stored(c)) = MyKey(c)
      BY <1>2, RunningFacts DEF Decide, Decidable, Filed
    <2>2. arg[c] \in DecideArg
      BY RunningFacts, ArgType DEF Decide
    <2>3. /\ draft' = [draft EXCEPT ![c] = Stored(c)] /\ pc' = [pc EXCEPT ![c] = "judge"]
          /\ pc[c] = "get" /\ UNCHANGED <<now, arg, copy, configMap>>
      BY <1>2 DEF Decide, Goto
    <2>4. TypeOK'
      BY <1>1, <2>1, <2>3, RequestsAreRecords DEF TypeInv, TypeOK, configMap, Running
    <2>5. ArgOK' /\ DataOK' /\ DraftOK' /\ CopyOK'
      BY <2>3 DEF TypeInv, TypeOK, ArgOK, DataOK, DraftOK, CopyOK, MyKey, Filed, Holding,
         configMap
    <2>6. JudgeOK'
      BY <2>1, <2>2, <2>3 DEF TypeInv, TypeOK, JudgeOK, MyKey
    <2>7. QED
      BY <2>4, <2>5, <2>6 DEF TypeInv
  <1>3. CASE ~Decidable(Stored(c), arg[c].user)
    BY <1>1, <1>3, MoveTypeInv DEF Decide, Goto, Running, Answered, Holding
  <1>4. QED
    BY <1>2, <1>3

LEMMA JudgeTypeInv ==
    ASSUME TypeInv, NEW c \in Calls, Judge(c)
    PROVE  TypeInv'
  <1> DEFINE r == Judged(draft[c], arg[c])
  <1>1. arg[c] \in DecideArg /\ draft[c] \in Requests /\ KeyOf(draft[c]) = MyKey(c)
    BY DEF TypeInv, JudgeOK, Judge
  <1>2. r \in Record /\ KeyOf(r) = MyKey(c) /\ r.status = Verdict(arg[c].op)
    BY <1>1, JudgedType DEF TypeInv, TypeOK
  <1>3. Filed(r, MyKey(c))
    BY <1>2 DEF Filed, Verdict
  <1>4. seen' \in [Calls -> Nat] /\ looked' \in [Calls -> 0 .. MaxTime]
    BY DEF TypeInv, TypeOK, Judge
  <1>5. draft' = [draft EXCEPT ![c] = r] /\ pc' = [pc EXCEPT ![c] = "fetch"]
        /\ pc[c] # "idle" /\ UNCHANGED <<now, arg, copy, configMap>>
    BY DEF Judge, Goto
  <1> HIDE DEF r
  <1>6. QED
    BY <1>2, <1>3, <1>4, <1>5, DraftTypeInv

LEMMA StampTypeInv ==
    ASSUME TypeInv, NEW c \in Calls, Stamp(c)
    PROVE  TypeInv'
  <1>1. arg[c] \in ExecuteArg
    BY DEF TypeInv, ArgOK, Stamp
  <1>2. NewRequest(arg[c]) \in Record /\ Filed(NewRequest(arg[c]), MyKey(c))
    BY <1>1, NewRequestType, RequestsAreRecords DEF TypeInv, TypeOK, Filed, MyKey
  <1>3. seen' \in [Calls -> Nat] /\ looked' \in [Calls -> 0 .. MaxTime]
    BY DEF TypeInv, TypeOK, Stamp
  <1>4. QED
    BY <1>2, <1>3, DraftTypeInv DEF Stamp, Goto

LEMMA FetchTypeInv ==
    ASSUME TypeInv, NEW c \in Calls, Fetch(c)
    PROVE  TypeInv'
  <1>1. [version |-> version, data |-> data] \in Copy
    BY DEF TypeInv, TypeOK, Copy
  <1>2. TypeOK' /\ ArgOK' /\ DataOK' /\ DraftOK' /\ JudgeOK'
    BY <1>1 DEF TypeInv, TypeOK, ArgOK, DataOK, DraftOK, JudgeOK, MyKey, Filed, Holding,
       configMap, Fetch, Goto, Running
  <1>3. CopyOK'
    BY <1>1 DEF TypeInv, TypeOK, CopyOK, configMap, Fetch, Goto
  <1>4. QED
    BY <1>2, <1>3 DEF TypeInv

LEMMA OpenFailsTypeInv ==
    ASSUME TypeInv, NEW c \in Calls, OpenFails(c)
    PROVE  TypeInv'
  BY MoveTypeInv DEF OpenFails, Goto, Running, Holding, TypeInv, TypeOK

LEMMA MakeTypeInv ==
    ASSUME TypeInv, NEW c \in Calls, Make(c)
    PROVE  TypeInv'
  <1>1. [version |-> 1, data |-> data] \in Copy
    BY DEF TypeInv, TypeOK, Copy
  <1>2. TypeOK' /\ ArgOK' /\ DataOK' /\ DraftOK' /\ JudgeOK'
    BY <1>1 DEF TypeInv, TypeOK, ArgOK, DataOK, DraftOK, JudgeOK, MyKey, Filed, Holding,
       Make, Goto, Running
  <1>3. CopyOK'
    BY <1>1 DEF TypeInv, TypeOK, CopyOK, Make, Goto
  <1>4. QED
    BY <1>2, <1>3 DEF TypeInv

LEMMA MakeFailsTypeInv ==
    ASSUME TypeInv, NEW c \in Calls, MakeFails(c)
    PROVE  TypeInv'
  <1>1. TypeOK' /\ ArgOK' /\ DataOK' /\ DraftOK' /\ JudgeOK'
    BY DEF TypeInv, TypeOK, ArgOK, DataOK, DraftOK, JudgeOK, MyKey, Filed, Holding,
       MakeFails, Goto, Drop, Answered
  <1>2. CopyOK'
    BY DEF TypeInv, TypeOK, CopyOK, MakeFails, Goto, Drop
  <1>3. QED
    BY <1>1, <1>2 DEF TypeInv

LEMMA LeaveActionsTypeInv ==
    ASSUME TypeInv, NEW c \in Calls, FetchFails(c) \/ PutFails(c) \/ Crash(c)
    PROVE  TypeInv'
  <1>1. pc[c] # "idle" /\ Drop(c) /\ UNCHANGED <<now, arg, seen, looked, configMap>>
    BY DEF FetchFails, PutFails, Crash, Running
  <1>2. PICK p \in (Running \union Answered) \ (Holding \union {"judge"}) :
            /\ pc' = [pc EXCEPT ![c] = p]
            /\ p = "stamp" => arg[c] \in ExecuteArg
    BY <1>1, WhereNext DEF FetchFails, PutFails, Crash, Goto, Running, Answered, Holding
  <1>3. QED
    BY <1>1, <1>2, LeaveTypeInv

LEMMA PutTypeInv ==
    ASSUME TypeInv, NEW c \in Calls, Put(c)
    PROVE  TypeInv'
  <1> DEFINE k == MyKey(c)
  <1>1. /\ draft[c] \in Record /\ Filed(draft[c], k) /\ KeyOf(draft[c]) = k
        /\ k \in Keys /\ copy[c].data = data /\ pc[c] = "store"
    BY RunningFacts DEF TypeInv, DraftOK, CopyOK, Put, Current, Holding, Filed
  <1>2. /\ data' = [data EXCEPT ![k] = draft[c]]
        /\ version' = version + 1
        /\ wrote' = [wrote EXCEPT ![k] = version + 1]
        /\ log' = log \union {[call |-> c, rec |-> draft[c]]}
        /\ seen' = [seen EXCEPT ![c] = version + 1]
        /\ Drop(c)
        /\ UNCHANGED <<now, arg, looked>>
    BY <1>1 DEF Put
  <1>3. PICK p \in {"stamp", "rejected", "pending", "failed", "ok"} :
            /\ pc' = [pc EXCEPT ![c] = p]
            /\ p = "stamp" => arg[c] \in ExecuteArg
    BY <1>1, WhereNext DEF Put, Goto
  <1>4. TypeOK'
    BY <1>1, <1>2, <1>3 DEF TypeInv, TypeOK, Drop, Running, Answered
  <1>5. ArgOK'
    BY <1>1, <1>2, <1>3 DEF TypeInv, TypeOK, ArgOK
  <1>6. DataOK'
    <2> SUFFICES ASSUME NEW j \in Keys, data'[j] # None
                 PROVE  Filed(data'[j], j)
      BY DEF DataOK, Filed
    <2>1. CASE j = k
      BY <1>1, <1>2, <2>1 DEF TypeInv, TypeOK
    <2>2. CASE j # k
      BY <1>1, <1>2, <2>2 DEF TypeInv, TypeOK, DataOK
    <2>3. QED
      BY <2>1, <2>2
  <1>7. DraftOK'
    <2> SUFFICES ASSUME NEW d \in Calls, pc'[d] \in Holding
                 PROVE  draft'[d] \in Record /\ Filed(draft'[d], MyKey(d)')
      BY DEF DraftOK
    <2>1. d # c /\ pc[d] \in Holding
      BY <1>3 DEF TypeInv, TypeOK, Holding
    <2>2. draft'[d] = draft[d] /\ MyKey(d)' = MyKey(d)
      BY <1>2, <2>1 DEF Drop, TypeInv, TypeOK, MyKey
    <2>3. QED
      BY <2>1, <2>2 DEF TypeInv, DraftOK
  <1>8. CopyOK'
    BY <1>2, <1>3 DEF TypeInv, TypeOK, CopyOK, Drop
  <1>9. JudgeOK'
    BY <1>2, <1>3 DEF TypeInv, TypeOK, JudgeOK, Drop, MyKey
  <1>10. QED
    BY <1>4, <1>5, <1>6, <1>7, <1>8, <1>9 DEF TypeInv

LEMMA TickTypeInv == TypeInv /\ Tick => TypeInv'
  BY TimeAssumption DEF TypeInv, TypeOK, ArgOK, DataOK, DraftOK, JudgeOK, CopyOK, MyKey, Filed, Tick,
     configMap

LEMMA NextTypeInv == TypeInv /\ [Next]_vars => TypeInv'
  <1> SUFFICES ASSUME TypeInv, [Next]_vars PROVE TypeInv'
    OBVIOUS
  <1>1. CASE Tick
    BY <1>1, TickTypeInv
  <1>2. ASSUME NEW c \in Calls, Start(c) \/ Proceed(c) \/ Crash(c)
        PROVE  TypeInv'
    BY <1>2, StartTypeInv, GetTypeInv, GetOverdueTypeInv, DecideTypeInv, JudgeTypeInv, StampTypeInv,
       FetchTypeInv, OpenFailsTypeInv, MakeTypeInv, MakeFailsTypeInv, PutTypeInv,
       LeaveActionsTypeInv DEF Proceed
  <1>3. CASE UNCHANGED vars
    BY <1>3 DEF TypeInv, TypeOK, ArgOK, DataOK, DraftOK, JudgeOK, CopyOK, MyKey, Filed, vars,
       configMap
  <1>4. QED
    BY <1>1, <1>2, <1>3 DEF Next

(* The strengthened type invariant holds throughout. *)
LEMMA TypeInvariance == Spec => []TypeInv
  BY InitTypeInv, NextTypeInv, PTL DEF Spec

(* TypeOK holds in every reachable state: whatever calls read, fail and    *)
(* conflict, the ConfigMap holds complete records and every call what its  *)
(* place in the handler says it holds.                                     *)
THEOREM TypeCorrect == Spec => []TypeOK
  <1>1. TypeInv => TypeOK
    BY DEF TypeInv
  <1>2. QED
    BY <1>1, TypeInvariance, PTL

-----------------------------------------------------------------------------
(* Where decisions come from.  The invariant follows a record from the     *)
(* request Get returned, through the draft that answers it, into the       *)
(* ConfigMap and the log.                                                  *)

(* r is a request, or the answer to a submitted one that an approver of    *)
(* that request gave.                                                      *)
Answers(r) ==
    /\ r.status # "pending" => Request(r) \in Submitted
    /\ r.status = "expired" => r = [Request(r) EXCEPT !.status = "expired"]
    /\ Decided(r) => Contains(r.approvers, r.by)

(* c is a call that may store r. *)
Authored(r, c) ==
    /\ r.status = "pending" => arg[c].op = "execute"
    /\ Decided(r) => arg[c].op \in {"approve", "deny"} /\ arg[c].user = r.by

LogSafe == \A e \in log : pc[e.call] # "idle" /\ Authored(e.rec, e.call)

DataSafe == \A k \in Keys : data[k] # None =>
               Answers(data[k]) /\ \E e \in log : e.rec = data[k]

DraftSafe == \A c \in Calls : pc[c] \in Holding =>
                Answers(draft[c]) /\ Authored(draft[c], c)

(* A call that is about to decide a request is one of its approvers.       *)
JudgeSafe == \A c \in Calls : pc[c] = "judge" =>
                draft[c] \in Submitted /\ Contains(draft[c].approvers, arg[c].user)

SafeInv == LogSafe /\ DataSafe /\ DraftSafe /\ JudgeSafe /\ ClearedByApproval

(* A pending record in the ConfigMap is a submitted request. *)
LEMMA PendingIsSubmitted ==
    ASSUME TypeInv, SafeInv, NEW k \in Keys, data[k] # None, data[k].status = "pending"
    PROVE  data[k] \in Submitted
  BY DEF TypeInv, DataOK, Filed, SafeInv, DataSafe, Submitted

LEMMA InitSafe == Init => SafeInv
  BY DEF Init, SafeInv, LogSafe, DataSafe, DraftSafe, JudgeSafe, ClearedByApproval, Holding

(* An action of one call that does not write: the draft it ends up with,   *)
(* and the approval it was cleared by, are all there is to check.          *)
LEMMA MoveSafe ==
    ASSUME TypeInv, SafeInv, NEW c \in Calls,
           UNCHANGED <<data, log>>,
           \A d \in Calls \ {c} : pc'[d] = pc[d] /\ draft'[d] = draft[d] /\ arg'[d] = arg[d],
           pc[c] # "idle" => arg'[c] = arg[c],
           pc'[c] # "idle",
           pc'[c] \in Holding => Answers(draft'[c]) /\ Authored(draft[c], c)',
           pc'[c] = "judge" => /\ draft'[c] \in Submitted
                               /\ Contains(draft'[c].approvers, arg'[c].user),
           pc'[c] = "cleared" =>
              \E e \in log : KeyOf(e.rec) = MyKey(c)' /\ e.rec.status = "approved"
    PROVE  SafeInv'
  <1>1. Submitted' = Submitted
    BY DEF Submitted
  <1>2. ASSUME NEW e \in log PROVE e.call \in Calls
    BY <1>2 DEF TypeInv, TypeOK
  <1>3. LogSafe'
    BY <1>2 DEF SafeInv, LogSafe, Authored
  <1>4. DataSafe'
    BY <1>1 DEF SafeInv, DataSafe, Answers
  <1>5. DraftSafe'
    <2> SUFFICES ASSUME NEW d \in Calls, pc'[d] \in Holding
                 PROVE  (Answers(draft[d]) /\ Authored(draft[d], d))'
      BY DEF DraftSafe
    <2>1. Answers(draft'[d]) /\ Authored(draft[d], d)'
      <3>1. CASE d = c
        BY <3>1
      <3>2. CASE d # c
        BY <3>2 DEF SafeInv, DraftSafe, Authored
      <3>3. QED
        BY <3>1, <3>2
    <2>2. QED
      BY <1>1, <2>1 DEF Answers
  <1>6. ClearedByApproval'
    <2> SUFFICES ASSUME NEW d \in Calls, pc'[d] = "cleared"
                 PROVE  \E e \in log : KeyOf(e.rec) = MyKey(d)' /\ e.rec.status = "approved"
      BY DEF ClearedByApproval
    <2>1. CASE d = c
      BY <2>1
    <2>2. CASE d # c
      BY <2>2 DEF SafeInv, ClearedByApproval, MyKey
    <2>3. QED
      BY <2>1, <2>2
  <1>7. JudgeSafe'
    <2> SUFFICES ASSUME NEW d \in Calls, pc'[d] = "judge"
                 PROVE  draft'[d] \in Submitted /\ Contains(draft'[d].approvers, arg'[d].user)
      BY <1>1 DEF JudgeSafe
    <2>1. CASE d = c
      BY <2>1
    <2>2. CASE d # c
      BY <2>2 DEF SafeInv, JudgeSafe
    <2>3. QED
      BY <2>1, <2>2
  <1>8. QED
    BY <1>3, <1>4, <1>5, <1>6, <1>7 DEF SafeInv

(* Actions that neither give a call a record to store nor let one run.     *)
LEMMA QuietSafe ==
    ASSUME TypeInv, SafeInv, NEW c \in Calls,
           \/ Start(c) \/ GetMissing(c) \/ GetError(c) \/ FetchFails(c)
           \/ MakeFails(c) \/ PutFails(c) \/ Crash(c)
    PROVE  SafeInv'
  <1>1. /\ UNCHANGED <<data, log>>
        /\ pc[c] # "idle" => UNCHANGED arg
        /\ \A d \in Calls \ {c} : pc'[d] = pc[d] /\ draft'[d] = draft[d] /\ arg'[d] = arg[d]
    BY DEF TypeInv, TypeOK, Start, GetMissing, GetError, FetchFails, MakeFails, PutFails,
       Crash, Goto, Drop, configMap
  <1>2. pc'[c] \in {"get", "stamp", "rejected", "pending", "failed", "ok", "crashed"}
    BY WhereNext DEF TypeInv, TypeOK, Start, GetMissing, GetError, FetchFails, MakeFails,
       PutFails, Crash, Goto
  <1>3. QED
    BY <1>1, <1>2, MoveSafe DEF Holding

(* Actions that read or create the ConfigMap for a record already at hand. *)
LEMMA CarrySafe ==
    ASSUME TypeInv, SafeInv, NEW c \in Calls, Fetch(c) \/ OpenFails(c) \/ Make(c)
    PROVE  SafeInv'
  <1>1. pc[c] \in Holding /\ UNCHANGED <<data, log, arg, draft>>
    BY DEF Fetch, OpenFails, Make, Holding, configMap
  <1>2. pc'[c] \in {"store", "make"} /\ \A d \in Calls \ {c} : pc'[d] = pc[d]
    BY DEF TypeInv, TypeOK, Fetch, OpenFails, Make, Goto
  <1>3. Answers(draft'[c]) /\ Authored(draft[c], c)'
    BY <1>1 DEF SafeInv, DraftSafe, Authored
  <1>4. QED
    BY <1>1, <1>2, <1>3, MoveSafe

LEMMA CheckSafe ==
    ASSUME TypeInv, SafeInv, NEW c \in Calls, Check(c)
    PROVE  SafeInv'
  <1>1. /\ UNCHANGED <<data, log, arg, draft>>
        /\ pc[c] = "get"
        /\ pc'[c] \in {"cleared", "failed", "stamp"}
        /\ pc'[c] = "cleared" => Stored(c).status = "approved"
        /\ \A d \in Calls \ {c} : pc'[d] = pc[d]
    BY DEF TypeInv, TypeOK, Check, Goto, configMap
  <1>2. \E e \in log : e.rec = Stored(c)
    BY <1>1, RunningFacts DEF Check, SafeInv, DataSafe, Stored
  <1>3. KeyOf(Stored(c)) = MyKey(c) /\ MyKey(c)' = MyKey(c)
    BY <1>1, RunningFacts DEF Check, Filed, MyKey
  <1>4. QED
    BY <1>1, <1>2, <1>3, MoveSafe DEF Holding

LEMMA GetOverdueSafe ==
    ASSUME TypeInv, SafeInv, NEW c \in Calls, GetOverdue(c)
    PROVE  SafeInv'
  <1> DEFINE r == [Stored(c) EXCEPT !.status = "expired"]
  <1>1. Stored(c) \in Submitted /\ Stored(c) \in Requests
    BY RunningFacts, PendingIsSubmitted DEF GetOverdue, Overdue, Stored, Filed
  <1>2. Request(r) = Stored(c) /\ r.status = "expired"
    BY <1>1, ExpiredType
  <1>3. Answers(r)
    BY <1>1, <1>2 DEF Answers, Decided
  <1>4. /\ UNCHANGED <<data, log, arg>> /\ pc[c] = "get" /\ pc'[c] = "fetch"
        /\ draft'[c] = r
        /\ \A d \in Calls \ {c} : pc'[d] = pc[d] /\ draft'[d] = draft[d]
    BY DEF TypeInv, TypeOK, GetOverdue, Goto, configMap
  <1>5. Authored(draft[c], c)'
    BY <1>2, <1>4 DEF Authored, Decided
  <1>6. QED
    BY <1>3, <1>4, <1>5, MoveSafe

LEMMA DecideSafe ==
    ASSUME TypeInv, SafeInv, NEW c \in Calls, Decide(c)
    PROVE  SafeInv'
  <1>1. UNCHANGED <<data, log, arg>> /\ pc[c] = "get"
    BY DEF Decide, configMap
  <1>2. \A d \in Calls \ {c} : pc'[d] = pc[d] /\ draft'[d] = draft[d]
    BY DEF TypeInv, TypeOK, Decide, Goto
  <1>3. CASE ~Decidable(Stored(c), arg[c].user)
    <2>1. pc'[c] = "rejected"
      BY <1>3 DEF TypeInv, TypeOK, Decide, Goto
    <2>2. QED
      BY <1>1, <1>2, <2>1, MoveSafe DEF Holding
  <1>4. CASE Decidable(Stored(c), arg[c].user)
    <2>1. Stored(c) \in Submitted /\ Contains(Stored(c).approvers, arg[c].user)
      BY <1>4, RunningFacts, PendingIsSubmitted DEF Decide, Decidable, Stored, Filed
    <2>2. pc'[c] = "judge" /\ draft'[c] = Stored(c)
      BY <1>4 DEF TypeInv, TypeOK, Decide, Goto
    <2>3. QED
      BY <1>1, <1>2, <2>1, <2>2, MoveSafe DEF Holding
  <1>5. QED
    BY <1>3, <1>4

LEMMA JudgeKeepsSafe ==
    ASSUME TypeInv, SafeInv, NEW c \in Calls, Judge(c)
    PROVE  SafeInv'
  <1> DEFINE q == draft[c]
             r == Judged(draft[c], arg[c])
  <1>1. /\ q \in Submitted /\ q \in Requests /\ arg[c] \in DecideArg
        /\ Contains(q.approvers, arg[c].user)
    BY DEF Judge, TypeInv, JudgeOK, SafeInv, JudgeSafe
  <1>2. arg[c].op \in {"approve", "deny"}
    BY <1>1 DEF DecideArg
  <1>3. /\ Request(r) = q /\ r.status = Verdict(arg[c].op)
        /\ r.by = arg[c].user /\ r.approvers = q.approvers
    BY <1>1, JudgedType DEF TypeInv, TypeOK
  <1>4. /\ UNCHANGED <<data, log, arg>> /\ pc[c] = "judge" /\ pc'[c] = "fetch"
        /\ draft'[c] = r
        /\ \A d \in Calls \ {c} : pc'[d] = pc[d] /\ draft'[d] = draft[d]
    BY DEF TypeInv, TypeOK, Judge, Goto, configMap
  <1> HIDE DEF r
  <1>5. Answers(r)
    BY <1>1, <1>3 DEF Answers, Verdict
  <1>6. Authored(draft[c], c)'
    BY <1>2, <1>3, <1>4 DEF Authored, Verdict
  <1>7. QED
    BY <1>4, <1>5, <1>6, MoveSafe

LEMMA StampSafe ==
    ASSUME TypeInv, SafeInv, NEW c \in Calls, Stamp(c)
    PROVE  SafeInv'
  <1>1. arg[c] \in ExecuteArg
    BY DEF TypeInv, ArgOK, Stamp
  <1>2. NewRequest(arg[c]).status = "pending" /\ arg[c].op = "execute"
    BY <1>1 DEF NewRequest, ExecuteArg
  <1>3. Answers(NewRequest(arg[c]))
    BY <1>2 DEF Answers, Decided
  <1>4. /\ UNCHANGED <<data, log, arg>> /\ pc[c] = "stamp" /\ pc'[c] = "open"
        /\ draft'[c] = NewRequest(arg[c])
        /\ \A d \in Calls \ {c} : pc'[d] = pc[d] /\ draft'[d] = draft[d]
    BY DEF TypeInv, TypeOK, Stamp, Goto, configMap
  <1>5. Authored(draft[c], c)'
    BY <1>2, <1>4 DEF Authored, Decided
  <1>6. QED
    BY <1>3, <1>4, <1>5, MoveSafe

(* What a write does, once its version is known to be the current one.     *)
LEMMA PutFacts ==
    ASSUME TypeInv, NEW c \in Calls, Put(c)
    PROVE  /\ pc[c] = "store" /\ arg[c] \in Arg
           /\ MyKey(c) \in Keys
           /\ draft[c] \in Record /\ Filed(draft[c], MyKey(c))
           /\ data' = [data EXCEPT ![MyKey(c)] = draft[c]]
           /\ version' = version + 1
           /\ wrote' = [wrote EXCEPT ![MyKey(c)] = version + 1]
           /\ seen' = [seen EXCEPT ![c] = version + 1]
           /\ log' = log \union {[call |-> c, rec |-> draft[c]]}
           /\ UNCHANGED arg
           /\ \A d \in Calls \ {c} : pc'[d] = pc[d] /\ draft'[d] = draft[d]
           /\ pc'[c] \in {"stamp", "rejected", "pending", "failed", "ok"}
           /\ pc'[c] = "stamp" => draft[c].status = "expired"
  <1>1. /\ draft[c] \in Record /\ Filed(draft[c], MyKey(c)) /\ KeyOf(draft[c]) = MyKey(c)
        /\ MyKey(c) \in Keys /\ copy[c].data = data /\ pc[c] = "store"
        /\ arg[c] \in Arg
    BY RunningFacts DEF TypeInv, DraftOK, CopyOK, Put, Current, Holding, Filed
  <1>2. PICK ok \in BOOLEAN : pc' = [pc EXCEPT ![c] = AfterWrite(c, ok)]
    BY DEF Put, Goto
  <1>3. AfterWrite(c, ok) = "stamp" => draft[c].status = "expired"
    BY DEF AfterWrite
  <1>4. AfterWrite(c, ok) \in {"stamp", "rejected", "pending", "failed", "ok"}
    BY <1>1, WhereNext
  <1>5. pc'[c] = AfterWrite(c, ok) /\ \A d \in Calls \ {c} : pc'[d] = pc[d]
    BY <1>2 DEF TypeInv, TypeOK
  <1>6. \A d \in Calls \ {c} : draft'[d] = draft[d]
    BY DEF Put, Drop, TypeInv, TypeOK
  <1>7. QED
    BY <1>1, <1>3, <1>4, <1>5, <1>6 DEF Put

LEMMA PutSafe ==
    ASSUME TypeInv, SafeInv, NEW c \in Calls, Put(c)
    PROVE  SafeInv'
  <1> DEFINE k == MyKey(c)
             e0 == [call |-> c, rec |-> draft[c]]
  <1>1. /\ pc[c] = "store" /\ k \in Keys /\ draft[c] \in Record
        /\ data' = [data EXCEPT ![k] = draft[c]]
        /\ log' = log \union {e0}
        /\ UNCHANGED arg
        /\ \A d \in Calls \ {c} : pc'[d] = pc[d] /\ draft'[d] = draft[d]
        /\ pc'[c] \in {"stamp", "rejected", "pending", "failed", "ok"}
    BY PutFacts
  <1>2. Answers(draft[c]) /\ Authored(draft[c], c)
    BY <1>1 DEF SafeInv, DraftSafe, Holding
  <1>3. Submitted \subseteq Submitted'
    BY <1>1 DEF Submitted
  <1>4. ASSUME NEW r, Answers(r) PROVE Answers(r)'
    BY <1>3, <1>4 DEF Answers
  <1>5. LogSafe'
    <2> SUFFICES ASSUME NEW e \in log'
                 PROVE  pc'[e.call] # "idle" /\ Authored(e.rec, e.call)'
      BY DEF LogSafe
    <2>1. CASE e = e0
      BY <1>1, <1>2, <2>1 DEF Authored
    <2>2. CASE e \in log
      <3>1. pc[e.call] # "idle" /\ Authored(e.rec, e.call) /\ e.call \in Calls
        BY <2>2 DEF SafeInv, LogSafe, TypeInv, TypeOK
      <3>2. QED
        BY <1>1, <3>1 DEF Authored
    <2>3. QED
      BY <1>1, <2>1, <2>2
  <1>6. DataSafe'
    <2> SUFFICES ASSUME NEW j \in Keys, data'[j] # None
                 PROVE  Answers(data[j])' /\ \E e \in log' : e.rec = data'[j]
      BY DEF DataSafe
    <2>1. CASE j = k
      <3>1. data'[j] = draft[c]
        BY <1>1, <2>1 DEF TypeInv, TypeOK
      <3>2. e0 \in log' /\ e0.rec = draft[c]
        BY <1>1
      <3>3. Answers(draft[c])' => Answers(data[j])'
        BY <1>2, <1>3, <3>1 DEF Answers
      <3>4. QED
        BY <1>2, <1>3, <3>1, <3>2 DEF Answers
    <2>2. CASE j # k
      <3>1. data'[j] = data[j]
        BY <1>1, <2>2 DEF TypeInv, TypeOK
      <3>2. Answers(data[j]) /\ \E e \in log : e.rec = data[j]
        BY <3>1 DEF SafeInv, DataSafe
      <3>3. QED
        BY <1>1, <1>3, <3>1, <3>2 DEF Answers
    <2>3. QED
      BY <2>1, <2>2
  <1>7. DraftSafe'
    <2> SUFFICES ASSUME NEW d \in Calls, pc'[d] \in Holding
                 PROVE  Answers(draft[d])' /\ Authored(draft[d], d)'
      BY DEF DraftSafe
    <2>1. d # c
      BY <1>1 DEF Holding
    <2>2. pc[d] \in Holding /\ draft'[d] = draft[d] /\ arg'[d] = arg[d]
      BY <1>1, <2>1
    <2>3. Answers(draft[d]) /\ Authored(draft[d], d)
      BY <2>2 DEF SafeInv, DraftSafe
    <2>4. QED
      BY <1>3, <2>2, <2>3 DEF Answers, Authored
  <1>8. ClearedByApproval'
    <2> SUFFICES ASSUME NEW d \in Calls, pc'[d] = "cleared"
                 PROVE  \E e \in log' : KeyOf(e.rec) = MyKey(d)' /\ e.rec.status = "approved"
      BY DEF ClearedByApproval
    <2>1. pc[d] = "cleared" /\ MyKey(d)' = MyKey(d)
      BY <1>1 DEF MyKey
    <2>2. QED
      BY <1>1, <2>1 DEF SafeInv, ClearedByApproval
  <1>9. JudgeSafe'
    BY <1>1, <1>3 DEF SafeInv, JudgeSafe
  <1>10. QED
    BY <1>5, <1>6, <1>7, <1>8, <1>9 DEF SafeInv

LEMMA NextSafe == TypeInv /\ SafeInv /\ [Next]_vars => SafeInv'
  <1> SUFFICES ASSUME TypeInv, SafeInv, [Next]_vars PROVE SafeInv'
    OBVIOUS
  <1>1. CASE UNCHANGED <<data, log, pc, arg, draft>>
    BY <1>1 DEF SafeInv, LogSafe, DataSafe, DraftSafe, JudgeSafe, ClearedByApproval, Answers,
       Authored, Submitted, MyKey
  <1>2. ASSUME NEW c \in Calls, Start(c) \/ Proceed(c) \/ Crash(c)
        PROVE  SafeInv'
    BY <1>2, QuietSafe, CarrySafe, CheckSafe, GetOverdueSafe, DecideSafe, JudgeKeepsSafe,
       StampSafe, PutSafe DEF Proceed
  <1>3. QED
    BY <1>1, <1>2 DEF Next, Tick, vars, configMap

LEMMA SafeInvariance == Spec => []SafeInv
  BY InitSafe, NextSafe, TypeInvariance, PTL DEF Spec

(* Every decision in the ConfigMap was made, by the call that stored it,   *)
(* by a user on the approver list of the request it is attached to.        *)
THEOREM Authorised == Spec => []DecisionsAuthorised
  <1>1. ASSUME SafeInv, NEW k \in Keys, data[k] # None, Decided(data[k])
        PROVE  /\ Contains(data[k].approvers, data[k].by)
               /\ \E e \in log : /\ e.rec = data[k]
                                 /\ arg[e.call].op \in {"approve", "deny"}
                                 /\ arg[e.call].user = data[k].by
    <2>1. Answers(data[k])
      BY <1>1 DEF SafeInv, DataSafe
    <2>2. PICK e \in log : e.rec = data[k]
      BY <1>1 DEF SafeInv, DataSafe
    <2>3. Authored(e.rec, e.call)
      BY <1>1 DEF SafeInv, LogSafe
    <2>4. QED
      BY <1>1, <2>1, <2>2, <2>3 DEF Answers, Authored
  <1>2. SafeInv => DecisionsAuthorised
    BY <1>1 DEF DecisionsAuthorised
  <1>3. QED
    BY <1>2, SafeInvariance, PTL

(* Whatever the ConfigMap holds under a key answers a request that an      *)
(* Execute call submitted under that key.                                  *)
THEOREM Faithful == Spec => []DecisionsFaithful
  <1>1. ASSUME TypeInv, SafeInv, NEW k \in Keys, data[k] # None
        PROVE  KeyOf(data[k]) = k /\
               \E e \in log : e.rec = Request(data[k]) /\ arg[e.call].op = "execute"
    <2>1. KeyOf(data[k]) = k
      BY <1>1 DEF TypeInv, DataOK, Filed
    <2>2. Request(data[k]) \in Submitted
      <3>1. CASE data[k].status = "pending"
        <4>1. data[k] \in Submitted /\ data[k] \in Requests
          BY <1>1, <3>1, PendingIsSubmitted DEF Submitted
        <4>2. Request(data[k]) = data[k]
          BY <4>1 DEF Requests, Request
        <4>3. QED
          BY <4>1, <4>2
      <3>2. CASE data[k].status # "pending"
        BY <1>1, <3>2 DEF SafeInv, DataSafe, Answers
      <3>3. QED
        BY <3>1, <3>2
    <2>3. PICK e \in log : e.rec = Request(data[k]) /\ e.rec \in Requests
      BY <2>2 DEF Submitted
    <2>4. arg[e.call].op = "execute"
      BY <1>1, <2>3 DEF SafeInv, LogSafe, Authored, Requests
    <2>5. QED
      BY <2>1, <2>3, <2>4
  <1>2. TypeInv /\ SafeInv => DecisionsFaithful
    BY <1>1 DEF DecisionsFaithful
  <1>3. QED
    BY <1>2, TypeInvariance, SafeInvariance, PTL

(* An Execute call runs its script only after an approval under its key.   *)
THEOREM Cleared == Spec => []ClearedByApproval
  <1>1. SafeInv => ClearedByApproval
    BY DEF SafeInv
  <1>2. QED
    BY <1>1, SafeInvariance, PTL

-----------------------------------------------------------------------------
(* Finality.  A call that means to write, and whose key has not been       *)
(* written since it looked, looked at something undecided.                 *)

VersionOK == /\ \A k \in Keys : /\ wrote[k] <= version
                                /\ wrote[k] = 0 => data[k] = None
             /\ \A c \in Calls : /\ seen[c] <= version
                                 /\ pc[c] \in {"idle", "get"} => seen[c] = 0

Undisturbed == \A c \in Calls :
    /\ pc[c] \in Holding \union {"stamp", "judge"}
    /\ wrote[MyKey(c)] <= seen[c]
    => Stored(c) = None \/ ~Decided(Stored(c))

FinalInv == VersionOK /\ Undisturbed

LEMMA InitFinal == Init => FinalInv
  BY DEF Init, FinalInv, VersionOK, Undisturbed, Holding

(* An action of one call that writes nothing and either goes on, or judges *)
(* the current version, or judges nothing because its lookup failed.       *)
LEMMA MoveFinal ==
    ASSUME TypeInv, FinalInv, NEW c \in Calls,
           UNCHANGED <<data, wrote>>, version' \in {version, version + 1},
           \A d \in Calls \ {c} : pc'[d] = pc[d] /\ seen'[d] = seen[d] /\ arg'[d] = arg[d],
           pc[c] # "idle" => arg'[c] = arg[c],
           seen'[c] \in {seen[c], version},
           pc'[c] = "get" => pc[c] = "idle" /\ seen'[c] = seen[c],
           pc'[c] # "idle",
           pc'[c] \in Holding \union {"stamp", "judge"} =>
              \/ pc[c] \in Holding \union {"stamp", "judge"} /\ seen'[c] = seen[c]
              \/ pc[c] = "get" /\ seen'[c] = 0
              \/ pc[c] = "get" /\ (Stored(c) = None \/ ~Decided(Stored(c)))
    PROVE  FinalInv'
  <1>1. VersionOK'
    <2>1. version \in Nat /\ wrote \in [Keys -> Nat] /\ seen \in [Calls -> Nat] /\ VersionOK
      BY DEF FinalInv, TypeInv, TypeOK
    <2>5. version' \in Nat /\ version <= version'
      BY <2>1
    <2>6. ASSUME NEW k \in Keys
          PROVE  wrote'[k] <= version' /\ (wrote'[k] = 0 => data'[k] = None)
      <3>1. wrote[k] \in Nat /\ wrote[k] <= version /\ (wrote[k] = 0 => data[k] = None)
        BY <2>1 DEF VersionOK
      <3>2. QED
        BY <2>1, <2>5, <3>1
    <2>3. ASSUME NEW d \in Calls
          PROVE  seen'[d] <= version' /\ (pc'[d] \in {"idle", "get"} => seen'[d] = 0)
      <3>0. seen[d] \in Nat /\ seen[d] <= version /\ (pc[d] \in {"idle", "get"} => seen[d] = 0)
        BY <2>1 DEF VersionOK
      <3>1. CASE d = c
        BY <2>1, <2>5, <3>0, <3>1
      <3>2. CASE d # c
        BY <2>1, <2>5, <3>0, <3>2
      <3>3. QED
        BY <3>1, <3>2
    <2>4. QED
      BY <2>6, <2>3 DEF VersionOK
  <1>2. Undisturbed'
    <2> SUFFICES ASSUME NEW d \in Calls, pc'[d] \in Holding \union {"stamp", "judge"},
                        wrote[MyKey(d)'] <= seen'[d]
                 PROVE  data[MyKey(d)'] = None \/ ~Decided(data[MyKey(d)'])
      BY DEF Undisturbed, Stored
    <2>1. CASE d # c
      <3>1. MyKey(d)' = MyKey(d) /\ pc[d] = pc'[d] /\ seen[d] = seen'[d]
        BY <2>1 DEF MyKey
      <3>2. QED
        BY <3>1 DEF FinalInv, Undisturbed, Stored
    <2>2. CASE d = c
      <3>1. pc[d] # "idle" /\ MyKey(d)' = MyKey(d)
        BY <2>2 DEF MyKey, Holding
      <3>2. CASE pc[d] \in Holding \union {"stamp", "judge"} /\ seen'[d] = seen[d]
        BY <2>2, <3>1, <3>2 DEF FinalInv, Undisturbed, Stored
      <3>3. CASE seen'[d] = 0
        <4>1. MyKey(d) \in Keys
          BY <3>1, RunningFacts
        <4>2. wrote[MyKey(d)] = 0
          BY <2>2, <3>1, <3>3, <4>1 DEF TypeInv, TypeOK
        <4>3. data[MyKey(d)] = None
          BY <4>1, <4>2 DEF FinalInv, VersionOK
        <4>4. QED
          BY <3>1, <4>3
      <3>4. CASE Stored(d) = None \/ ~Decided(Stored(d))
        BY <2>2, <3>1, <3>4 DEF Stored
      <3>5. QED
        BY <2>2, <3>2, <3>3, <3>4
    <2>3. QED
      BY <2>1, <2>2
  <1>3. QED
    BY <1>1, <1>2 DEF FinalInv

LEMMA CallFinal ==
    ASSUME TypeInv, FinalInv, NEW c \in Calls,
           \/ Start(c) \/ GetMissing(c) \/ GetError(c) \/ GetOverdue(c) \/ Check(c)
           \/ Decide(c) \/ Judge(c) \/ Stamp(c) \/ Fetch(c) \/ OpenFails(c) \/ FetchFails(c)
           \/ Make(c) \/ MakeFails(c) \/ PutFails(c) \/ Crash(c)
    PROVE  FinalInv'
  <1>1. /\ UNCHANGED <<data, wrote>>
        /\ pc[c] # "idle" => UNCHANGED arg
        /\ \A d \in Calls \ {c} : pc'[d] = pc[d] /\ seen'[d] = seen[d] /\ arg'[d] = arg[d]
    <2>1. UNCHANGED <<data, wrote>> /\ (pc[c] # "idle" => UNCHANGED arg)
      BY DEF Start, GetMissing, GetError, GetOverdue, Check, Decide, Judge, Stamp,
         Fetch, OpenFails, FetchFails, Make, MakeFails, PutFails, Crash, configMap
    <2>2. \A d \in Calls \ {c} : pc'[d] = pc[d]
      BY DEF TypeInv, TypeOK, Start, GetMissing, GetError, GetOverdue, Check, Decide, Judge, Stamp,
         Fetch, OpenFails, FetchFails, Make, MakeFails, PutFails, Crash, Goto
    <2>3. \A d \in Calls \ {c} : seen'[d] = seen[d]
      BY DEF TypeInv, TypeOK, Start, GetMissing, GetError, GetOverdue, Check, Decide, Judge, Stamp,
         Fetch, OpenFails, FetchFails, Make, MakeFails, PutFails, Crash
    <2>4. \A d \in Calls \ {c} : arg'[d] = arg[d]
      BY DEF TypeInv, TypeOK, Start, GetMissing, GetError, GetOverdue, Check, Decide, Judge, Stamp,
         Fetch, OpenFails, FetchFails, Make, MakeFails, PutFails, Crash
    <2>5. QED
      BY <2>1, <2>2, <2>3, <2>4
  <1>2. version' \in {version, version + 1}
    <2>1. CASE Make(c) \/ MakeFails(c)
      BY <2>1 DEF Make, MakeFails
    <2>2. CASE ~(Make(c) \/ MakeFails(c))
      BY <2>2 DEF Start, GetMissing, GetError, GetOverdue, Check, Decide, Judge, Stamp, Fetch,
         OpenFails, FetchFails, PutFails, Crash, configMap
    <2>3. QED
      BY <2>1, <2>2
  <1>3. CASE Start(c)
    <2>1. pc[c] = "idle" /\ pc'[c] = "get" /\ seen'[c] = seen[c]
      BY <1>3 DEF TypeInv, TypeOK, Start, Goto
    <2>2. QED
      BY <1>1, <1>2, <2>1, MoveFinal DEF Holding
  <1>4. CASE GetMissing(c) \/ GetOverdue(c) \/ Check(c) \/ Decide(c)
    <2>1. pc[c] = "get" /\ seen'[c] = version
      BY <1>4 DEF TypeInv, TypeOK, GetMissing, GetOverdue, Check, Decide
    <2>2. pc'[c] \in {"stamp", "rejected", "fetch", "judge", "cleared", "failed"}
      BY <1>4, <2>1, WhereNext
      DEF TypeInv, TypeOK, GetMissing, GetOverdue, Check, Decide, Goto
    <2>3. pc'[c] \in {"stamp", "fetch", "judge"} => Stored(c) = None \/ ~Decided(Stored(c))
      BY <1>4 DEF TypeInv, TypeOK, GetMissing, GetOverdue, Check, Decide, Goto, Decided,
         Decidable, Overdue
    <2>4. QED
      BY <1>1, <1>2, <2>1, <2>2, <2>3, MoveFinal DEF Holding
  <1>5. CASE GetError(c)
    <2>1. pc[c] = "get" /\ seen'[c] = seen[c] /\ pc'[c] \in {"stamp", "rejected"}
      BY <1>5, WhereNext DEF TypeInv, TypeOK, GetError, Goto
    <2>2. seen'[c] = 0
      BY <2>1 DEF FinalInv, VersionOK
    <2>3. QED
      BY <1>1, <1>2, <2>1, <2>2, MoveFinal DEF Holding
  <1>6. CASE Crash(c)
    <2>1. pc[c] # "idle" /\ pc'[c] = "crashed" /\ seen'[c] = seen[c]
      BY <1>6 DEF TypeInv, TypeOK, Crash, Goto, Running
    <2>2. QED
      BY <1>1, <1>2, <2>1, MoveFinal DEF Holding
  <1>7. CASE Stamp(c)
    <2>1. pc[c] = "stamp" /\ pc'[c] = "open" /\ seen'[c] = seen[c]
      BY <1>7 DEF TypeInv, TypeOK, Stamp, Goto
    <2>2. QED
      BY <1>1, <1>2, <2>1, MoveFinal DEF Holding
  <1>8. CASE Fetch(c) \/ OpenFails(c) \/ FetchFails(c) \/ Make(c) \/ MakeFails(c) \/ PutFails(c)
    <2>1. pc[c] \in Holding /\ seen'[c] = seen[c]
      BY <1>8 DEF Fetch, OpenFails, FetchFails, Make, MakeFails, PutFails, Holding
    <2>2. pc'[c] \in {"store", "make", "stamp", "rejected", "pending", "failed", "ok"}
      BY <1>8, <2>1, WhereNext
      DEF TypeInv, TypeOK, Fetch, OpenFails, FetchFails, Make, MakeFails, PutFails, Goto,
          Holding
    <2>3. QED
      BY <1>1, <1>2, <2>1, <2>2, MoveFinal DEF Holding
  <1>9. CASE Judge(c)
    <2>1. pc[c] = "judge" /\ pc'[c] = "fetch" /\ seen'[c] = seen[c]
      BY <1>9 DEF TypeInv, TypeOK, Judge, Goto
    <2>2. QED
      BY <1>1, <1>2, <2>1, MoveFinal DEF Holding
  <1>10. QED
    BY <1>3, <1>4, <1>5, <1>6, <1>7, <1>8, <1>9

LEMMA PutFinal ==
    ASSUME TypeInv, FinalInv, NEW c \in Calls, Put(c)
    PROVE  FinalInv'
  <1> DEFINE k == MyKey(c)
  <1>1. /\ k \in Keys /\ draft[c] \in Record /\ pc[c] = "store"
        /\ data' = [data EXCEPT ![k] = draft[c]]
        /\ version' = version + 1
        /\ wrote' = [wrote EXCEPT ![k] = version + 1]
        /\ seen' = [seen EXCEPT ![c] = version + 1]
        /\ UNCHANGED arg
        /\ \A d \in Calls \ {c} : pc'[d] = pc[d]
        /\ pc'[c] \in {"stamp", "rejected", "pending", "failed", "ok"}
        /\ pc'[c] = "stamp" => draft[c].status = "expired"
    BY PutFacts
  <1>2. /\ version \in Nat /\ wrote \in [Keys -> Nat] /\ seen \in [Calls -> Nat]
        /\ data \in [Keys -> Record \union {None}] /\ VersionOK
    BY DEF FinalInv, TypeInv, TypeOK
  <1>3. ASSUME NEW j \in Keys
        PROVE  wrote'[j] <= version' /\ (wrote'[j] = 0 => data'[j] = None)
    <2>1. wrote[j] <= version /\ (wrote[j] = 0 => data[j] = None)
      BY <1>2 DEF VersionOK
    <2>2. QED
      BY <1>1, <1>2, <2>1
  <1>4. ASSUME NEW d \in Calls
        PROVE  seen'[d] <= version' /\ (pc'[d] \in {"idle", "get"} => seen'[d] = 0)
    <2>1. seen[d] <= version /\ (pc[d] \in {"idle", "get"} => seen[d] = 0)
      BY <1>2 DEF VersionOK
    <2>2. QED
      BY <1>1, <1>2, <2>1
  <1>5. ASSUME NEW d \in Calls, pc'[d] \in Holding \union {"stamp", "judge"},
               wrote'[MyKey(d)] <= seen'[d]
        PROVE  data'[MyKey(d)] = None \/ ~Decided(data'[MyKey(d)])
    <2>1. CASE d = c
      <3>1. draft[c].status = "expired" /\ data'[k] = draft[c]
        BY <1>1, <1>2, <1>5, <2>1 DEF Holding
      <3>2. QED
        BY <2>1, <3>1 DEF Decided
    <2>2. CASE d # c
      <3>1. seen'[d] = seen[d] /\ seen[d] <= version /\ seen[d] \in Nat
        BY <1>1, <1>2, <2>2 DEF VersionOK
      <3>2. pc[d] \in Holding \union {"stamp", "judge"} /\ MyKey(d) \in Keys
        BY <1>1, <1>5, <2>2, RunningFacts DEF Holding
      <3>3. MyKey(d) # k
        BY <1>1, <1>2, <1>5, <3>1
      <3>4. wrote'[MyKey(d)] = wrote[MyKey(d)] /\ data'[MyKey(d)] = data[MyKey(d)]
        BY <1>1, <1>2, <3>2, <3>3
      <3>5. QED
        BY <1>5, <3>1, <3>2, <3>4 DEF FinalInv, Undisturbed, Stored
    <2>3. QED
      BY <2>1, <2>2
  <1>6. VersionOK'
    BY <1>3, <1>4 DEF VersionOK
  <1>7. ASSUME NEW d \in Calls PROVE MyKey(d)' = MyKey(d)
    BY <1>1 DEF MyKey
  <1>8. Undisturbed'
    BY <1>5, <1>7 DEF Undisturbed, Stored
  <1>9. QED
    BY <1>6, <1>8 DEF FinalInv

LEMMA NextFinal == TypeInv /\ FinalInv /\ [Next]_vars => FinalInv'
  <1> SUFFICES ASSUME TypeInv, FinalInv, [Next]_vars PROVE FinalInv'
    OBVIOUS
  <1>1. CASE UNCHANGED <<data, wrote, version, seen, pc, arg>>
    BY <1>1 DEF FinalInv, VersionOK, Undisturbed, Stored, MyKey
  <1>2. ASSUME NEW c \in Calls, Start(c) \/ Proceed(c) \/ Crash(c)
        PROVE  FinalInv'
    BY <1>2, CallFinal, PutFinal DEF Proceed
  <1>3. QED
    BY <1>1, <1>2 DEF Next, Tick, vars, configMap

LEMMA FinalInvariance == Spec => []FinalInv
  BY InitFinal, NextFinal, TypeInvariance, PTL DEF Spec

(* Only Put changes the ConfigMap's data or the log. *)
LEMMA OnlyPutWrites ==
    ASSUME [Next]_vars
    PROVE  UNCHANGED <<data, log>> \/ \E c \in Calls : Put(c)
  <1>1. ASSUME NEW c \in Calls, Start(c) \/ Proceed(c) \/ Crash(c), ~Put(c)
        PROVE  UNCHANGED <<data, log>>
    BY <1>1 DEF Proceed, Start, GetMissing, GetError, GetOverdue, Check, Decide, Judge, Stamp, Fetch,
       OpenFails, FetchFails, Make, MakeFails, PutFails, Crash, configMap
  <1>2. QED
    BY <1>1 DEF Next, Tick, vars, configMap

(* A stored decision is replaced only by a call whose lookup came before   *)
(* the decision was stored, or failed.                                     *)
THEOREM Finality == Spec => FinalUnlessOverlapped
  <1>1. ASSUME TypeInv, FinalInv, [Next]_vars, NEW k \in Keys,
               data[k] # None, Decided(data[k]), data'[k] # data[k]
        PROVE  \E c \in Calls : pc[c] = "store" /\ pc'[c] # "store" /\ MyKey(c) = k
                                /\ seen[c] < wrote[k]
    <2>1. PICK c \in Calls : Put(c)
      BY <1>1, OnlyPutWrites
    <2>2. /\ pc[c] = "store" /\ pc'[c] # "store" /\ MyKey(c) \in Keys
          /\ data' = [data EXCEPT ![MyKey(c)] = draft[c]]
      BY <1>1, <2>1, PutFacts
    <2>3. MyKey(c) = k
      BY <1>1, <2>2 DEF TypeInv, TypeOK
    <2>4. ~(wrote[k] <= seen[c])
      BY <1>1, <2>2, <2>3 DEF FinalInv, Undisturbed, Stored, Holding
    <2>5. seen[c] < wrote[k]
      BY <1>1, <2>4 DEF TypeInv, TypeOK
    <2>6. QED
      BY <2>2, <2>3, <2>5
  <1>2. TypeInv /\ FinalInv /\ [Next]_vars =>
            [\A k \in Keys :
               data[k] # None /\ Decided(data[k]) /\ data'[k] # data[k] =>
                  \E c \in Calls : /\ pc[c] = "store" /\ pc'[c] # "store"
                                   /\ MyKey(c) = k
                                   /\ seen[c] < wrote[k]]_vars
    BY <1>1
  <1>3. QED
    BY <1>2, TypeInvariance, FinalInvariance, PTL DEF Spec, FinalUnlessOverlapped

-----------------------------------------------------------------------------
(* Answers and effects.  Until a call is judged it has stored nothing, and *)
(* on the way to its one write at most an expiry; what it is about to      *)
(* store, and what it stored, is its own.                                  *)

(* The list of approvers that a submitted request carries. *)
Listed(a) == IF a.approvers = {} THEN DefaultApprovers ELSE a.approvers

(* r is what c was asked to store, or an expiry. *)
Written(r, c) ==
    /\ KeyOf(r) = MyKey(c)
    /\ r.status = "pending" => /\ arg[c].op = "execute"
                               /\ r.exec = arg[c].exec /\ r.step = arg[c].step
                               /\ r.script = arg[c].script
                               /\ r.approvers = Listed(arg[c])
    /\ Decided(r) => /\ arg[c].op \in {"approve", "deny"}
                     /\ r.status = Verdict(arg[c].op) /\ r.by = arg[c].user

Untouched == {"idle", "get", "cleared"}
Underway == Holding \union {"stamp", "judge"}
Mine(c) == {e \in log : e.call = c}

LogMine == \A e \in log : pc[e.call] # "idle" /\ Written(e.rec, e.call) /\ Answers(e.rec)

DraftMine == \A c \in Calls : pc[c] \in Holding => Written(draft[c], c)

(* What c has stored, by where it stands. *)
EffectsAt(c) ==
    /\ pc[c] \in Untouched => Mine(c) = {}
    /\ pc[c] \in Underway => \A e \in Mine(c) : e.rec.status = "expired"
    /\ pc[c] = "pending" => \E e \in Mine(c) : e.rec.status = "pending"
    /\ pc[c] = "ok" => \E e \in Mine(c) : Decided(e.rec)
    /\ \A e, f \in Mine(c) : e.rec.status # "expired" /\ f.rec.status # "expired" => e = f

AccountInv == LogMine /\ DraftMine /\ \A c \in Calls : EffectsAt(c)

(* An action of one call that stores nothing. *)
LEMMA MoveAccount ==
    ASSUME TypeInv, AccountInv, NEW c \in Calls, UNCHANGED <<data, log>>,
           \A d \in Calls \ {c} : pc'[d] = pc[d] /\ draft'[d] = draft[d] /\ arg'[d] = arg[d],
           pc[c] # "idle" => arg'[c] = arg[c],
           pc'[c] \in Untouched => pc[c] \in Untouched,
           pc'[c] \in Underway => pc[c] \in Untouched \union Underway,
           pc'[c] \notin {"idle", "pending", "ok"},
           pc'[c] \in Holding => Written(draft[c], c)'
    PROVE  AccountInv'
  <1>1. ASSUME NEW d \in Calls, d # c, NEW r PROVE Written(r, d)' <=> Written(r, d)
    BY <1>1 DEF Written, MyKey
  <1>2. pc[c] # "idle" => \A r : Written(r, c)' <=> Written(r, c)
    BY DEF Written, MyKey
  <1>3. Submitted' = Submitted /\ \A d : Mine(d)' = Mine(d)
    BY DEF Submitted, Mine
  <1>4. LogMine'
    <2> SUFFICES ASSUME NEW e \in log
                 PROVE  pc'[e.call] # "idle" /\ Written(e.rec, e.call)' /\ Answers(e.rec)'
      BY DEF LogMine
    <2>1. e.call \in Calls /\ pc[e.call] # "idle" /\ Written(e.rec, e.call) /\ Answers(e.rec)
      BY DEF TypeInv, TypeOK, AccountInv, LogMine
    <2>2. Answers(e.rec)'
      BY <1>3, <2>1 DEF Answers
    <2>3. QED
      BY <1>1, <1>2, <2>1, <2>2
  <1>5. DraftMine'
    <2> SUFFICES ASSUME NEW d \in Calls, pc'[d] \in Holding PROVE Written(draft[d], d)'
      BY DEF DraftMine
    <2>1. CASE d = c
      BY <2>1
    <2>2. CASE d # c
      <3>1. Written(draft[d], d)
        BY <2>2 DEF AccountInv, DraftMine
      <3>2. QED
        BY <2>2, <3>1 DEF Written, MyKey
    <2>3. QED
      BY <2>1, <2>2
  <1>6. ASSUME NEW d \in Calls PROVE EffectsAt(d)'
    <2>1. EffectsAt(d) /\ Mine(d)' = Mine(d)
      BY <1>3 DEF AccountInv
    <2>2. CASE d # c
      BY <2>1, <2>2 DEF EffectsAt
    <2>3. CASE d = c
      BY <2>1, <2>3 DEF EffectsAt
    <2>4. QED
      BY <2>2, <2>3
  <1>7. QED
    BY <1>4, <1>5, <1>6 DEF AccountInv

(* Actions that give a call no record and lead it towards its end, or to   *)
(* the stage before its request is made.                                   *)
LEMMA QuietAccount ==
    ASSUME TypeInv, AccountInv, NEW c \in Calls,
           \/ Start(c) \/ GetMissing(c) \/ GetError(c) \/ Check(c) \/ FetchFails(c)
           \/ MakeFails(c) \/ PutFails(c) \/ Crash(c)
    PROVE  AccountInv'
  <1>1. /\ UNCHANGED <<data, log>>
        /\ pc[c] # "idle" => UNCHANGED arg
        /\ \A d \in Calls \ {c} : pc'[d] = pc[d] /\ draft'[d] = draft[d] /\ arg'[d] = arg[d]
    BY DEF TypeInv, TypeOK, Start, GetMissing, GetError, Check, FetchFails, MakeFails,
       PutFails, Crash, Goto, Drop, configMap
  <1>2. AfterWrite(c, FALSE) \in {"stamp", "rejected", "failed"}
    BY DEF AfterWrite, Undecided
  <1>3. \/ pc'[c] = "get" /\ pc[c] = "idle"
        \/ pc'[c] \in {"stamp", "cleared"} /\ pc[c] = "get"
        \/ pc'[c] = "stamp" /\ pc[c] \in Holding
        \/ pc'[c] \in {"rejected", "failed", "crashed"}
    BY <1>2 DEF TypeInv, TypeOK, Start, GetMissing, GetError, Check, FetchFails, MakeFails,
       PutFails, Crash, Goto, Undecided, Holding
  <1>4. QED
    BY <1>1, <1>3, MoveAccount DEF Holding, Untouched, Underway

(* Actions that read or create the ConfigMap for a record already at hand. *)
LEMMA CarryAccount ==
    ASSUME TypeInv, AccountInv, NEW c \in Calls, Fetch(c) \/ OpenFails(c) \/ Make(c)
    PROVE  AccountInv'
  <1>1. pc[c] \in Holding /\ UNCHANGED <<data, log, arg, draft>>
    BY DEF Fetch, OpenFails, Make, Holding, configMap
  <1>2. pc'[c] \in {"store", "make"} /\ \A d \in Calls \ {c} : pc'[d] = pc[d]
    BY DEF TypeInv, TypeOK, Fetch, OpenFails, Make, Goto
  <1>3. Written(draft[c], c)'
    BY <1>1 DEF AccountInv, DraftMine, Written, MyKey
  <1>4. QED
    BY <1>1, <1>2, <1>3, MoveAccount DEF Holding, Untouched, Underway

(* Actions that give a call the record it is about to store. *)
LEMMA DraftAccount ==
    ASSUME TypeInv, AccountInv, NEW c \in Calls,
           GetOverdue(c) \/ Decide(c) \/ Judge(c) \/ Stamp(c)
    PROVE  AccountInv'
  <1>1. UNCHANGED <<data, log, arg>> /\ pc[c] \in {"get", "judge", "stamp"}
    BY DEF GetOverdue, Decide, Judge, Stamp, configMap
  <1>2. \A d \in Calls \ {c} : pc'[d] = pc[d] /\ draft'[d] = draft[d]
    BY DEF TypeInv, TypeOK, GetOverdue, Decide, Judge, Stamp, Goto
  <1>3. \/ pc'[c] \in {"rejected", "judge"} /\ pc[c] = "get"
        \/ pc'[c] = "fetch" /\ pc[c] \in {"get", "judge"}
        \/ pc'[c] = "open" /\ pc[c] = "stamp"
    BY DEF TypeInv, TypeOK, GetOverdue, Decide, Judge, Stamp, Goto
  <1>4. pc'[c] \in {"fetch", "open"} => Written(draft'[c], c)
    <2>1. CASE GetOverdue(c)
      <3>1. Stored(c) \in Requests /\ KeyOf(Stored(c)) = MyKey(c)
        BY <2>1, RunningFacts DEF GetOverdue, Overdue, Filed
      <3>2. draft'[c] = [Stored(c) EXCEPT !.status = "expired"]
        BY <2>1 DEF TypeInv, TypeOK, GetOverdue
      <3>3. QED
        BY <3>1, <3>2, ExpiredType DEF Written, Decided
    <2>2. CASE Judge(c)
      <3>1. draft'[c] = Judged(draft[c], arg[c])
        BY <2>2 DEF TypeInv, TypeOK, Judge
      <3>2. arg[c] \in DecideArg /\ draft[c] \in Requests /\ KeyOf(draft[c]) = MyKey(c)
        BY <2>2 DEF Judge, TypeInv, JudgeOK
      <3>3. arg[c].op \in {"approve", "deny"}
        BY <3>2 DEF DecideArg
      <3>4. QED
        BY <3>1, <3>2, <3>3, JudgedType DEF TypeInv, TypeOK, Written, Verdict
    <2>3. CASE Stamp(c)
      <3>1. arg[c] \in ExecuteArg /\ draft'[c] = NewRequest(arg[c])
        BY <2>3 DEF TypeInv, TypeOK, ArgOK, Stamp
      <3>2. KeyOf(NewRequest(arg[c])) = MyKey(c)
        BY <3>1 DEF NewRequest, KeyOf, MyKey
      <3>3. QED
        BY <3>1, <3>2 DEF NewRequest, Written, Decided, ExecuteArg, Listed
    <2>4. CASE Decide(c)
      BY <2>4 DEF TypeInv, TypeOK, Decide, Goto
    <2>5. QED
      BY <2>1, <2>2, <2>3, <2>4
  <1>5. pc'[c] \in {"fetch", "open"} => Written(draft[c], c)'
    BY <1>1, <1>4 DEF Written, MyKey
  <1>6. QED
    BY <1>1, <1>2, <1>3, <1>5, MoveAccount DEF Holding, Untouched, Underway

LEMMA PutAccount ==
    ASSUME TypeInv, SafeInv, AccountInv, NEW c \in Calls, Put(c)
    PROVE  AccountInv'
  <1> DEFINE e0 == [call |-> c, rec |-> draft[c]]
  <1>1. /\ pc[c] = "store" /\ draft[c] \in Record
        /\ log' = log \union {e0} /\ UNCHANGED arg
        /\ \A d \in Calls \ {c} : pc'[d] = pc[d] /\ draft'[d] = draft[d]
    BY PutFacts
  <1>2. \E ok \in BOOLEAN : pc'[c] = AfterWrite(c, ok)
    BY DEF TypeInv, TypeOK, Put, Goto
  <1>3. /\ pc'[c] \in {"stamp", "rejected", "pending", "failed", "ok"}
        /\ pc'[c] = "stamp" => draft[c].status = "expired"
        /\ pc'[c] = "pending" => draft[c].status = "pending"
        /\ pc'[c] = "ok" => Decided(draft[c])
    BY <1>1, <1>2 DEF AfterWrite, Undecided, Record, Statuses, Decided
  <1>4. Written(draft[c], c) /\ Answers(draft[c])
    BY <1>1 DEF AccountInv, DraftMine, SafeInv, DraftSafe, Holding
  <1>5. Submitted \subseteq Submitted'
    BY <1>1 DEF Submitted
  <1>6. \A r, d : Written(r, d)' <=> Written(r, d)
    BY <1>1 DEF Written, MyKey
  <1>7. ASSUME NEW r, Answers(r) PROVE Answers(r)'
    BY <1>5, <1>7 DEF Answers
  <1>8. LogMine'
    <2> SUFFICES ASSUME NEW e \in log'
                 PROVE  pc'[e.call] # "idle" /\ Written(e.rec, e.call)' /\ Answers(e.rec)'
      BY DEF LogMine
    <2>1. CASE e = e0
      <3>1. e.call = c /\ e.rec = draft[c]
        BY <2>1
      <3>2. Answers(draft[c])' => Answers(e.rec)'
        BY <1>4, <1>5, <3>1 DEF Answers
      <3>3. QED
        BY <1>3, <1>4, <1>5, <1>6, <3>1, <3>2 DEF Answers
    <2>2. CASE e \in log
      <3>1. pc[e.call] # "idle" /\ Written(e.rec, e.call) /\ Answers(e.rec) /\ e.call \in Calls
        BY <2>2 DEF AccountInv, LogMine, TypeInv, TypeOK
      <3>2. QED
        BY <1>1, <1>3, <1>6, <1>7, <3>1
    <2>3. QED
      BY <1>1, <2>1, <2>2
  <1>9. DraftMine'
    <2> SUFFICES ASSUME NEW d \in Calls, pc'[d] \in Holding PROVE Written(draft[d], d)'
      BY DEF DraftMine
    <2>1. d # c /\ pc[d] \in Holding /\ draft'[d] = draft[d]
      BY <1>1, <1>3 DEF Holding
    <2>2. Written(draft[d], d)
      BY <2>1 DEF AccountInv, DraftMine
    <2>3. QED
      BY <1>1, <2>1, <2>2 DEF Written, MyKey
  <1>10. ASSUME NEW d \in Calls PROVE EffectsAt(d)'
    <2>1. EffectsAt(d)
      BY DEF AccountInv
    <2>2. CASE d # c
      <3>1. Mine(d)' = Mine(d)
        BY <1>1, <2>2 DEF Mine
      <3>2. QED
        BY <1>1, <2>1, <2>2, <3>1 DEF EffectsAt
    <2>3. CASE d = c
      <3>1. Mine(c)' = Mine(c) \union {e0} /\ e0.rec = draft[c]
        BY <1>1 DEF Mine
      <3>2. \A e \in Mine(c) : e.rec.status = "expired"
        BY <1>1, <2>1, <2>3 DEF EffectsAt, Underway, Holding
      <3>3. QED
        BY <1>3, <2>3, <3>1, <3>2 DEF EffectsAt, Untouched, Underway, Holding
    <2>4. QED
      BY <2>2, <2>3
  <1>11. QED
    BY <1>8, <1>9, <1>10 DEF AccountInv

LEMMA NextAccount == TypeInv /\ SafeInv /\ AccountInv /\ [Next]_vars => AccountInv'
  <1> SUFFICES ASSUME TypeInv, SafeInv, AccountInv, [Next]_vars PROVE AccountInv'
    OBVIOUS
  <1>1. CASE UNCHANGED <<data, log, pc, arg, draft>>
    BY <1>1 DEF AccountInv, LogMine, DraftMine, EffectsAt, Mine, Written, Answers,
       Submitted, MyKey
  <1>2. ASSUME NEW c \in Calls, Start(c) \/ Proceed(c) \/ Crash(c)
        PROVE  AccountInv'
    BY <1>2, QuietAccount, CarryAccount, DraftAccount, PutAccount DEF Proceed
  <1>3. QED
    BY <1>1, <1>2 DEF Next, Tick, vars, configMap

LEMMA AccountInvariance == Spec => []AccountInv
  <1>1. Init => AccountInv
    BY DEF Init, AccountInv, LogMine, DraftMine, EffectsAt, Mine, Untouched, Underway, Holding
  <1>2. QED
    BY <1>1, NextAccount, TypeInvariance, SafeInvariance, PTL DEF Spec

(* PENDING and 200 are only answered for what the call itself stored, and  *)
(* no call stores two requests or decisions.                               *)
THEOREM AnswersAccounted == Spec => []Accounted
  <1>1. ASSUME AccountInv, NEW c \in Calls, pc[c] = "pending"
        PROVE  \E e \in log : /\ e.call = c /\ e.rec.status = "pending"
                              /\ e.rec.exec = arg[c].exec /\ e.rec.step = arg[c].step
                              /\ e.rec.script = arg[c].script
    <2>1. PICK e \in Mine(c) : e.rec.status = "pending"
      BY <1>1 DEF AccountInv, EffectsAt
    <2>2. QED
      BY <1>1, <2>1 DEF Mine, AccountInv, LogMine, Written
  <1>2. ASSUME AccountInv, NEW c \in Calls, pc[c] = "ok"
        PROVE  \E e \in log : /\ e.call = c /\ e.rec.status = Verdict(arg[c].op)
                              /\ e.rec.by = arg[c].user /\ KeyOf(e.rec) = MyKey(c)
    <2>1. PICK e \in Mine(c) : Decided(e.rec)
      BY <1>2 DEF AccountInv, EffectsAt
    <2>2. QED
      BY <1>2, <2>1 DEF Mine, AccountInv, LogMine, Written
  <1>3. ASSUME TypeInv, AccountInv, NEW e \in log, NEW f \in log, e.call = f.call,
               e.rec.status # "expired", f.rec.status # "expired"
        PROVE  e = f
    <2>1. e.call \in Calls /\ e \in Mine(e.call) /\ f \in Mine(e.call)
      BY <1>3 DEF TypeInv, TypeOK, Mine
    <2>2. QED
      BY <1>3, <2>1 DEF AccountInv, EffectsAt
  <1>4. TypeInv /\ AccountInv => Accounted
    BY <1>1, <1>2, <1>3 DEF Accounted
  <1>5. QED
    BY <1>4, TypeInvariance, AccountInvariance, PTL

-----------------------------------------------------------------------------
(* Time.  A call compares a request's deadline with the clock once, before *)
(* it stores anything, and reads the clock again to record its decision.   *)

Timely(r, c) ==
    /\ Decided(r) => looked[c] <= r.expiresAt /\ looked[c] <= r.at
    /\ r.status = "expired" => r.expiresAt < looked[c]

TimeInv ==
    /\ \A c \in Calls : /\ looked[c] <= now
                        /\ pc[c] = "judge" => looked[c] <= draft[c].expiresAt
                        /\ pc[c] \in Holding => Timely(draft[c], c)
    /\ \A e \in log : Timely(e.rec, e.call)

(* An action of one call that neither looks at a deadline nor stores.      *)
LEMMA MoveTime ==
    ASSUME TypeInv, TimeInv, NEW c \in Calls, UNCHANGED <<now, looked, log>>,
           \A d \in Calls \ {c} : pc'[d] = pc[d] /\ draft'[d] = draft[d],
           pc'[c] # "judge",
           pc'[c] \in Holding => Timely(draft'[c], c)
    PROVE  TimeInv'
  <1>1. ASSUME NEW d \in Calls
        PROVE  (/\ looked[d] <= now
                /\ pc[d] = "judge" => looked[d] <= draft[d].expiresAt
                /\ pc[d] \in Holding => Timely(draft[d], d))'
    <2>1. CASE d = c
      BY <2>1 DEF TimeInv, Timely
    <2>2. CASE d # c
      BY <2>2 DEF TimeInv, Timely
    <2>3. QED
      BY <2>1, <2>2
  <1>2. (\A e \in log : Timely(e.rec, e.call))'
    BY DEF TimeInv, Timely
  <1>3. QED
    BY <1>1, <1>2 DEF TimeInv

LEMMA QuietTime ==
    ASSUME TypeInv, TimeInv, NEW c \in Calls,
           \/ Start(c) \/ GetMissing(c) \/ GetError(c) \/ Check(c) \/ FetchFails(c)
           \/ MakeFails(c) \/ PutFails(c) \/ Crash(c)
    PROVE  TimeInv'
  <1>1. /\ UNCHANGED <<now, looked, log>>
        /\ \A d \in Calls \ {c} : pc'[d] = pc[d] /\ draft'[d] = draft[d]
    BY DEF TypeInv, TypeOK, Start, GetMissing, GetError, Check, FetchFails, MakeFails,
       PutFails, Crash, Goto, Drop, configMap
  <1>2. pc'[c] \in {"get", "stamp", "cleared", "rejected", "pending", "failed", "ok", "crashed"}
    BY WhereNext DEF TypeInv, TypeOK, Start, GetMissing, GetError, Check, FetchFails,
       MakeFails, PutFails, Crash, Goto
  <1>3. QED
    BY <1>1, <1>2, MoveTime DEF Holding

LEMMA CarryTime ==
    ASSUME TypeInv, TimeInv, NEW c \in Calls, Fetch(c) \/ OpenFails(c) \/ Make(c)
    PROVE  TimeInv'
  <1>1. pc[c] \in Holding /\ UNCHANGED <<now, looked, log, draft>>
    BY DEF Fetch, OpenFails, Make, Holding, configMap
  <1>2. pc'[c] \in {"store", "make"} /\ \A d \in Calls \ {c} : pc'[d] = pc[d]
    BY DEF TypeInv, TypeOK, Fetch, OpenFails, Make, Goto
  <1>3. Timely(draft'[c], c)
    BY <1>1 DEF TimeInv
  <1>4. QED
    BY <1>1, <1>2, <1>3, MoveTime

(* A new request, or a decision of a request that was looked up in time.   *)
LEMMA DraftTime ==
    ASSUME TypeInv, TimeInv, NEW c \in Calls, Stamp(c) \/ Judge(c)
    PROVE  TimeInv'
  <1>1. UNCHANGED <<now, looked, log>> /\ pc'[c] \in {"open", "fetch"}
    BY DEF TypeInv, TypeOK, Stamp, Judge, Goto, configMap
  <1>2. \A d \in Calls \ {c} : pc'[d] = pc[d] /\ draft'[d] = draft[d]
    BY DEF TypeInv, TypeOK, Stamp, Judge, Goto
  <1>3. Timely(draft'[c], c)
    <2>1. CASE Stamp(c)
      <3>1. draft'[c].status = "pending"
        BY <2>1 DEF TypeInv, TypeOK, Stamp, NewRequest
      <3>2. QED
        BY <3>1 DEF Timely, Decided
    <2>2. CASE Judge(c)
      <3>1. /\ draft'[c] = Judged(draft[c], arg[c]) /\ pc[c] = "judge"
            /\ arg[c] \in DecideArg /\ draft[c] \in Requests
        BY <2>2 DEF Judge, TypeInv, TypeOK, JudgeOK
      <3>2. /\ draft'[c].status = Verdict(arg[c].op) /\ draft'[c].at = now
            /\ draft'[c].expiresAt = draft[c].expiresAt
        BY <3>1, JudgedType DEF TypeInv, TypeOK
      <3>3. looked[c] <= draft[c].expiresAt /\ looked[c] <= now
        BY <3>1 DEF TimeInv
      <3>4. QED
        BY <3>2, <3>3 DEF Timely, Verdict
    <2>3. QED
      BY <2>1, <2>2
  <1>4. QED
    BY <1>1, <1>2, <1>3, MoveTime

(* The comparison itself.  The call has stored nothing yet.                *)
LEMMA LookTime ==
    ASSUME TypeInv, AccountInv, TimeInv, NEW c \in Calls, GetOverdue(c) \/ Decide(c)
    PROVE  TimeInv'
  <1>1. /\ UNCHANGED <<now, log>> /\ pc[c] = "get"
        /\ looked' = [looked EXCEPT ![c] = now]
        /\ \A d \in Calls \ {c} : pc'[d] = pc[d] /\ draft'[d] = draft[d]
    BY DEF TypeInv, TypeOK, GetOverdue, Decide, Goto, configMap
  <1>2. looked'[c] = now /\ \A d \in Calls \ {c} : looked'[d] = looked[d]
    BY <1>1 DEF TypeInv, TypeOK
  <1>3. /\ pc'[c] = "judge" => now <= draft'[c].expiresAt
        /\ pc'[c] \in Holding => draft'[c].status = "expired" /\ draft'[c].expiresAt < now
    <2>1. now \in Nat
      BY TimeAssumption DEF TypeInv, TypeOK
    <2>2. Stored(c) \in Record => Stored(c).expiresAt \in Nat
      BY TimesAssumption DEF Record
    <2>3. CASE GetOverdue(c)
      <3>1. Stored(c) \in Record
        BY <1>1, <2>3, RunningFacts DEF GetOverdue
      <3>2. pc'[c] = "fetch" /\ draft'[c] = [Stored(c) EXCEPT !.status = "expired"]
        BY <2>3 DEF TypeInv, TypeOK, GetOverdue, Goto
      <3>3. draft'[c].status = "expired" /\ draft'[c].expiresAt = Stored(c).expiresAt
        BY <3>1, <3>2 DEF Record
      <3>4. QED
        BY <2>1, <2>2, <2>3, <3>1, <3>2, <3>3 DEF GetOverdue, Overdue
    <2>4. CASE Decide(c)
      <3>1. Stored(c) \in Record
        BY <1>1, <2>4, RunningFacts DEF Decide
      <3>2. \/ pc'[c] = "rejected"
            \/ pc'[c] = "judge" /\ draft'[c] = Stored(c) /\ Stored(c).status = "pending"
        BY <2>4 DEF TypeInv, TypeOK, Decide, Decidable, Goto
      <3>3. QED
        BY <2>1, <2>2, <2>4, <3>1, <3>2 DEF Decide, Overdue, Holding
    <2>5. QED
      BY <2>3, <2>4
  <1>4. ASSUME NEW d \in Calls
        PROVE  (/\ looked[d] <= now
                /\ pc[d] = "judge" => looked[d] <= draft[d].expiresAt
                /\ pc[d] \in Holding => Timely(draft[d], d))'
    <2>1. CASE d = c
      <3>1. looked'[c] <= now'
        BY <1>1, <1>2, TimeAssumption DEF TypeInv, TypeOK
      <3>2. QED
        BY <1>2, <1>3, <2>1, <3>1 DEF Timely, Decided
    <2>2. CASE d # c
      BY <1>1, <1>2, <2>2 DEF TimeInv, Timely
    <2>3. QED
      BY <2>1, <2>2
  <1>5. ASSUME NEW e \in log PROVE Timely(e.rec, e.call)'
    <2>1. e.call \in Calls /\ e.call # c
      BY <1>1 DEF TypeInv, TypeOK, AccountInv, EffectsAt, Mine, Untouched
    <2>2. QED
      BY <1>2, <2>1 DEF TimeInv, Timely
  <1>6. QED
    BY <1>1, <1>4, <1>5 DEF TimeInv

LEMMA PutTime ==
    ASSUME TypeInv, TimeInv, NEW c \in Calls, Put(c)
    PROVE  TimeInv'
  <1>1. /\ pc[c] = "store" /\ UNCHANGED <<now, looked>>
        /\ log' = log \union {[call |-> c, rec |-> draft[c]]}
        /\ \A d \in Calls \ {c} : pc'[d] = pc[d] /\ draft'[d] = draft[d]
        /\ pc'[c] \in {"stamp", "rejected", "pending", "failed", "ok"}
    BY PutFacts DEF Put
  <1>2. Timely(draft[c], c)
    BY <1>1 DEF TimeInv, Holding
  <1>3. \A r, d : Timely(r, d)' <=> Timely(r, d)
    BY <1>1 DEF Timely
  <1>4. ASSUME NEW e \in log' PROVE Timely(e.rec, e.call)'
    <2>1. CASE e \in log
      BY <1>3, <2>1 DEF TimeInv
    <2>2. CASE e = [call |-> c, rec |-> draft[c]]
      <3>1. e.rec = draft[c] /\ e.call = c
        BY <2>2
      <3>2. Timely(e.rec, e.call)
        BY <1>2, <3>1
      <3>3. QED
        BY <1>1, <3>2 DEF Timely
    <2>3. QED
      BY <1>1, <2>1, <2>2
  <1>5. ASSUME NEW d \in Calls
        PROVE  (/\ looked[d] <= now
                /\ pc[d] = "judge" => looked[d] <= draft[d].expiresAt
                /\ pc[d] \in Holding => Timely(draft[d], d))'
    <2>1. CASE d = c
      BY <1>1, <2>1 DEF TimeInv, Holding
    <2>2. CASE d # c
      BY <1>1, <2>2 DEF TimeInv, Timely
    <2>3. QED
      BY <2>1, <2>2
  <1>6. QED
    BY <1>4, <1>5 DEF TimeInv

LEMMA NextTime == TypeInv /\ AccountInv /\ TimeInv /\ [Next]_vars => TimeInv'
  <1> SUFFICES ASSUME TypeInv, AccountInv, TimeInv, [Next]_vars PROVE TimeInv'
    OBVIOUS
  <1>1. CASE UNCHANGED <<now, looked, log, pc, draft>>
    BY <1>1 DEF TimeInv, Timely
  <1>2. ASSUME NEW c \in Calls, Start(c) \/ Proceed(c) \/ Crash(c)
        PROVE  TimeInv'
    BY <1>2, QuietTime, CarryTime, DraftTime, LookTime, PutTime DEF Proceed
  <1>3. CASE Tick
    <2>1. now' = now + 1 /\ UNCHANGED <<looked, log, pc, draft>>
      BY <1>3 DEF Tick, configMap
    <2>2. \A c \in Calls : looked[c] \in Nat /\ now \in Nat /\ looked[c] <= now
      BY TimeAssumption DEF TypeInv, TypeOK, TimeInv
    <2>3. \A c \in Calls : looked'[c] <= now'
      BY <2>1, <2>2
    <2>4. QED
      BY <2>1, <2>3 DEF TimeInv, Timely
  <1>4. QED
    BY <1>1, <1>2, <1>3 DEF Next, vars

LEMMA TimeInvariance == Spec => []TimeInv
  <1>1. Init => TimeInv
    BY DEF Init, TimeInv, Holding
  <1>2. QED
    BY <1>1, NextTime, TypeInvariance, AccountInvariance, PTL DEF Spec

(* However long a call takes and whatever others store meanwhile, it only  *)
(* stores a decision of a request whose time was not up when it compared   *)
(* the two, and an expiry of one whose time was; the time it records is    *)
(* never earlier than that comparison, and may be later than the deadline. *)
THEOREM InTime == Spec => []DecisionsInTime
  <1>1. TimeInv => DecisionsInTime
    BY DEF TimeInv, Timely, DecisionsInTime
  <1>2. QED
    BY <1>1, TimeInvariance, PTL

-----------------------------------------------------------------------------
(* The chain behind a script that may run.                                 *)

(* A record e of the log is an approval with everything it stands on: an   *)
(* Execute call submitted this request, with this script and this list of  *)
(* approvers, and a user on the list approved it, in a call that found it  *)
(* still in time.                                                          *)
Backed(e) ==
    /\ e.rec.status = "approved"
    /\ arg[e.call].op = "approve" /\ arg[e.call].user = e.rec.by
    /\ Contains(e.rec.approvers, e.rec.by)
    /\ looked[e.call] <= e.rec.expiresAt
    /\ \E f \in log : /\ f.rec = Request(e.rec)
                      /\ arg[f.call].op = "execute"
                      /\ arg[f.call].exec = e.rec.exec /\ arg[f.call].step = e.rec.step
                      /\ arg[f.call].script = e.rec.script
                      /\ e.rec.approvers = Listed(arg[f.call])

ClearedByChain ==
    \A c \in Calls : pc[c] = "cleared" => \E e \in log : KeyOf(e.rec) = MyKey(c) /\ Backed(e)

ClearedByOwnChain ==
    \A c \in Calls : pc[c] = "cleared" =>
        \E e \in log : e.rec.exec = arg[c].exec /\ e.rec.step = arg[c].step /\ Backed(e)

LEMMA ApprovedBacked ==
    ASSUME TypeInv, AccountInv, TimeInv, NEW e \in log, e.rec.status = "approved"
    PROVE  Backed(e)
  <1>1. Written(e.rec, e.call) /\ Answers(e.rec)
    BY DEF AccountInv, LogMine
  <1>2. PICK f \in log : f.rec = Request(e.rec) /\ f.rec \in Requests
    BY <1>1 DEF Answers, Submitted
  <1>3. Written(f.rec, f.call)
    BY DEF AccountInv, LogMine
  <1>4. /\ f.rec.status = "pending"
        /\ f.rec.exec = e.rec.exec /\ f.rec.step = e.rec.step
        /\ f.rec.script = e.rec.script /\ f.rec.approvers = e.rec.approvers
    <2>1. e.call \in Calls /\ e.rec \in Record
      BY DEF TypeInv, TypeOK
    <2>2. QED
      BY <1>2, <2>1 DEF Request, Requests, Record
  <1>5. arg[e.call].op = "approve"
    BY <1>1 DEF Written, Decided, Verdict
  <1>6. Decided(e.rec) /\ looked[e.call] <= e.rec.expiresAt
    BY DEF TimeInv, Timely, Decided
  <1>7. QED
    BY <1>1, <1>2, <1>3, <1>4, <1>5, <1>6 DEF Backed, Written, Answers

LEMMA InvChain == TypeInv /\ AccountInv /\ TimeInv /\ SafeInv => ClearedByChain
  BY ApprovedBacked DEF SafeInv, ClearedByApproval, ClearedByChain

(* A script that was not approved as asked never runs: whoever is cleared  *)
(* finds, in what was ever stored under its key, an approval by a user on  *)
(* the list of a request that an Execute call made, given by a call that   *)
(* looked the request up in time (Create, Get, Approve, Check).  The       *)
(* request may be another one under the same key.                          *)
THEOREM Chain == Spec => []ClearedByChain
  BY InvChain, TypeInvariance, AccountInvariance, TimeInvariance, SafeInvariance, PTL

(* The key of a request tells its execution and its step if the steps'     *)
(* names have equally many parts.                                          *)
LEMMA KeyDetermines ==
    ASSUME NEW e \in Executions, NEW f \in Executions, NEW s \in Steps, NEW t \in Steps,
           Len(s) = Len(t), Key(e, s) = Key(f, t)
    PROVE  e = f /\ s = t
  <1>1. /\ e \in Seq(STRING) /\ f \in Seq(STRING) /\ s \in Seq(STRING) /\ t \in Seq(STRING)
    BY ExecutionsAssumption
  <1>2. Len(e \o s) = Len(e) + Len(s) /\ Len(f \o t) = Len(f) + Len(t)
    BY <1>1
  <1>3. Len(e) = Len(f)
    BY <1>1, <1>2 DEF Key
  <1>4. \A i \in 1 .. Len(e) : e[i] = f[i]
    BY <1>1, <1>2, <1>3 DEF Key
  <1>5. \A i \in 1 .. Len(s) : s[i] = t[i]
    <2>1. ASSUME NEW i \in 1 .. Len(s) PROVE s[i] = t[i]
      <3>1. (e \o s)[Len(e) + i] = s[i] /\ (f \o t)[Len(e) + i] = t[i]
        BY <1>1, <1>2, <1>3
      <3>2. QED
        BY <3>1 DEF Key
    <2>2. QED
      BY <2>1
  <1>6. QED
    BY <1>1, <1>3, <1>4, <1>5, SeqEqual

(* If the steps' names have equally many parts - none has a "-", say - the *)
(* approval is one of the very execution and step that the call is for.    *)
(* (In general it is not: "a" with "b-c" and "a-b" with "c" share a key.)  *)
THEOREM OwnChain ==
    ASSUME \A s, t \in Steps : Len(s) = Len(t)
    PROVE  Spec => []ClearedByOwnChain
  <1>1. ASSUME TypeInv, ClearedByChain, NEW c \in Calls, pc[c] = "cleared"
        PROVE  \E e \in log : e.rec.exec = arg[c].exec /\ e.rec.step = arg[c].step /\ Backed(e)
    <2>1. PICK e \in log : KeyOf(e.rec) = MyKey(c) /\ Backed(e)
      BY <1>1 DEF ClearedByChain
    <2>2. e.rec.exec \in Executions /\ e.rec.step \in Steps
      BY <1>1 DEF TypeInv, TypeOK, Record
    <2>3. arg[c].exec \in Executions /\ arg[c].step \in Steps
      BY <1>1, RunningFacts, ArgType
    <2>4. QED
      BY <2>1, <2>2, <2>3, KeyDetermines DEF KeyOf, MyKey
  <1>2. TypeInv /\ ClearedByChain => ClearedByOwnChain
    BY <1>1 DEF ClearedByOwnChain
  <1>3. QED
    BY <1>2, Chain, TypeInvariance, PTL

-----------------------------------------------------------------------------
(* How long a call can take.                                               *)

(* The number of requests that a call can still make, itself included the  *)
(* local step of stamping a new request.  A lookup that finds an overdue   *)
(* request is the longest way: it stores the expiry, then a new request.   *)
StepsLeft(c) ==
    CASE pc[c] = "idle" -> 8
      [] pc[c] = "get" -> 7
      [] pc[c] = "judge" -> 3
      [] pc[c] = "fetch" -> IF draft[c].status = "expired" THEN 6 ELSE 2
      [] pc[c] = "store" -> IF draft[c].status = "expired" THEN 5 ELSE 1
      [] pc[c] = "stamp" -> 4
      [] pc[c] = "open" -> 3
      [] pc[c] = "make" -> 2
      [] OTHER -> 0

(* What getOrCreate reads for is a new request; an expiry is never stored  *)
(* that way.                                                               *)
Opening == \A c \in Calls : pc[c] \in {"open", "make"} => draft[c].status = "pending"

(* A step of one call leaves the place and the record of the others alone. *)
LEMMA OthersStay ==
    ASSUME TypeInv, NEW c \in Calls, Start(c) \/ Proceed(c) \/ Crash(c), NEW d \in Calls, c # d
    PROVE  pc'[d] = pc[d] /\ draft'[d] = draft[d]
  BY DEF TypeInv, TypeOK, Proceed, Start, GetMissing, GetError, GetOverdue, Check, Decide,
     Judge, Stamp, Fetch, OpenFails, FetchFails, Make, MakeFails, Put, PutFails, Crash, Goto, Drop

LEMMA CrashEnds ==
    ASSUME TypeInv, NEW c \in Calls, Crash(c)
    PROVE  StepsLeft(c)' = 0
  BY DEF TypeInv, TypeOK, Crash, Goto, StepsLeft

LEMMA NextOpening == TypeInv /\ Opening /\ [Next]_vars => Opening'
  <1> SUFFICES ASSUME TypeInv, Opening, [Next]_vars, NEW d \in Calls,
                      pc'[d] \in {"open", "make"}
               PROVE  draft'[d].status = "pending"
    BY DEF Opening
  <1>1. ASSUME NEW c \in Calls, Start(c) \/ Proceed(c) \/ Crash(c), c # d
        PROVE  pc'[d] = pc[d] /\ draft'[d] = draft[d]
    BY <1>1, OthersStay
  <1>2. ASSUME Start(d) \/ Proceed(d) \/ Crash(d)
        PROVE  Stamp(d) \/ OpenFails(d)
    <2>1. Undecided(d) \notin {"open", "make"}
          /\ \A ok \in BOOLEAN : AfterWrite(d, ok) \notin {"open", "make"}
      BY DEF Undecided, AfterWrite
    <2>2. QED
      BY <1>2, <2>1 DEF TypeInv, TypeOK, Proceed, Start, GetMissing, GetError, GetOverdue,
         Check, Decide, Judge, Fetch, FetchFails, Make, MakeFails, Put, PutFails, Crash, Goto
  <1>3. CASE Stamp(d)
    BY <1>3 DEF TypeInv, TypeOK, Stamp, NewRequest
  <1>4. CASE OpenFails(d)
    BY <1>4 DEF Opening, OpenFails
  <1>5. CASE UNCHANGED <<pc, draft>>
    BY <1>5 DEF Opening
  <1>6. QED
    BY <1>1, <1>2, <1>3, <1>4, <1>5 DEF Next, Tick, vars, Opening

LEMMA OpeningInvariance == Spec => []Opening
  <1>1. Init => Opening
    BY DEF Init, Opening
  <1>2. QED
    BY <1>1, NextOpening, TypeInvariance, PTL DEF Spec

(* Every step of a call brings it nearer to its answer, and no other step  *)
(* sets it back: no handler tries again, waits for another one or goes     *)
(* round a loop, so a call makes at most seven steps (Get, Create, Update  *)
(* make one attempt each).                                                 *)
StepsShrink ==
    [][\A c \in Calls : /\ StepsLeft(c)' <= StepsLeft(c)
                        /\ Start(c) \/ Proceed(c) => StepsLeft(c)' < StepsLeft(c)]_vars

LEMMA OwnStepShrinks ==
    ASSUME TypeInv, Opening, NEW c \in Calls, Start(c) \/ Proceed(c)
    PROVE  StepsLeft(c)' < StepsLeft(c)
  <1> USE DEF StepsLeft
  <1>1. CASE Start(c)
    BY <1>1 DEF TypeInv, TypeOK, Start, Goto
  <1>2. CASE GetMissing(c) \/ GetError(c) \/ Check(c)
    BY <1>2 DEF TypeInv, TypeOK, GetMissing, GetError, Check, Goto, Undecided
  <1>3. CASE GetOverdue(c)
    BY <1>3 DEF TypeInv, TypeOK, GetOverdue, Goto
  <1>4. CASE Decide(c)
    BY <1>4 DEF TypeInv, TypeOK, Decide, Goto
  <1>5. CASE Stamp(c) \/ OpenFails(c)
    BY <1>5 DEF TypeInv, TypeOK, Stamp, OpenFails, Goto
  <1>6. CASE Fetch(c) \/ Make(c)
    BY <1>6 DEF TypeInv, TypeOK, Opening, Fetch, Make, Goto
  <1>7. CASE FetchFails(c) \/ Put(c) \/ PutFails(c)
    <2>1. PICK ok \in BOOLEAN : pc'[c] = AfterWrite(c, ok)
      BY <1>7 DEF TypeInv, TypeOK, FetchFails, Put, PutFails, Goto
    <2>2. pc[c] \in {"fetch", "store"}
      BY <1>7 DEF FetchFails, Put, PutFails
    <2>3. AfterWrite(c, ok) \in {"stamp", "rejected", "pending", "failed", "ok"}
          /\ (AfterWrite(c, ok) = "stamp" => draft[c].status = "expired")
      BY DEF AfterWrite, Undecided
    <2>4. QED
      BY <2>1, <2>2, <2>3
  <1>8. CASE MakeFails(c)
    BY <1>8 DEF TypeInv, TypeOK, MakeFails, Goto
  <1>9. CASE Judge(c)
    <2>1. Judged(draft[c], arg[c]).status # "expired"
      BY <1>9 DEF TypeInv, JudgeOK, Judge, Judged, Requests, Verdict
    <2>2. QED
      BY <1>9, <2>1 DEF TypeInv, TypeOK, Judge, Goto
  <1>10. QED
    BY <1>1, <1>2, <1>3, <1>4, <1>5, <1>6, <1>7, <1>8, <1>9 DEF Proceed

THEOREM CallsAdvance == Spec => StepsShrink
  <1>1. ASSUME TypeInv, Opening, [Next]_vars, NEW c \in Calls
        PROVE  /\ StepsLeft(c)' <= StepsLeft(c)
               /\ Start(c) \/ Proceed(c) => StepsLeft(c)' < StepsLeft(c)
    <2>1. StepsLeft(c) \in 0 .. 8 /\ StepsLeft(c)' \in 0 .. 8
      BY DEF StepsLeft
    <2>2. ASSUME NEW d \in Calls, Start(d) \/ Proceed(d) \/ Crash(d), d # c
          PROVE  StepsLeft(c)' = StepsLeft(c)
      <3>1. pc'[c] = pc[c] /\ draft'[c] = draft[c]
        BY <1>1, <2>2, OthersStay
      <3>2. QED
        BY <3>1 DEF StepsLeft
    <2>3. ASSUME Crash(c) PROVE StepsLeft(c)' = 0
      BY <1>1, <2>3, CrashEnds
    <2>4. ASSUME UNCHANGED <<pc, draft>> PROVE StepsLeft(c)' = StepsLeft(c)
      BY <2>4 DEF StepsLeft
    <2>5. QED
      BY <1>1, <2>1, <2>2, <2>3, <2>4, OwnStepShrinks DEF Next, Tick, vars
  <1>2. TypeInv /\ Opening /\ [Next]_vars =>
            [\A c \in Calls : /\ StepsLeft(c)' <= StepsLeft(c)
                              /\ Start(c) \/ Proceed(c) => StepsLeft(c)' < StepsLeft(c)]_vars
    BY <1>1
  <1>3. QED
    BY <1>2, TypeInvariance, OpeningInvariance, PTL DEF Spec, StepsShrink

-----------------------------------------------------------------------------
(* Refinement.                                                             *)

(* A write is a step of the register: what is stored is a new request, the *)
(* settlement of a submitted one, or its expiry.                           *)
LEMMA PutRefines ==
    ASSUME TypeInv, SafeInv, NEW c \in Calls, Put(c)
    PROVE  Register!RegNext
  <1> USE DEF Register!Requests, Register!Record, Register!Statuses, Register!KeyOf,
              Register!Key, Register!Replace, Register!Contains
  <1> DEFINE r == draft[c]
             q == Request(draft[c])
  <1>1. /\ r \in Record /\ Filed(r, MyKey(c))
        /\ data' = [data EXCEPT ![KeyOf(r)] = r]
        /\ log' = log \union {[call |-> c, rec |-> r]}
        /\ pc[c] = "store"
    BY PutFacts DEF Filed
  <1>2. Answers(r) /\ Authored(r, c)
    BY <1>1 DEF SafeInv, DraftSafe, Holding
  <1>3. CASE r.status = "pending"
    <2>1. r \in Requests
      BY <1>1, <1>3 DEF Filed
    <2>2. Submitted' = Submitted \union {r}
      <3>1. [call |-> c, rec |-> r].rec = r
        OBVIOUS
      <3>2. ASSUME NEW x
            PROVE  (\E e \in log' : e.rec = x) <=> (\E e \in log : e.rec = x) \/ x = r
        BY <1>1, <3>1
      <3>3. QED
        BY <2>1, <3>2 DEF Submitted
    <2>3. Register!Submit(r)
      BY <1>1, <2>1, <2>2 DEF Register!Submit, Requests, KeyOf, Key
    <2>4. QED
      BY <2>1, <2>3 DEF Register!RegNext, Requests
  <1>4. CASE r.status # "pending"
    <2>1. q \in Submitted /\ q \in Requests
      BY <1>2, <1>4 DEF Answers, Submitted
    <2>2. Submitted' = Submitted
      BY <1>1, <1>4 DEF Submitted, Requests
    <2>3. CASE r.status = "expired"
      <3>1. r = [q EXCEPT !.status = "expired"] /\ KeyOf(q) = KeyOf(r)
        BY <1>1, <1>2, <2>3 DEF Answers, Request, Record, KeyOf
      <3>2. Register!Expire(q)
        BY <1>1, <2>1, <2>2, <3>1 DEF Register!Expire, KeyOf, Key
      <3>3. QED
        BY <2>1, <3>2 DEF Register!RegNext
    <2>4. CASE Decided(r)
      <3>1. /\ r = [q EXCEPT !.status = r.status, !.by = r.by, !.at = r.at]
            /\ KeyOf(q) = KeyOf(r) /\ q.approvers = r.approvers
        BY <1>1 DEF Request, Record, KeyOf
      <3>2. Contains(r.approvers, r.by)
        BY <1>2, <2>4 DEF Answers
      <3>3. r.status \in {"approved", "denied"} /\ r.at \in Times
        BY <1>1, <2>4 DEF Decided, Record
      <3>4. Register!Settle(q, r.status, r.by, r.at)
        BY <1>1, <2>1, <2>2, <3>1, <3>2 DEF Register!Settle, KeyOf, Key, Contains
      <3>5. r.by \in Users
        BY <1>1, <1>2, <2>4, ArgType, PutFacts DEF Authored
      <3>6. QED
        BY <2>1, <3>3, <3>4, <3>5 DEF Register!RegNext
    <2>5. QED
      BY <1>1, <1>4, <2>3, <2>4 DEF Record, Statuses, Decided
  <1>5. QED
    BY <1>3, <1>4

(* Seen through its data, the ConfigMap that calls read and replace as a   *)
(* whole is the register of ApprovalRegister.                              *)
THEOREM Refinement == Spec => RefinesRegister
  <1>1. Init => Register!RegInit
    BY DEF Init, Register!RegInit, Submitted, Register!Keys, Keys, Register!Key, Key
  <1>2. TypeInv /\ SafeInv /\ [Next]_vars => [Register!RegNext]_(Register!regvars)
    <2>1. ASSUME UNCHANGED <<data, log>>
          PROVE  UNCHANGED Register!regvars
      BY <2>1 DEF Register!regvars, Submitted
    <2>2. QED
      BY <2>1, PutRefines, OnlyPutWrites
  <1>3. QED
    BY <1>1, <1>2, TypeInvariance, SafeInvariance, PTL
    DEF Spec, RefinesRegister, Register!RegSpec

(* Whatever the ConfigMap holds under a key is a request that an Execute   *)
(* call submitted, or the answer to one that an approver of that request   *)
(* gave (store.go, checker.go): what ApprovalRegister promises, kept by    *)
(* calls that read and replace the whole map.                              *)
THEOREM RegisterKept == Spec => []Register!RegSound
  <1>1. ASSUME TypeInv, SafeInv, NEW k \in Keys, data[k] # None
        PROVE  /\ KeyOf(data[k]) = k
               /\ Request(data[k]) \in Submitted
               /\ Decided(data[k]) => Contains(data[k].approvers, data[k].by)
    <2>1. KeyOf(data[k]) = k
      BY <1>1 DEF TypeInv, DataOK, Filed
    <2>2. data[k].status = "pending" => Request(data[k]) = data[k]
      BY <1>1 DEF TypeInv, DataOK, Filed, Requests, Request
    <2>3. QED
      BY <1>1, <2>1, <2>2, PendingIsSubmitted DEF SafeInv, DataSafe, Answers
  <1>2. /\ Register!Keys = Keys
        /\ \A r : /\ Register!KeyOf(r) = KeyOf(r) /\ Register!Request(r) = Request(r)
                  /\ Register!Decided(r) <=> Decided(r)
        /\ \A L, u : Register!Contains(L, u) <=> Contains(L, u)
    BY DEF Register!Keys, Keys, Register!Key, Key, Register!KeyOf, KeyOf,
       Register!Request, Request, Register!Decided, Decided, Register!Contains, Contains
  <1>3. TypeInv /\ SafeInv => Register!RegSound
    BY <1>1, <1>2 DEF Register!RegSound
  <1>4. QED
    BY <1>3, TypeInvariance, SafeInvariance, PTL

=============================================================================
