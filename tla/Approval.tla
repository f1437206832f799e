------------------------------ MODULE Approval ------------------------------
(***************************************************************************)
(* The approval workflow of script.run: the gRPC Execute calls that look   *)
(* an approval up and submit it, and the HTTP approve and deny calls that  *)
(* decide it.  The calls run concurrently on several replicas and share    *)
(* one Kubernetes ConfigMap, which they read and replace as a whole; the   *)
(* API server accepts a replacement only for the version it was read at.   *)
(*                                                                         *)
(* One step of this module is one request to the API server, together with *)
(* the local computation that follows it in the handler.  Between two      *)
(* steps of a call any other call may run.  A request to the API server    *)
(* may fail, and a write may take effect although its reply is lost.  The  *)
(* clock moves between steps.  A handler reads it anew each time it needs  *)
(* it: the expiry test of Get and the time a decision records are two      *)
(* readings, and so two steps (Decide, Judge).                             *)
(***************************************************************************)
EXTENDS ApprovalRequests

CONSTANTS
    Calls,            \* identities of the calls; each is handled once
    ApproverLists,    \* the values the parameter "approvers" may have
    DefaultApprovers, \* config approval.default_approvers
    Lifetime,         \* 24 hours, the time a request may stay pending
    MaxTime           \* bound on the clock

ASSUME ApproversAssumption == /\ ApproverLists \subseteq SUBSET Users
                              /\ DefaultApprovers \subseteq Users
ASSUME TimeAssumption == /\ Lifetime \in Nat /\ MaxTime \in Nat
                         /\ 0 .. (MaxTime + Lifetime) \subseteq Times

-----------------------------------------------------------------------------
(* What a call is given. *)
ExecuteArg == [op : {"execute"}, exec : Executions, step : Steps,
               script : Scripts, approvers : ApproverLists]
DecideArg == [op : {"approve", "deny"}, exec : Executions, step : Steps, user : Users]
Arg == ExecuteArg \union DecideArg

(* Where a call stands: before its next API request, or answered.          *)
(*   get     about to read the ConfigMap in Store.Get                      *)
(*   stamp   about to fill in a new request in Store.Create                *)
(*   open    about to read the ConfigMap in getOrCreate                    *)
(*   make    about to create the ConfigMap in getOrCreate                  *)
(*   judge   about to fill the decision in, in Approve or Deny             *)
(*   fetch   about to read the ConfigMap in Store.Update                   *)
(*   store   about to replace the ConfigMap                                *)
Running == {"get", "judge", "stamp", "open", "make", "fetch", "store"}

(*   pending   Execute answered STATUS_PENDING                             *)
(*   failed    Execute answered STATUS_FAILED                              *)
(*   cleared   Execute found an approval and goes on to run the script     *)
(*   ok        approve or deny answered 200                                *)
(*   rejected  approve or deny answered 400                                *)
(*   crashed   the replica stopped before it answered                      *)
Answered == {"pending", "failed", "cleared", "ok", "rejected", "crashed"}

VARIABLES
    now,        \* the clock
    version,    \* the ConfigMap's resourceVersion; 0 when there is no ConfigMap
    data,       \* the ConfigMap's data: the record under each key, or None
    pc,         \* where each call stands
    arg,        \* what each call was given
    draft,      \* the record each call is about to store, or to decide
    copy,       \* the ConfigMap as each call last read it for writing
    seen,       \* history: the version at which each call looked its key up
    looked,     \* history: the time at which Get compared the request's own with it
    wrote,      \* history: the version that wrote each key last
    log         \* history: every record stored so far and the call that stored it

vars == <<now, version, data, pc, arg, draft, copy, seen, looked, wrote, log>>
configMap == <<version, data, wrote, log>>

Copy == [version : Nat, data : [Keys -> Record \union {None}]]

TypeOK ==
    /\ now \in 0 .. MaxTime
    /\ version \in Nat
    /\ data \in [Keys -> Record \union {None}]
    /\ pc \in [Calls -> {"idle"} \union Running \union Answered]
    /\ arg \in [Calls -> Arg \union {None}]
    /\ draft \in [Calls -> Record \union {None}]
    /\ copy \in [Calls -> Copy \union {None}]
    /\ seen \in [Calls -> Nat]
    /\ looked \in [Calls -> 0 .. MaxTime]
    /\ wrote \in [Keys -> Nat]
    /\ log \subseteq [call : Calls, rec : Record]

Init ==
    /\ now = 0
    /\ version = 0
    /\ data = [k \in Keys |-> None]
    /\ pc = [c \in Calls |-> "idle"]
    /\ arg = [c \in Calls |-> None]
    /\ draft = [c \in Calls |-> None]
    /\ copy = [c \in Calls |-> None]
    /\ seen = [c \in Calls |-> 0]
    /\ looked = [c \in Calls |-> 0]
    /\ wrote = [k \in Keys |-> 0]
    /\ log = {}

-----------------------------------------------------------------------------
(* Helpers on the state of a call.                                         *)

MyKey(c) == Key(arg[c].exec, arg[c].step)
Stored(c) == data[MyKey(c)]

NeverOverdue(r) == FALSE   \* a variant of Overdue: Get forgets the deadline
Overdue(r) == r.status = "pending" /\ now > r.expiresAt

Goto(c, p) == pc' = [pc EXCEPT ![c] = p]

(* The call no longer holds a record or a copy of the ConfigMap. *)
Drop(c) == /\ draft' = [draft EXCEPT ![c] = None]
           /\ copy' = [copy EXCEPT ![c] = None]

(* Where a Get without an open or decided request leads: Check answers     *)
(* pending and Execute submits a request; approve and deny fail.           *)
FailOpen(c) ==     \* a variant: what is not known to be denied may run
    IF arg[c].op = "execute" THEN "cleared" ELSE "rejected"
LookAgain(c) ==    \* a variant: Execute polls until there is a request
    IF arg[c].op = "execute" THEN "get" ELSE "rejected"
Undecided(c) == IF arg[c].op = "execute" THEN "stamp" ELSE "rejected"

(* Where a finished write leads.  Get ignores how its own write of         *)
(* "expired" ended; Create and the decisions report it.                    *)
Unheeded(c, ok) ==  \* a variant: the error of the write is dropped
    CASE draft[c].status = "expired" -> Undecided(c)
      [] draft[c].status = "pending" -> "pending"
      [] OTHER -> "ok"
AfterWrite(c, ok) ==
    CASE draft[c].status = "expired" -> Undecided(c)
      [] draft[c].status = "pending" -> IF ok THEN "pending" ELSE "failed"
      [] OTHER -> IF ok THEN "ok" ELSE "rejected"

-----------------------------------------------------------------------------
(* Arrival of a call.  Execute reaches this point with approval_required   *)
(* set, after its script and its image were accepted.                      *)
Start(c) ==
    /\ pc[c] = "idle"
    /\ \E a \in Arg : arg' = [arg EXCEPT ![c] = a]
    /\ Goto(c, "get")
    /\ UNCHANGED <<now, draft, copy, seen, looked, configMap>>

(* Store.Get finds no ConfigMap or no such key. *)
GetMissing(c) ==
    /\ pc[c] = "get"
    /\ Stored(c) = None
    /\ Goto(c, Undecided(c))
    /\ seen' = [seen EXCEPT ![c] = version]
    /\ UNCHANGED <<now, arg, draft, copy, looked, configMap>>

(* Store.Get fails for another reason; the callers do not tell the two     *)
(* apart.                                                                  *)
GetError(c) ==
    /\ pc[c] = "get"
    /\ Goto(c, Undecided(c))
    /\ UNCHANGED <<now, arg, draft, copy, seen, looked, configMap>>

(* Store.Get finds a pending request past its time and sets out to store   *)
(* it as expired.                                                          *)
GetOverdue(c) ==
    /\ pc[c] = "get"
    /\ Stored(c) # None
    /\ Overdue(Stored(c))
    /\ draft' = [draft EXCEPT ![c] = [Stored(c) EXCEPT !.status = "expired"]]
    /\ Goto(c, "fetch")
    /\ seen' = [seen EXCEPT ![c] = version]
    /\ looked' = [looked EXCEPT ![c] = now]
    /\ UNCHANGED <<now, arg, copy, configMap>>

(* Execute's Check on a request that Get returns as it is stored. *)
Check(c) ==
    /\ pc[c] = "get"
    /\ arg[c].op = "execute"
    /\ Stored(c) # None
    /\ ~Overdue(Stored(c))
    /\ Goto(c, CASE Stored(c).status = "approved" -> "cleared"
                 [] Stored(c).status = "denied" -> "failed"
                 [] OTHER -> "stamp")
    /\ seen' = [seen EXCEPT ![c] = version]
    /\ UNCHANGED <<now, arg, draft, copy, looked, configMap>>

(* Checker.Approve and Checker.Deny: whether the caller may decide r. *)
ByAnyone(r, user) == r.status = "pending"          \* a variant: no list
DecidedAgain(r, user) == Contains(r.approvers, user)  \* a variant: any status
Decidable(r, user) == r.status = "pending" /\ Contains(r.approvers, user)

Verdict(op) == IF op = "approve" THEN "approved" ELSE "denied"

Renewed(r, a) ==   \* a variant of Judged: a decision restarts the lifetime
    [r EXCEPT !.status = Verdict(a.op), !.by = a.user, !.at = now,
              !.expiresAt = now + Lifetime]
Judged(r, a) == [r EXCEPT !.status = Verdict(a.op), !.by = a.user, !.at = now]

Decide(c) ==
    /\ pc[c] = "get"
    /\ arg[c].op \in {"approve", "deny"}
    /\ Stored(c) # None
    /\ ~Overdue(Stored(c))
    /\ IF Decidable(Stored(c), arg[c].user)
       THEN /\ draft' = [draft EXCEPT ![c] = Stored(c)]
            /\ Goto(c, "judge")
       ELSE /\ Goto(c, "rejected")
            /\ UNCHANGED draft
    /\ seen' = [seen EXCEPT ![c] = version]
    /\ looked' = [looked EXCEPT ![c] = now]
    /\ UNCHANGED <<now, arg, copy, configMap>>

(* The decision is filled in, with a second reading of the clock. *)
Judge(c) ==
    /\ pc[c] = "judge"
    /\ draft' = [draft EXCEPT ![c] = Judged(draft[c], arg[c])]
    /\ Goto(c, "fetch")
    /\ UNCHANGED <<now, arg, copy, seen, looked, configMap>>

(* CreateRequest and the head of Store.Create: a new pending request. *)
Unmarked(a) ==     \* a variant: the status is left unset
    [exec |-> a.exec, step |-> a.step, script |-> a.script,
     approvers |-> IF a.approvers = {} THEN DefaultApprovers ELSE a.approvers,
     status |-> "", by |-> None, at |-> 0, expiresAt |-> now + Lifetime]
NewRequest(a) ==
    [exec |-> a.exec, step |-> a.step, script |-> a.script,
     approvers |-> IF a.approvers = {} THEN DefaultApprovers ELSE a.approvers,
     status |-> "pending", by |-> None, at |-> 0, expiresAt |-> now + Lifetime]

Stamp(c) ==
    /\ pc[c] = "stamp"
    /\ draft' = [draft EXCEPT ![c] = NewRequest(arg[c])]
    /\ Goto(c, "open")
    /\ UNCHANGED <<now, arg, copy, seen, looked, configMap>>

(* A successful read of the ConfigMap for writing, in getOrCreate or in    *)
(* Update.                                                                 *)
Fetch(c) ==
    /\ pc[c] \in {"open", "fetch"}
    /\ version > 0
    /\ copy' = [copy EXCEPT ![c] = [version |-> version, data |-> data]]
    /\ Goto(c, "store")
    /\ UNCHANGED <<now, arg, draft, seen, looked, configMap>>

(* getOrCreate creates the ConfigMap after any error of its read. *)
OpenFails(c) ==
    /\ pc[c] = "open"
    /\ Goto(c, "make")
    /\ UNCHANGED <<now, arg, draft, copy, seen, looked, configMap>>

(* Update gives up when its read fails. *)
FetchFails(c) ==
    /\ pc[c] = "fetch"
    /\ Goto(c, AfterWrite(c, FALSE))
    /\ Drop(c)
    /\ UNCHANGED <<now, arg, seen, looked, configMap>>

(* The API server creates an empty ConfigMap unless there is one. *)
Make(c) ==
    /\ pc[c] = "make"
    /\ version = 0
    /\ version' = 1
    /\ copy' = [copy EXCEPT ![c] = [version |-> 1, data |-> data]]
    /\ Goto(c, "store")
    /\ UNCHANGED <<now, data, arg, draft, seen, looked, wrote, log>>

(* The creation is refused or fails, or its reply is lost. *)
MakeFails(c) ==
    /\ pc[c] = "make"
    /\ \/ UNCHANGED version
       \/ version = 0 /\ version' = 1
    /\ Goto(c, "failed")
    /\ Drop(c)
    /\ UNCHANGED <<now, data, arg, seen, looked, wrote, log>>

AnyVersion(c) == TRUE   \* a variant: the version is not sent along
Current(c) == copy[c].version = version

(* The API server replaces the ConfigMap if it is still at the version     *)
(* that was read; the reply may be lost.                                   *)
Put(c) ==
    /\ pc[c] = "store"
    /\ Current(c)
    /\ version' = version + 1
    /\ data' = [copy[c].data EXCEPT ![KeyOf(draft[c])] = draft[c]]
    /\ wrote' = [wrote EXCEPT ![KeyOf(draft[c])] = version + 1]
    /\ log' = log \union {[call |-> c, rec |-> draft[c]]}
    /\ \E ok \in BOOLEAN : Goto(c, AfterWrite(c, ok))
    /\ seen' = [seen EXCEPT ![c] = version + 1]
    /\ Drop(c)
    /\ UNCHANGED <<now, arg, looked>>

(* The replacement conflicts with a newer version, or fails. *)
PutFails(c) ==
    /\ pc[c] = "store"
    /\ Goto(c, AfterWrite(c, FALSE))
    /\ Drop(c)
    /\ UNCHANGED <<now, arg, seen, looked, configMap>>

(* The replica that handles the call stops.  Nothing local survives. *)
Crash(c) ==
    /\ pc[c] \in Running
    /\ Goto(c, "crashed")
    /\ Drop(c)
    /\ UNCHANGED <<now, arg, seen, looked, configMap>>

Tick ==
    /\ now < MaxTime
    /\ now' = now + 1
    /\ UNCHANGED <<pc, arg, draft, copy, seen, looked, configMap>>

-----------------------------------------------------------------------------
Proceed(c) == \/ GetMissing(c) \/ GetError(c) \/ GetOverdue(c) \/ Check(c) \/ Decide(c)
              \/ Judge(c) \/ Stamp(c) \/ Fetch(c) \/ OpenFails(c) \/ FetchFails(c)
              \/ Make(c) \/ MakeFails(c) \/ Put(c) \/ PutFails(c)

Next == Tick \/ \E c \in Calls : Start(c) \/ Proceed(c) \/ Crash(c)

Spec == Init /\ [][Next]_vars

-----------------------------------------------------------------------------
(* Safety.                                                                 *)

(* Every decision in the ConfigMap was made by a user on the approver list *)
(* of the very request it is attached to, and the call that stored it was  *)
(* made by that user: a late whole-record write never pins one approver's  *)
(* name on a request that approver did not decide (Approve, Deny, Update). *)
DecisionsAuthorised ==
    \A k \in Keys : data[k] # None /\ Decided(data[k]) =>
        /\ Contains(data[k].approvers, data[k].by)
        /\ \E e \in log : /\ e.rec = data[k]
                          /\ arg[e.call].op \in {"approve", "deny"}
                          /\ arg[e.call].user = data[k].by

(* A decision answers a request that was submitted, word for word: the     *)
(* script, the approver list and the deadline under an approval are those  *)
(* some Execute call asked for, whatever was written in between (Update    *)
(* stores the record Get returned).                                        *)
DecisionsFaithful ==
    \A k \in Keys : data[k] # None =>
        /\ KeyOf(data[k]) = k
        /\ \E e \in log : e.rec = Request(data[k]) /\ arg[e.call].op = "execute"

(* A decision is only ever stored by a call that looked its request up in  *)
(* time, and an expiry by one that looked it up after its time, however    *)
(* long these calls then took and whoever wrote in between: whatever lands *)
(* last, no approver who came too late decides (Get).  Nothing more holds: *)
(* the time that is recorded is a later reading of the clock, and the      *)
(* write is later still, so that both may lie after the request's time.    *)
DecisionsInTime ==
    \A e \in log :
        /\ Decided(e.rec) => looked[e.call] <= e.rec.expiresAt /\ looked[e.call] <= e.rec.at
        /\ e.rec.status = "expired" => e.rec.expiresAt < looked[e.call]

(* An Execute call goes on to run its script only if an approval was       *)
(* stored under its key at some time: no failed lookup, expired request or *)
(* lost reply lets it through (Check, Manager.Execute).                    *)
ClearedByApproval ==
    \A c \in Calls : pc[c] = "cleared" =>
        \E e \in log : KeyOf(e.rec) = MyKey(c) /\ e.rec.status = "approved"

(* A stored decision is replaced only by a call that looked its key up     *)
(* before that decision was stored, or whose lookup failed: a call that    *)
(* read the decision never overturns it, however long it then takes and    *)
(* whatever it stored itself on the way (Get, Check, Approve, Deny).       *)
FinalUnlessOverlapped ==
    [][\A k \in Keys :
         data[k] # None /\ Decided(data[k]) /\ data'[k] # data[k] =>
            \E c \in Calls : /\ pc[c] = "store" /\ pc'[c] # "store"
                             /\ MyKey(c) = k
                             /\ seen[c] < wrote[k]]_vars

(* An answer tells what the call did: PENDING is only given for a request, *)
(* and 200 for a decision, that this call stored as it was asked to; and a *)
(* call stores at most one of either, whatever expiry it writes and        *)
(* whatever fails or loses its reply on the way (Create, Update, Approve,  *)
(* Deny).                                                                  *)
Accounted ==
    /\ \A c \in Calls :
          /\ pc[c] = "pending" => \E e \in log :
                /\ e.call = c /\ e.rec.status = "pending"
                /\ e.rec.exec = arg[c].exec /\ e.rec.step = arg[c].step
                /\ e.rec.script = arg[c].script
          /\ pc[c] = "ok" => \E e \in log :
                /\ e.call = c /\ e.rec.status = Verdict(arg[c].op)
                /\ e.rec.by = arg[c].user /\ KeyOf(e.rec) = MyKey(c)
    /\ \A e, f \in log :
          e.call = f.call /\ e.rec.status # "expired" /\ f.rec.status # "expired" => e = f

(* The requests that Execute calls have stored so far. *)
Submitted == {r \in Requests : \E e \in log : e.rec = r}

Register == INSTANCE ApprovalRegister WITH register <- data, submitted <- Submitted

(* The ConfigMap with its versions behaves as a register of requests that  *)
(* are submitted, settled and expired one key at a time: no write is lost  *)
(* to a neighbouring key although every call replaces the whole map        *)
(* (getOrCreate, Create, Update).                                          *)
RefinesRegister == Register!RegSpec

-----------------------------------------------------------------------------
(* Fairness and liveness.                                                  *)

(* A handler that is running goes on: every API request returns.  Nothing  *)
(* is assumed of arrivals, of crashes or of the clock.                     *)
FairSpec == Spec /\ \A c \in Calls : WF_vars(Proceed(c))

(* Every call is answered, even when Get stores an expiry on the way and   *)
(* every write conflicts: no handler waits for another one (Get, Create,   *)
(* Update make one attempt each).                                          *)
CallsAnswered == \A c \in Calls : pc[c] # "idle" ~> pc[c] \in Answered

=============================================================================
