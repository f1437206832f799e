-------------------------- MODULE ApprovalRequests --------------------------
(***************************************************************************)
(* Approval requests as values: what a request records, the ConfigMap key  *)
(* it is stored under and who may decide it.  ApprovalRegister and         *)
(* Approval are both stated over these.                                    *)
(***************************************************************************)
EXTENDS Naturals, Sequences

CONSTANTS
    Executions,       \* execution ids, as the sequence of their "-"-separated parts
    Steps,            \* step names, in the same form
    Scripts,          \* script contents (and so their hashes)
    Users,            \* names of approvers, in the case they were written
    Fold,             \* Fold[u] is the case-folded form of u
    Times,            \* instants of the clock
    None              \* no record, no user, no arguments

ASSUME ExecutionsAssumption == Executions \subseteq Seq(STRING) /\ Steps \subseteq Seq(STRING)
ASSUME FoldAssumption == DOMAIN Fold = Users
ASSUME TimesAssumption == Times \subseteq Nat /\ 0 \in Times

-----------------------------------------------------------------------------
(* The ConfigMap key "<execution id>-<step name>".  Joining with "-" is    *)
(* concatenation of the parts, so different pairs can have the same key.   *)
Key(e, s) == e \o s
Keys == {Key(e, s) : e \in Executions, s \in Steps}

Statuses == {"pending", "approved", "denied", "expired"}

(* A request as stored: "by" and "at" stand for approved_by/approved_at or *)
(* denied_by/denied_at.                                                    *)
Record == [exec : Executions, step : Steps, script : Scripts,
           approvers : SUBSET Users, status : Statuses,
           by : Users \union {None}, at : Times, expiresAt : Times]

(* A record as CreateRequest and Store.Create fill it in. *)
Requests == [exec : Executions, step : Steps, script : Scripts,
             approvers : SUBSET Users, status : {"pending"},
             by : {None}, at : {0}, expiresAt : Times]

KeyOf(r) == Key(r.exec, r.step)

(* Membership in the approver list ignores case. *)
Contains(approvers, user) == \E a \in approvers : Fold[a] = Fold[user]

(* The request that a decided or expired record answers: Update writes the *)
(* whole record back and changes only these fields.                        *)
Request(r) == [r EXCEPT !.status = "pending", !.by = None, !.at = 0]

Decided(r) == r.status \in {"approved", "denied"}

=============================================================================
