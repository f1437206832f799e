-------------------------- MODULE ApprovalRegister --------------------------
(***************************************************************************)
(* What the approval store promises, without ConfigMaps, versions, copies  *)
(* or calls: one request per key, changed one key at a time.  A decision   *)
(* or an expiry may land late, after the request it answers has been       *)
(* replaced, but it is always about a request that was really submitted,   *)
(* and it carries that request unchanged.                                  *)
(***************************************************************************)
EXTENDS ApprovalRequests

VARIABLES
    register,   \* the record under each key, or None
    submitted   \* the requests submitted so far

regvars == <<register, submitted>>

RegTypeOK == /\ register \in [Keys -> Record \union {None}]
             /\ submitted \subseteq Requests

RegInit == /\ register = [k \in Keys |-> None]
           /\ submitted = {}

Replace(r) == register' = [register EXCEPT ![KeyOf(r)] = r]

(* A new request replaces whatever its key held. *)
Submit(r) ==
    /\ r \in Requests
    /\ Replace(r)
    /\ submitted' = submitted \union {r}

(* An approver of r, a submitted request, decides it.  (The store does not *)
(* promise that the time it records is in time: it is read after the test.)*)
Settle(r, verdict, user, at) ==
    /\ r \in submitted
    /\ Contains(r.approvers, user)
    /\ Replace([r EXCEPT !.status = verdict, !.by = user, !.at = at])
    /\ UNCHANGED submitted

(* A submitted request is given up. *)
Expire(r) ==
    /\ r \in submitted
    /\ Replace([r EXCEPT !.status = "expired"])
    /\ UNCHANGED submitted

RegNext == \/ \E r \in Requests : Submit(r)
           \/ \E r \in submitted, verdict \in {"approved", "denied"}, user \in Users :
                 \E at \in Times : Settle(r, verdict, user, at)
           \/ \E r \in submitted : Expire(r)

RegSpec == RegInit /\ [][RegNext]_regvars

(* Whatever the store holds is a submitted request, or the answer to one   *)
(* that an approver of that request gave: nothing is invented,             *)
(* re-attributed or moved to another key (store.go, Get and Update).       *)
RegSound ==
    \A k \in Keys : register[k] # None =>
        /\ KeyOf(register[k]) = k
        /\ Request(register[k]) \in submitted
        /\ Decided(register[k]) => Contains(register[k].approvers, register[k].by)

=============================================================================
