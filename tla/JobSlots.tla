------------------------------ MODULE JobSlots ------------------------------
(***************************************************************************)
(* What naming Jobs after their execution promises, without Jobs, watches  *)
(* or answers: a name is a slot that one call at a time holds.  A call     *)
(* takes a slot at most once, its script runs only while it holds it, and  *)
(* the slot is given back only when the script has stopped.                *)
(***************************************************************************)
CONSTANTS Calls, Names, None

VARIABLES
    holder,    \* the call that holds each slot, or None
    used,      \* the calls that took a slot so far
    running    \* the calls whose script is running

slotvars == <<holder, used, running>>

SlotInit ==
    /\ holder = [n \in Names |-> None]
    /\ used = {}
    /\ running = {}

Take(n, c) ==
    /\ holder[n] = None /\ c \notin used
    /\ holder' = [holder EXCEPT ![n] = c]
    /\ used' = used \union {c}
    /\ UNCHANGED running

Run(n) ==
    /\ holder[n] # None
    /\ running' = running \union {holder[n]}
    /\ UNCHANGED <<holder, used>>

Stop(n) ==
    /\ running' = running \ {holder[n]}
    /\ UNCHANGED <<holder, used>>

Release(n) ==
    /\ holder[n] \notin running
    /\ holder' = [holder EXCEPT ![n] = None]
    /\ UNCHANGED <<used, running>>

SlotNext == \E n \in Names : (\E c \in Calls : Take(n, c)) \/ Run(n) \/ Stop(n) \/ Release(n)

SlotSpec == SlotInit /\ [][SlotNext]_slotvars

(* Whoever is running holds exactly one slot, so no two of one execution   *)
(* run at once (job_builder.go, the name of the Job).                      *)
SlotsExclusive ==
    \A c \in running : \E n \in Names :
        /\ holder[n] = c
        /\ \A m \in Names : holder[m] = c => m = n

=============================================================================
