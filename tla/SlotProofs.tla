----------------------------- MODULE SlotProofs -----------------------------
(***************************************************************************)
(* Slots are exclusive, for every set of calls and of names.               *)
(***************************************************************************)
EXTENDS JobSlots, TLAPS

(* Every holder is among the calls that took a slot, holds one slot only,  *)
(* and whoever runs is a holder.                                           *)
SlotInv ==
    /\ DOMAIN holder = Names
    /\ \A n \in Names : holder[n] # None => holder[n] \in used
    /\ \A m, n \in Names : holder[m] = holder[n] /\ holder[n] # None => m = n
    /\ \A c \in running : c # None /\ \E n \in Names : holder[n] = c

LEMMA SlotNextInv ==
    ASSUME SlotInv, [SlotNext]_slotvars, None \notin Calls
    PROVE  SlotInv'
  <1> USE DEF SlotInv
  <1>1. ASSUME NEW n \in Names, NEW c \in Calls, Take(n, c) PROVE SlotInv'
    <2>1. holder'[n] = c /\ \A m \in Names : m # n => holder'[m] = holder[m]
      BY <1>1 DEF Take
    <2>2. \A d \in running : \E m \in Names : m # n /\ holder[m] = d
      BY <1>1 DEF Take
    <2>3. QED
      BY <1>1, <2>1, <2>2 DEF Take
  <1>2. ASSUME NEW n \in Names, Run(n) PROVE SlotInv'
    BY <1>2 DEF Run
  <1>3. ASSUME NEW n \in Names, Stop(n) PROVE SlotInv'
    BY <1>3 DEF Stop
  <1>4. ASSUME NEW n \in Names, Release(n) PROVE SlotInv'
    <2>1. holder'[n] = None /\ \A m \in Names : m # n => holder'[m] = holder[m]
      BY <1>4 DEF Release
    <2>2. \A d \in running : \E m \in Names : m # n /\ holder[m] = d
      BY <1>4 DEF Release
    <2>3. QED
      BY <1>4, <2>1, <2>2 DEF Release
  <1>5. CASE UNCHANGED slotvars
    BY <1>5 DEF slotvars
  <1>6. QED
    BY <1>1, <1>2, <1>3, <1>4, <1>5 DEF SlotNext

(* Whoever is running holds exactly one slot (job_builder.go, the name of  *)
(* the Job).                                                               *)
THEOREM Exclusive ==
    ASSUME None \notin Calls
    PROVE  SlotSpec => []SlotsExclusive
  <1>1. SlotInit => SlotInv
    BY DEF SlotInit, SlotInv
  <1>2. SlotInv => SlotsExclusive
    BY DEF SlotInv, SlotsExclusive
  <1>3. SlotInv /\ [SlotNext]_slotvars => SlotInv'
    BY SlotNextInv
  <1>4. QED
    BY <1>1, <1>2, <1>3, PTL DEF SlotSpec

=============================================================================
