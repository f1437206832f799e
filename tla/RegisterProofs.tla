--------------------------- MODULE RegisterProofs ---------------------------
(***************************************************************************)
(* What the approval store promises is sound, for every set of executions, *)
(* steps, scripts, users and times.                                        *)
(***************************************************************************)
EXTENDS ApprovalRegister, TLAPS

(* A request as submitted answers itself, and is not decided.              *)
LEMMA NewRequestFacts ==
    ASSUME NEW r \in Requests
    PROVE  Request(r) = r /\ ~Decided(r)
  BY DEF Requests, Request, Decided

-----------------------------------------------------------------------------
(* What RegSound says of one key; the domain of the register and the type  *)
(* of what was submitted complete the inductive invariant.                 *)
SoundAt(k, r, S) ==
    /\ KeyOf(r) = k
    /\ Request(r) \in S
    /\ Decided(r) => Contains(r.approvers, r.by)

RegInv == /\ DOMAIN register = Keys
          /\ submitted \subseteq Requests
          /\ RegSound

(* A step that replaces one record by a sound one, and forgets no request, *)
(* preserves the invariant.                                                *)
LEMMA ReplaceSound ==
    ASSUME RegInv, NEW s, Replace(s),
           submitted \subseteq submitted', submitted' \subseteq Requests,
           SoundAt(KeyOf(s), s, submitted')
    PROVE  RegInv'
  <1>1. DOMAIN register' = Keys
    BY DEF RegInv, Replace
  <1>2. ASSUME NEW k \in Keys, register'[k] # None
        PROVE  SoundAt(k, register'[k], submitted')
    <2>1. CASE k = KeyOf(s)
      BY <2>1 DEF Replace, RegInv
    <2>2. CASE k # KeyOf(s)
      <3>1. register'[k] = register[k]
        BY <2>2 DEF Replace, RegInv
      <3>2. SoundAt(k, register[k], submitted)
        BY <1>2, <3>1 DEF RegInv, RegSound, SoundAt
      <3>3. QED
        BY <3>1, <3>2 DEF SoundAt
    <2>3. QED
      BY <2>1, <2>2
  <1>3. RegSound'
    BY <1>2 DEF RegSound, SoundAt
  <1>4. QED
    BY <1>1, <1>3 DEF RegInv

LEMMA RegNextInv == RegInv /\ [RegNext]_regvars => RegInv'
  <1> SUFFICES ASSUME RegInv, [RegNext]_regvars PROVE RegInv'
    OBVIOUS
  <1>1. ASSUME NEW r \in Requests, Submit(r) PROVE RegInv'
    <2>1. SoundAt(KeyOf(r), r, submitted')
      BY <1>1, NewRequestFacts DEF Submit, SoundAt
    <2>2. QED
      BY <1>1, <2>1, ReplaceSound DEF Submit, RegInv
  <1>2. ASSUME NEW r \in submitted, NEW verdict \in {"approved", "denied"},
               NEW user \in Users, NEW at \in Times, Settle(r, verdict, user, at)
        PROVE  RegInv'
    <2> DEFINE s == [r EXCEPT !.status = verdict, !.by = user, !.at = at]
    <2>1. r \in Requests
      BY DEF RegInv
    <2>2. /\ KeyOf(s) = KeyOf(r)
          /\ Request(s) = r
          /\ s.approvers = r.approvers /\ s.by = user
      BY <2>1 DEF Requests, KeyOf, Request
    <2>3. Replace(s) /\ submitted' = submitted
      BY <1>2 DEF Settle
    <2>4. Contains(s.approvers, s.by)
      BY <1>2, <2>2 DEF Settle
    <2> HIDE DEF s
    <2>5. SoundAt(KeyOf(s), s, submitted')
      BY <2>2, <2>3, <2>4 DEF SoundAt
    <2>6. QED
      BY <2>3, <2>5, ReplaceSound DEF RegInv
  <1>3. ASSUME NEW r \in submitted, Expire(r) PROVE RegInv'
    <2> DEFINE s == [r EXCEPT !.status = "expired"]
    <2>1. r \in Requests
      BY DEF RegInv
    <2>2. KeyOf(s) = KeyOf(r) /\ Request(s) = r /\ ~Decided(s)
      BY <2>1 DEF Requests, KeyOf, Request, Decided
    <2>3. Replace(s) /\ submitted' = submitted
      BY <1>3 DEF Expire
    <2> HIDE DEF s
    <2>4. SoundAt(KeyOf(s), s, submitted')
      BY <2>2, <2>3 DEF SoundAt
    <2>5. QED
      BY <2>3, <2>4, ReplaceSound DEF RegInv
  <1>4. ASSUME UNCHANGED regvars PROVE RegInv'
    BY <1>4 DEF regvars, RegInv, RegSound
  <1>5. QED
    BY <1>1, <1>2, <1>3, <1>4 DEF RegNext

(* Whatever the store holds is a submitted request, or an answer to one    *)
(* that an approver of that request gave (store.go, checker.go).           *)
THEOREM Soundness == RegSpec => []RegSound
  <1>1. RegInit => RegInv
    BY DEF RegInit, RegInv, RegSound
  <1>2. RegInv => RegSound
    BY DEF RegInv
  <1>3. QED
    BY <1>1, <1>2, RegNextInv, PTL DEF RegSpec

=============================================================================
