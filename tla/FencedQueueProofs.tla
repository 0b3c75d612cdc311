-------------------------- MODULE FencedQueueProofs --------------------------
(* What a fenced queue guarantees, proved once for every queue that         *)
(* implements it.  The proofs of the three queues instantiate this module   *)
(* with their refinement mappings and inherit its theorems.                 *)
EXTENDS FencedQueue, TLAPS

TypeOK ==
    /\ status \in [Jobs -> {"none", "waiting", "taken", "gone"} \cup Settled]
    /\ epoch \in [Jobs -> Nat]
    /\ claim \in [Workers -> Claims \cup {NoClaim}]

(* A claim counts up to its job's epoch, and a job that is taken has been   *)
(* taken before.                                                            *)
ClaimsCount ==
    /\ \A w \in Workers : claim[w] # NoClaim =>
           claim[w] \in Claims /\ claim[w].epoch \in 1..epoch[claim[w].job]
    /\ \A j \in Jobs : status[j] = "taken" => epoch[j] > 0

(* Every claim was made once. *)
ClaimsDistinct ==
    \A v, w \in Workers : claim[v] = claim[w] /\ claim[w] # NoClaim => v = w

IInv == TypeOK /\ ClaimsCount /\ ClaimsDistinct

-----------------------------------------------------------------------------
(* A new claim has an epoch that no claim had before. *)
LEMMA TakeIsNew ==
    ASSUME IInv, NEW w \in Workers, NEW j \in Jobs, NEW R \in SUBSET Jobs, Take(w, j, R)
    PROVE  IInv'
  <1> DEFINE new == [job |-> j, epoch |-> epoch[j] + 1]
  <1>1. new \in Claims /\ new # NoClaim /\ \A v \in Workers : claim[v] # new
    BY DEF IInv, TypeOK, ClaimsCount, Claims, NoClaim
  <1>2. TypeOK'
    BY <1>1 DEF Take, IInv, TypeOK, Settled, NoClaim
  <1>3. ClaimsCount'
    BY <1>1 DEF Take, IInv, TypeOK, ClaimsCount, Claims, NoClaim
  <1>4. ClaimsDistinct'
    BY <1>1 DEF Take, IInv, TypeOK, ClaimsDistinct, NoClaim
  <1> QED
    BY <1>2, <1>3, <1>4 DEF IInv

(* Claims are made by Take alone, and epochs only grow. *)
LEMMA NextIInv == IInv /\ [Next]_vars => IInv'
  <1> SUFFICES ASSUME IInv, [Next]_vars PROVE IInv'
    OBVIOUS
  <1> USE DEF IInv, TypeOK, ClaimsCount, ClaimsDistinct, Claims, NoClaim, Settled
  <1>1. ASSUME NEW j \in Jobs, Submit(j) PROVE IInv'
    BY <1>1 DEF Submit
  <1>2. ASSUME NEW R \in SUBSET Jobs, NEW F \in SUBSET Jobs, Maintain(R, F) PROVE IInv'
    BY <1>2 DEF Maintain
  <1>3. ASSUME NEW w \in Workers, NEW outcome \in Settled \cup {"waiting"}, Settle(w, outcome)
        PROVE  IInv'
    BY <1>3 DEF Settle, Current
  <1>4. ASSUME NEW w \in Workers, Drop(w) PROVE IInv'
    BY <1>4 DEF Drop
  <1>5. ASSUME UNCHANGED vars PROVE IInv'
    BY <1>5 DEF vars
  <1> QED
    BY <1>1, <1>2, <1>3, <1>4, <1>5, TakeIsNew DEF Next

(* At first there are no claims. *)
LEMMA InitIInv == Init => IInv
  BY DEF Init, IInv, TypeOK, ClaimsCount, ClaimsDistinct, NoClaim, Settled

(* A claim is unique, and not newer than its job's epoch. *)
THEOREM Invariance == Spec => []IInv
  BY InitIInv, NextIInv, PTL DEF Spec

-----------------------------------------------------------------------------
(* Two workers never have a current claim of one job: it would be the same *)
(* claim, and every claim was made once.                                   *)
THEOREM ClaimIsExclusive == Spec => []OneCurrentClaim
  <1>1. IInv => OneCurrentClaim
    BY DEF IInv, TypeOK, ClaimsCount, ClaimsDistinct, OneCurrentClaim, Current, Claims, NoClaim
  <1> QED
    BY <1>1, Invariance, PTL

(* Whatever happens to a job whose claim was lost, taking it again, a late *)
(* settlement, deletion: the claim stays lost.                             *)
LEMMA NextLost == IInv /\ [Next]_vars => LostStaysLost
  <1> SUFFICES ASSUME IInv, [Next]_vars, NEW v \in Workers,
                      claim'[v] = claim[v], Current(v)'
               PROVE  Current(v)
    BY DEF LostStaysLost
  <1> USE DEF IInv, TypeOK, ClaimsCount, Claims, NoClaim, Current
  <1>1. ASSUME NEW j \in Jobs, Submit(j) PROVE Current(v)
    BY <1>1 DEF Submit
  <1>2. ASSUME NEW w \in Workers, NEW j \in Jobs, NEW R \in SUBSET Jobs, Take(w, j, R)
        PROVE  Current(v)
    BY <1>2 DEF Take
  <1>3. ASSUME NEW R \in SUBSET Jobs, NEW F \in SUBSET Jobs, Maintain(R, F)
        PROVE  Current(v)
    BY <1>3 DEF Maintain
  <1>4. ASSUME NEW w \in Workers, NEW outcome \in Settled \cup {"waiting"}, Settle(w, outcome)
        PROVE  Current(v)
    BY <1>4 DEF Settle, Settled
  <1>5. ASSUME (\E w \in Workers : Drop(w)) \/ UNCHANGED vars PROVE Current(v)
    BY <1>5 DEF Drop, vars
  <1> QED
    BY <1>1, <1>2, <1>3, <1>4, <1>5 DEF Next

(* A worker that has lost its claim does not get it back. *)
THEOREM LostClaimStaysLost == Spec => [][LostStaysLost]_vars
  BY Invariance, NextLost, PTL DEF Spec

(* A step that settles, takes or takes back a job finds it unsettled; only *)
(* deletion finds it settled.                                              *)
LEMMA NextSettled == IInv /\ [Next]_vars => SettledStays
  <1> SUFFICES ASSUME IInv, [Next]_vars PROVE SettledStays
    OBVIOUS
  <1> USE DEF IInv, TypeOK, SettledStays, Settled
  <1>1. ASSUME NEW w \in Workers, NEW outcome \in Settled \cup {"waiting"}, Settle(w, outcome)
        PROVE  SettledStays
    BY <1>1 DEF Settle, Current
  <1>2. ASSUME NEW w \in Workers, NEW j \in Jobs, NEW R \in SUBSET Jobs, Take(w, j, R)
        PROVE  SettledStays
    BY <1>2 DEF Take
  <1>3. ASSUME NEW R \in SUBSET Jobs, NEW F \in SUBSET Jobs, Maintain(R, F)
        PROVE  SettledStays
    BY <1>3 DEF Maintain
  <1>4. ASSUME (\E j \in Jobs : Submit(j)) \/ (\E w \in Workers : Drop(w)) \/ UNCHANGED vars
        PROVE  SettledStays
    BY <1>4 DEF Submit, Drop, vars
  <1> QED
    BY <1>1, <1>2, <1>3, <1>4 DEF Next

(* A settled job stays as it was settled, until it is deleted. *)
THEOREM SettledJobStays == Spec => [][SettledStays]_vars
  BY Invariance, NextSettled, PTL DEF Spec
=============================================================================
