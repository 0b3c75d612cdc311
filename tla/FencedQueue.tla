---------------------------- MODULE FencedQueue ----------------------------
(***************************************************************************)
(* What every background queue of Agent4K promises about one job: it is    *)
(* submitted once, taken by one worker at a time, may be taken back when   *)
(* the worker's lease expires, and is settled only by a worker whose claim *)
(* is the latest one.  A settled job never changes again, until it is      *)
(* deleted.                                                                *)
(*                                                                         *)
(* The code identifies a claim in different ways (a worker_id, an          *)
(* attempt_token); here it is the number of times the job has been taken,  *)
(* its epoch.  The queue modules implement this one.                       *)
(***************************************************************************)
EXTENDS Naturals

CONSTANTS Jobs, Workers

VARIABLES
    status,  \* job -> where it is in its life
    epoch,   \* job -> how many times it has been taken
    claim    \* worker -> the claim it works under, or NoClaim

vars == <<status, epoch, claim>>

Claims == [job : Jobs, epoch : Nat]
NoClaim == [job |-> 0, epoch |-> 0]
Settled == {"done", "failed"}

Init ==
    /\ status = [j \in Jobs |-> "none"]
    /\ epoch = [j \in Jobs |-> 0]
    /\ claim = [w \in Workers |-> NoClaim]

(* The claim of w is the latest one of its job and has not been revoked. *)
Current(w) ==
    /\ claim[w].job \in Jobs
    /\ status[claim[w].job] = "taken"
    /\ epoch[claim[w].job] = claim[w].epoch

Submit(j) ==
    /\ status[j] = "none"
    /\ status' = [status EXCEPT ![j] = "waiting"]
    /\ UNCHANGED <<epoch, claim>>

(* Taking j; the jobs of R, whose leases expired, are taken back before. *)
Take(w, j, R) ==
    /\ claim[w] = NoClaim
    /\ \A i \in R : status[i] = "taken"
    /\ status[j] = "waiting" \/ j \in R
    /\ status' = [i \in Jobs |->
           IF i = j THEN "taken" ELSE IF i \in R THEN "waiting" ELSE status[i]]
    /\ epoch' = [epoch EXCEPT ![j] = @ + 1]
    /\ claim' = [claim EXCEPT ![w] = [job |-> j, epoch |-> epoch[j] + 1]]

(* Maintenance takes the jobs of R back, whose leases expired, and deletes *)
(* those of F, which were settled long ago.                                *)
Maintain(R, F) ==
    /\ \A j \in R : status[j] = "taken"
    /\ \A j \in F : status[j] \in Settled
    /\ status' = [j \in Jobs |->
           IF j \in R THEN "waiting" ELSE IF j \in F THEN "gone" ELSE status[j]]
    /\ UNCHANGED <<epoch, claim>>

Settle(w, outcome) ==
    /\ Current(w)
    /\ status' = [status EXCEPT ![claim[w].job] = outcome]
    /\ claim' = [claim EXCEPT ![w] = NoClaim]
    /\ UNCHANGED epoch

(* A worker forgets its claim: it crashed, or found that it had lost it. *)
Drop(w) ==
    /\ claim' = [claim EXCEPT ![w] = NoClaim]
    /\ UNCHANGED <<status, epoch>>

Next ==
    \/ \E j \in Jobs : Submit(j)
    \/ \E w \in Workers, j \in Jobs, R \in SUBSET Jobs : Take(w, j, R)
    \/ \E R, F \in SUBSET Jobs : Maintain(R, F)
    \/ \E w \in Workers, outcome \in Settled \cup {"waiting"} : Settle(w, outcome)
    \/ \E w \in Workers : Drop(w)

Spec == Init /\ [][Next]_vars

-----------------------------------------------------------------------------
(* What follows for every queue that implements this one. *)

(* A worker that has lost its claim (its lease was taken back, and perhaps *)
(* the job was taken again, settled or deleted) does not get it back.      *)
LostStaysLost == \A w \in Workers : claim'[w] = claim[w] /\ ~Current(w) => ~Current(w)'

(* What is settled is neither taken again nor settled differently; it can  *)
(* only be deleted, and then stays away.                                   *)
SettledStays == \A j \in Jobs :
    /\ status[j] \in Settled => status'[j] \in {status[j], "gone"}
    /\ status[j] = "gone" => status'[j] = "gone"

(* At no time do two workers have a current claim of one job. *)
OneCurrentClaim == \A v, w \in Workers :
    Current(v) /\ Current(w) /\ claim[v].job = claim[w].job => v = w

=============================================================================
