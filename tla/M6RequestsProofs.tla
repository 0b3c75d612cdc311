--------------------------- MODULE M6RequestsProofs ---------------------------
(* Theorems about the processing requests of M6, for every set of requests, *)
(* of threads, and every bound of the attempts.                             *)
EXTENDS M6Requests, FiniteSetTheorems, TLAPS

(* The place that a new row takes is a number. *)
LEMMA PlaceIsNat ==
    ASSUME NEW S \in SUBSET Requests PROVE 1 + Cardinality(S) \in Nat
  BY RequestAssumption, FS_Subset, FS_CardinalityType

-----------------------------------------------------------------------------
(* The inductive invariant. *)

(* What the columns of one row say of each other. *)
RowOK(r) ==
    /\ \A n \in Attempts : attempt[r][n] = "none" <=> n > begun[r]
    /\ \A n \in Attempts : attempt[r][n] = "running" <=>
           status[r] = "running" /\ n = begun[r] /\ n = token[r]
    /\ status[r] = "running" => begun[r] # 0 /\ token[r] = begun[r]
    /\ status[r] # "running" => token[r] = 0 /\ ~live[r]
    /\ accepted[r] # 0 <=> status[r] = "succeeded"
    /\ accepted[r] # 0 =>
           accepted[r] = begun[r] /\ attempt[r][accepted[r]] = "succeeded"

(* A worker that makes an attempt makes it for a request. *)
JobOK(w) == job[w].request = NoRequest => job[w].attempt = 0

IInv ==
    /\ RequestsTypeOK
    /\ \A r \in Requests : RowOK(r)
    /\ \A w \in Workers : JobOK(w)

(* Without rows, nothing was begun. *)
LEMMA InitIInv == RequestsInit => IInv
  <1> SUFFICES ASSUME RequestsInit PROVE IInv
    OBVIOUS
  <1>1. 0 \in 0..MaxAttempts
    BY AttemptAssumption
  <1>2. RequestsTypeOK
    BY <1>1 DEF RequestsInit, RequestsTypeOK, NoJob
  <1>3. ASSUME NEW r \in Requests PROVE RowOK(r)
    BY AttemptAssumption DEF RequestsInit, RowOK, Attempts
  <1>4. ASSUME NEW w \in Workers PROVE JobOK(w)
    BY DEF RequestsInit, JobOK, NoJob
  <1> QED
    BY <1>2, <1>3, <1>4 DEF IInv

(* A worker's job is a request and an attempt of it. *)
LEMMA WorksOK ==
    ASSUME IInv, NEW w \in Workers, NEW r \in Requests, NEW n \in 0..MaxAttempts,
           Works(w, r, n)
    PROVE  /\ job' \in [Workers -> [request : Requests \cup {NoRequest},
                                    attempt : 0..MaxAttempts]]
           /\ \A v \in Workers : JobOK(v)'
  BY RequestAssumption DEF Works, IInv, RequestsTypeOK, JobOK

LEMMA IdlesOK ==
    ASSUME IInv, NEW w \in Workers, Idles(w)
    PROVE  /\ job' \in [Workers -> [request : Requests \cup {NoRequest},
                                    attempt : 0..MaxAttempts]]
           /\ \A v \in Workers : JobOK(v)'
  <1>1. 0 \in 0..MaxAttempts
    BY AttemptAssumption
  <1> QED
    BY <1>1 DEF Idles, NoJob, IInv, RequestsTypeOK, JobOK

(* A row that no column of changes stays as it should be. *)
LEMMA RowsStay ==
    ASSUME \A r \in Requests : RowOK(r),
           UNCHANGED <<status, begun, attempt, token, live, accepted>>
    PROVE  \A r \in Requests : RowOK(r)'
  BY DEF RowOK

LEMMA EnqueueIInv == ASSUME IInv, NEW r \in Requests, Enqueue(r) PROVE IInv'
  <1>1. 1 + Cardinality({q \in Requests : status[q] # "absent"}) \in Nat
    BY PlaceIsNat
  <1>2. RequestsTypeOK'
    BY <1>1 DEF IInv, Enqueue, Enqueued, RequestsTypeOK
  <1>3. ASSUME NEW q \in Requests PROVE RowOK(q)'
    BY DEF IInv, Enqueue, Enqueued, RequestsTypeOK, RowOK
  <1>4. ASSUME NEW w \in Workers PROVE JobOK(w)'
    BY DEF IInv, Enqueue, JobOK
  <1> QED
    BY <1>2, <1>3, <1>4 DEF IInv

(* The job of a worker that is not idle. *)
LEMMA JobTypes ==
    ASSUME IInv, NEW w \in Workers, ~Idle(w)
    PROVE  job[w].request \in Requests /\ job[w].attempt \in 0..MaxAttempts
  BY DEF IInv, RequestsTypeOK, Idle

LEMMA ClaimIInv == ASSUME IInv, NEW w \in Workers, Claim(w) PROVE IInv'
  <1> DEFINE r == job[w].request
             n == begun[r] + 1
  <1>1. r \in Requests
    BY JobTypes DEF Claim
  <1>2. n \in 1..MaxAttempts /\ n \in Attempts
    BY <1>1, AttemptAssumption DEF Claim, IInv, RequestsTypeOK, Attempts
  <1>3. status[r] # "succeeded" /\ accepted[r] = 0
    BY <1>1 DEF Claim, Claimable, Expired, IInv, RowOK
  <1>4. RequestsTypeOK'
    <2>1. job' \in [Workers -> [request : Requests \cup {NoRequest},
                                attempt : 0..MaxAttempts]]
      BY <1>1, <1>2, WorksOK DEF Claim
    <2>2. attempt' \in [Requests -> [Attempts ->
               {"none", "running", "expired", "succeeded", "failed"}]]
      BY <1>1 DEF Claim, IInv, RequestsTypeOK
    <2> QED
      BY <2>1, <2>2, <1>1, <1>2 DEF Claim, IInv, RequestsTypeOK
  <1>5. ASSUME NEW q \in Requests PROVE RowOK(q)'
    <2>1. CASE q # r
      BY <2>1, <1>1 DEF Claim, IInv, RequestsTypeOK, RowOK
    <2>2. CASE q = r
      <3>1. begun'[q] = n /\ token'[q] = n /\ status'[q] = "running"
        BY <2>2, <1>1 DEF Claim, IInv, RequestsTypeOK
      <3>2. accepted'[q] = 0
        BY <2>2, <1>3 DEF Claim
      <3>3. ASSUME NEW i \in Attempts
            PROVE  attempt'[q][i] = IF i = n THEN "running"
                                    ELSE IF attempt[q][i] = "running" THEN "expired"
                                    ELSE attempt[q][i]
        BY <2>2, <1>1 DEF Claim, IInv, RequestsTypeOK
      <3>4. ASSUME NEW i \in Attempts PROVE attempt'[q][i] = "none" <=> i > n
        <4>1. attempt[q][i] = "none" <=> i > begun[q]
          BY DEF IInv, RowOK
        <4>2. i \in Int /\ begun[q] \in Int /\ n = begun[q] + 1
          BY <2>2 DEF IInv, RequestsTypeOK, Attempts
        <4>3. CASE i = n
          BY <4>2, <4>3, <3>3
        <4>4. CASE i # n
          BY <4>1, <4>2, <4>4, <3>3
        <4> QED
          BY <4>3, <4>4
      <3>5. ASSUME NEW i \in Attempts PROVE attempt'[q][i] = "running" <=> i = n
        BY <3>3
      <3> QED
        BY <3>1, <3>2, <3>4, <3>5, <1>2 DEF RowOK, Attempts
    <2> QED
      BY <2>1, <2>2
  <1>6. \A v \in Workers : JobOK(v)'
    BY <1>1, <1>2, WorksOK DEF Claim
  <1> QED
    BY <1>4, <1>5, <1>6 DEF IInv

(* The attempt that settles is the newest one, and runs. *)
LEMMA SettlesNewest ==
    ASSUME IInv, NEW w \in Workers, NEW outcome, Settled(w, outcome)
    PROVE  /\ job[w].request \in Requests
           /\ job[w].attempt \in Attempts
           /\ status[job[w].request] = "running"
           /\ live[job[w].request]
           /\ job[w].attempt = begun[job[w].request]
           /\ attempt[job[w].request][job[w].attempt] = "running"
           /\ accepted[job[w].request] = 0
  <1>1. ~Idle(w)
    BY DEF IInv, JobOK, Settled, Idle
  <1>2. job[w].request \in Requests /\ job[w].attempt \in Attempts
    BY <1>1, JobTypes, AttemptAssumption DEF Settled, Attempts
  <1> QED
    BY <1>2 DEF Settled, Holds, IInv, RowOK

LEMMA SettledIInv ==
    ASSUME IInv, NEW w \in Workers, FinishSucceeded(w) \/ FinishFailed(w)
    PROVE  IInv'
  <1> DEFINE r == job[w].request
             n == job[w].attempt
  <1>0. PICK outcome \in {"succeeded", "failed"} :
           /\ Settled(w, outcome)
           /\ outcome = "failed" => UNCHANGED <<accepted, saved>>
           /\ outcome = "succeeded" =>
                /\ accepted' = [accepted EXCEPT ![r] = n]
                /\ saved' = [saved EXCEPT ![r] =
                       1 + Cardinality({q \in Requests : saved[q] # 0})]
    BY DEF FinishSucceeded, FinishFailed
  <1>1. /\ r \in Requests /\ n \in Attempts /\ status[r] = "running"
        /\ n = begun[r] /\ attempt[r][n] = "running" /\ accepted[r] = 0
    BY <1>0, SettlesNewest
  <1>2. 0 \in 0..MaxAttempts /\ n \in 0..MaxAttempts /\ n # 0
    BY <1>1, AttemptAssumption DEF Attempts
  <1>3. RequestsTypeOK'
    <2>1. 1 + Cardinality({q \in Requests : saved[q] # 0}) \in Nat
      BY PlaceIsNat
    <2>2. job' \in [Workers -> [request : Requests \cup {NoRequest},
                                attempt : 0..MaxAttempts]]
      BY <1>0, IdlesOK DEF Settled
    <2>3. /\ accepted' \in [Requests -> 0..MaxAttempts]
          /\ saved' \in [Requests -> Nat]
      BY <1>0, <1>2, <2>1 DEF IInv, RequestsTypeOK
    <2> QED
      BY <1>0, <1>1, <1>2, <2>2, <2>3 DEF Settled, IInv, RequestsTypeOK
  <1>4. ASSUME NEW q \in Requests PROVE RowOK(q)'
    <2>1. CASE q # r
      BY <2>1, <1>0, <1>1 DEF Settled, IInv, RequestsTypeOK, RowOK
    <2>2. CASE q = r
      <3>1. /\ status'[q] = outcome /\ token'[q] = 0 /\ ~live'[q]
            /\ begun'[q] = n
            /\ accepted'[q] = IF outcome = "succeeded" THEN n ELSE 0
        BY <2>2, <1>0, <1>1 DEF Settled, IInv, RequestsTypeOK
      <3>2. ASSUME NEW i \in Attempts
            PROVE  attempt'[q][i] = IF i = n THEN outcome ELSE attempt[q][i]
        BY <2>2, <1>0, <1>1 DEF Settled, IInv, RequestsTypeOK
      <3>3. ASSUME NEW i \in Attempts PROVE attempt'[q][i] = "none" <=> i > n
        <4>1. attempt[q][i] = "none" <=> i > begun[q]
          BY DEF IInv, RowOK
        <4> QED
          BY <4>1, <3>2, <2>2, <1>1 DEF Attempts
      <3>4. ASSUME NEW i \in Attempts PROVE attempt'[q][i] # "running"
        BY <3>2, <2>2, <1>1 DEF IInv, RowOK
      <3>5. accepted'[q] # 0 => attempt'[q][accepted'[q]] = "succeeded"
        BY <3>1, <3>2, <1>1
      <3> QED
        BY <3>1, <3>3, <3>4, <3>5, <1>2 DEF RowOK
    <2> QED
      BY <2>1, <2>2
  <1>5. \A v \in Workers : JobOK(v)'
    BY <1>0, IdlesOK DEF Settled
  <1> QED
    BY <1>3, <1>4, <1>5 DEF IInv

LEMMA LapseIInv == ASSUME IInv, NEW r \in Requests, Lapse(r) PROVE IInv'
  <1>1. RequestsTypeOK'
    BY DEF IInv, Lapse, RequestsTypeOK
  <1>2. ASSUME NEW q \in Requests PROVE RowOK(q)'
    BY DEF IInv, Lapse, RequestsTypeOK, RowOK
  <1>3. ASSUME NEW w \in Workers PROVE JobOK(w)'
    BY DEF IInv, Lapse, JobOK
  <1> QED
    BY <1>1, <1>2, <1>3 DEF IInv

(* A worker that only takes up or drops a request writes no row. *)
LEMMA JobIInv ==
    ASSUME IInv, UNCHANGED rowVars,
           job' \in [Workers -> [request : Requests \cup {NoRequest},
                                 attempt : 0..MaxAttempts]],
           \A w \in Workers : JobOK(w)'
    PROVE  IInv'
  <1>1. \A r \in Requests : RowOK(r)'
    BY RowsStay DEF IInv, rowVars
  <1> QED
    BY <1>1 DEF IInv, rowVars, RequestsTypeOK

LEMMA NextIInv == IInv /\ [RequestsNext]_requestVars => IInv'
  <1> SUFFICES ASSUME IInv, [RequestsNext]_requestVars PROVE IInv'
    OBVIOUS
  <1>0. 0 \in 0..MaxAttempts
    BY AttemptAssumption
  <1>1. ASSUME NEW w \in Workers, NEW r \in Requests, Pick(w, r) \/ Dispatch(w, r)
        PROVE  IInv'
    <2>1. Works(w, r, 0) /\ UNCHANGED rowVars
      BY <1>1 DEF Pick, Dispatch
    <2> QED
      BY <2>1, <1>0, WorksOK, JobIInv
  <1>2. ASSUME NEW w \in Workers, RefuseClaim(w) \/ FinishLate(w) \/ Crash(w)
        PROVE  IInv'
    <2>1. Idles(w) /\ UNCHANGED rowVars
      BY <1>2 DEF RefuseClaim, FinishLate, Crash
    <2> QED
      BY <2>1, IdlesOK, JobIInv
  <1>3. ASSUME NEW w \in Workers, Claim(w) PROVE IInv'
    BY <1>3, ClaimIInv
  <1>4. ASSUME NEW w \in Workers, FinishSucceeded(w) \/ FinishFailed(w) PROVE IInv'
    BY <1>4, SettledIInv
  <1>5. ASSUME NEW r \in Requests, Lapse(r) PROVE IInv'
    BY <1>5, LapseIInv
  <1>6. ASSUME NEW r \in Requests, Enqueue(r) PROVE IInv'
    BY <1>6, EnqueueIInv
  <1>7. CASE UNCHANGED requestVars
    BY <1>7 DEF requestVars, rowVars, IInv, RequestsTypeOK, RowOK, JobOK
  <1> QED
    BY <1>1, <1>2, <1>3, <1>4, <1>5, <1>6, <1>7
    DEF RequestsNext, RequestsStep, WorkerStep, Workers

(* The inductive invariant holds of every reachable state. *)
THEOREM IInvHolds == RequestsSpec => []IInv
  BY InitIInv, NextIInv, PTL DEF RequestsSpec

(* The rows and the jobs of the workers have their types (m6_repository.py, *)
(* ensure_schema).                                                          *)
THEOREM TypeCorrect == RequestsSpec => []RequestsTypeOK
  <1>1. IInv => RequestsTypeOK
    BY DEF IInv
  <1> QED
    BY <1>1, IInvHolds, PTL

(* Whatever the threads, crashes and expired leases, only the newest        *)
(* attempt of a request ever runs (m6_repository.claim).                    *)
THEOREM NewestRuns == RequestsSpec => []OnlyNewestRuns
  <1>1. IInv => OnlyNewestRuns
    BY DEF IInv, RowOK, OnlyNewestRuns
  <1> QED
    BY <1>1, IInvHolds, PTL

(* A revision belongs to the last attempt of a request that has succeeded   *)
(* (m6_repository.finish).                                                  *)
THEOREM LastIsAccepted == RequestsSpec => []AcceptedIsLast
  <1>1. IInv => AcceptedIsLast
    BY DEF IInv, RowOK, AcceptedIsLast
  <1> QED
    BY <1>1, IInvHolds, PTL

-----------------------------------------------------------------------------
(* What a step may do to an attempt and to the ledger. *)

(* No step writes an attempt that has settled. *)
LEMMA SettledStep ==
    IInv /\ [RequestsNext]_requestVars =>
        \A r \in Requests, n \in Attempts :
            attempt[r][n] \in {"succeeded", "failed", "expired"} =>
                attempt'[r][n] = attempt[r][n]
  <1> SUFFICES ASSUME IInv, [RequestsNext]_requestVars,
                      NEW r \in Requests, NEW n \in Attempts,
                      attempt[r][n] \in {"succeeded", "failed", "expired"}
               PROVE  attempt'[r][n] = attempt[r][n]
    OBVIOUS
  <1>1. ASSUME NEW w \in Workers, Claim(w) PROVE attempt'[r][n] = attempt[r][n]
    <2>1. job[w].request \in Requests
      BY <1>1, JobTypes DEF Claim
    <2>2. n # begun[r] + 1
      BY DEF IInv, RequestsTypeOK, RowOK, Attempts
    <2> QED
      BY <1>1, <2>1, <2>2 DEF Claim, IInv, RequestsTypeOK
  <1>2. ASSUME NEW w \in Workers, FinishSucceeded(w) \/ FinishFailed(w)
        PROVE  attempt'[r][n] = attempt[r][n]
    <2>1. PICK outcome : Settled(w, outcome)
      BY <1>2 DEF FinishSucceeded, FinishFailed
    <2>2. job[w].request # r \/ job[w].attempt # n
      BY <2>1, SettlesNewest
    <2> QED
      BY <2>1, <2>2, SettlesNewest DEF Settled, IInv, RequestsTypeOK
  <1>3. CASE UNCHANGED attempt
    BY <1>3
  <1> QED
    BY <1>1, <1>2, <1>3
    DEF RequestsNext, RequestsStep, WorkerStep, Workers, Pick, Dispatch, RefuseClaim,
        FinishLate, Crash, Lapse, Enqueue, requestVars, rowVars

(* A late answer leaves no trace: once an attempt has settled or expired,   *)
(* nothing is written of it (m6_repository.finish).                         *)
THEOREM SettledStays == RequestsSpec => SettledAttemptStays
  <1>1. IInv /\ [RequestsNext]_requestVars =>
            [\A r \in Requests, n \in Attempts :
                 attempt[r][n] \in {"succeeded", "failed", "expired"} =>
                     attempt'[r][n] = attempt[r][n]]_requestVars
    BY SettledStep
  <1> QED
    BY <1>1, IInvHolds, PTL DEF RequestsSpec, SettledAttemptStays

(* The attempt whose answer still counts. *)
openAttempt == [r \in Requests |-> IF status[r] = "running" /\ live[r] THEN begun[r] ELSE 0]

LEMMA InitLedger == RequestsInit => Ledger!Init
  BY DEF RequestsInit, Ledger!Init

(* Every step begins, accepts or gives up one attempt, or is none of the    *)
(* ledger's business.                                                       *)
LEMMA NextLedger == IInv /\ [RequestsNext]_requestVars => [Ledger!Next]_Ledger!vars
  <1> SUFFICES ASSUME IInv, [RequestsNext]_requestVars
               PROVE  Ledger!Next \/ UNCHANGED <<begun, openAttempt, accepted>>
    BY DEF Ledger!vars, openAttempt
  <1>1. ASSUME NEW w \in Workers, Claim(w) PROVE Ledger!Next
    <2>1. PICK r \in Requests : r = job[w].request
      BY <1>1, JobTypes DEF Claim
    <2>2. accepted[r] = 0 /\ openAttempt[r] = 0
      BY <1>1, <2>1 DEF Claim, Claimable, Expired, IInv, RowOK, openAttempt
    <2>3. begun' = [begun EXCEPT ![r] = @ + 1] /\ UNCHANGED accepted
      BY <1>1, <2>1 DEF Claim
    <2>4. openAttempt' = [openAttempt EXCEPT ![r] = begun[r] + 1]
      BY <1>1, <2>1 DEF Claim, openAttempt, IInv, RequestsTypeOK
    <2>5. Ledger!Begin(r)
      BY <2>2, <2>3, <2>4 DEF Ledger!Begin, openAttempt
    <2> QED
      BY <2>5 DEF Ledger!Next
  <1>2. ASSUME NEW w \in Workers, FinishSucceeded(w) \/ FinishFailed(w)
        PROVE  Ledger!Next
    <2>1. PICK outcome : Settled(w, outcome) /\ outcome \in {"succeeded", "failed"}
      BY <1>2 DEF FinishSucceeded, FinishFailed
    <2>2. PICK r \in Requests : r = job[w].request
      BY <2>1, SettlesNewest
    <2>3. /\ status[r] = "running" /\ live[r]
          /\ begun[r] = job[w].attempt /\ begun[r] # 0
      BY <2>2, <2>1, SettlesNewest DEF Settled
    <2>4. openAttempt[r] = begun[r]
      BY <2>3 DEF openAttempt
    <2>5. openAttempt' = [openAttempt EXCEPT ![r] = 0] /\ UNCHANGED begun
      BY <2>2, <2>1, <2>3 DEF Settled, openAttempt, IInv, RequestsTypeOK
    <2>6. Ledger!Accept(r) \/ Ledger!GiveUp(r)
      BY <1>2, <2>2, <2>3, <2>4, <2>5
      DEF FinishSucceeded, FinishFailed, Ledger!Accept, Ledger!GiveUp, openAttempt
    <2> QED
      BY <2>6 DEF Ledger!Next
  <1>3. ASSUME NEW r \in Requests, Lapse(r) PROVE Ledger!Next
    <2>1. status[r] = "running" /\ begun[r] # 0
      BY <1>3 DEF Lapse, IInv, RowOK
    <2>2. openAttempt[r] # 0 /\ openAttempt' = [openAttempt EXCEPT ![r] = 0]
      BY <1>3, <2>1 DEF Lapse, openAttempt, IInv, RequestsTypeOK
    <2>3. Ledger!GiveUp(r)
      BY <1>3, <2>2 DEF Lapse, Ledger!GiveUp, openAttempt
    <2> QED
      BY <2>3 DEF Ledger!Next
  <1>4. ASSUME NEW r \in Requests, Enqueue(r)
        PROVE  UNCHANGED <<begun, openAttempt, accepted>>
    BY <1>4 DEF Enqueue, Enqueued, openAttempt, IInv, RequestsTypeOK
  <1>5. CASE UNCHANGED rowVars
    BY <1>5 DEF rowVars, openAttempt
  <1> QED
    BY <1>1, <1>2, <1>3, <1>4, <1>5
    DEF RequestsNext, RequestsStep, WorkerStep, Workers, Pick, Dispatch, RefuseClaim,
        FinishLate, Crash, requestVars

(* The requests keep the promise of AttemptLedger: at most the newest       *)
(* attempt can be accepted, and nothing is attempted after it.              *)
THEOREM RequestsImplementLedger == RequestsSpec => ImplementsAttemptLedger
  BY InitLedger, NextLedger, IInvHolds, PTL
  DEF RequestsSpec, ImplementsAttemptLedger, Ledger!Spec
=============================================================================
