------------------------------ MODULE M6Requests ------------------------------
(***************************************************************************)
(* The processing requests of M6 and their attempts: the evidence requests *)
(* (Api/m6_repository.py), the assessment requests                         *)
(* (m6_assessment_repository), which work the same way, and the threads    *)
(* that run them (m6_worker_v2.recover_pending and run_request, and the    *)
(* background tasks of the QA endpoints in routes.py).                     *)
(*                                                                         *)
(* An attempt's lease_token is its number.  A lease has a fixed length and *)
(* is never prolonged: "live" says that lease_expires_at is ahead.         *)
(* MaxAttempts bounds the attempts: the last one is neither lost nor late. *)
(***************************************************************************)
EXTENDS Naturals, FiniteSets

CONSTANTS
    Requests,
    EvidenceRequests,  \* those of m6_processing_requests; they come first
    NoRequest,
    Pollers,           \* the polling threads, one to a process
    Tasks,             \* the background tasks of the QA endpoints
    MaxAttempts

ASSUME RequestAssumption ==
    /\ IsFiniteSet(Requests) /\ NoRequest \notin Requests
    /\ EvidenceRequests \subseteq Requests
ASSUME AttemptAssumption == MaxAttempts \in Nat \ {0}

VARIABLES
    status,    \* request -> its row's status, "absent" without a row
    created,   \* request -> the place of its created_at
    begun,     \* request -> the number of its attempts
    attempt,   \* request -> attempt number -> the attempt's status
    token,     \* request -> lease_token: an attempt's number, or 0
    live,      \* request -> the lease has not expired
    accepted,  \* request -> the attempt of its saved revision, or 0
    saved,     \* request -> the place of the revision's created_at, or 0
    job        \* worker -> the request and the attempt it works on

Workers == Pollers \cup Tasks

rowVars == <<status, created, begun, attempt, token, live, accepted, saved>>
requestVars == <<rowVars, job>>

Attempts == 1..MaxAttempts
NoJob == [request |-> NoRequest, attempt |-> 0]

RequestsTypeOK ==
    /\ status \in [Requests -> {"absent", "queued", "running", "succeeded", "failed"}]
    /\ created \in [Requests -> Nat]
    /\ begun \in [Requests -> 0..MaxAttempts]
    /\ attempt \in [Requests -> [Attempts ->
           {"none", "running", "expired", "succeeded", "failed"}]]
    /\ token \in [Requests -> 0..MaxAttempts]
    /\ live \in [Requests -> BOOLEAN]
    /\ accepted \in [Requests -> 0..MaxAttempts]
    /\ saved \in [Requests -> Nat]
    /\ job \in [Workers -> [request : Requests \cup {NoRequest}, attempt : 0..MaxAttempts]]

RequestsInit ==
    /\ status = [r \in Requests |-> "absent"]
    /\ created = [r \in Requests |-> 0]
    /\ begun = [r \in Requests |-> 0]
    /\ attempt = [r \in Requests |-> [n \in Attempts |-> "none"]]
    /\ token = [r \in Requests |-> 0]
    /\ live = [r \in Requests |-> FALSE]
    /\ accepted = [r \in Requests |-> 0]
    /\ saved = [r \in Requests |-> 0]
    /\ job = [w \in Workers |-> NoJob]

-----------------------------------------------------------------------------
(* The row of r is inserted unless it is there: INSERT ... ON CONFLICT DO   *)
(* NOTHING under the lock of the situation.                                 *)
Enqueued(r) ==
    IF status[r] # "absent" THEN UNCHANGED <<status, created>>
    ELSE /\ status' = [status EXCEPT ![r] = "queued"]
         /\ created' = [created EXCEPT ![r] =
                1 + Cardinality({q \in Requests : status[q] # "absent"})]

Enqueue(r) ==
    /\ status[r] = "absent" /\ Enqueued(r)
    /\ UNCHANGED <<begun, attempt, token, live, accepted, saved, job>>

-----------------------------------------------------------------------------
(* Picking a request, and claiming it in a second transaction.             *)

Expired(r) == status[r] = "running" /\ ~live[r]

(* Faulty: an attempt whose worker died is never taken back. *)
OnlyQueued(r) == status[r] = "queued"

Pending(r) == status[r] = "queued" \/ Expired(r)

(* The oldest evidence request, or else the oldest assessment request. *)
First(r) ==
    /\ Pending(r)
    /\ \A q \in Requests : Pending(q) =>
          \/ r \in EvidenceRequests /\ q \notin EvidenceRequests
          \/ /\ r \in EvidenceRequests <=> q \in EvidenceRequests
             /\ created[r] <= created[q]

Works(w, r, n) == job' = [job EXCEPT ![w] = [request |-> r, attempt |-> n]]

Idles(w) == job' = [job EXCEPT ![w] = NoJob]
Idle(w) == job[w].request = NoRequest

(* recover_pending only reads; the claim is a second transaction. *)
Pick(w, r) ==
    /\ Idle(w) /\ First(r)
    /\ Works(w, r, 0) /\ UNCHANGED rowVars

(* A background task runs the request that a repeated call named, whatever *)
(* has become of it: this is how a failed request gets another attempt.    *)
Dispatch(w, r) ==
    /\ Idle(w) /\ status[r] # "absent"
    /\ Works(w, r, 0) /\ UNCHANGED rowVars

Claimable(r) == status[r] \in {"queued", "failed"} \/ Expired(r)

Claim(w) ==
    LET r == job[w].request
        n == begun[r] + 1
    IN  /\ ~Idle(w) /\ job[w].attempt = 0
        /\ Claimable(r) /\ n <= MaxAttempts
        /\ begun' = [begun EXCEPT ![r] = n]
        /\ attempt' = [attempt EXCEPT ![r] = [i \in Attempts |->
               IF i = n THEN "running"
               ELSE IF @[i] = "running" THEN "expired" ELSE @[i]]]
        /\ status' = [status EXCEPT ![r] = "running"]
        /\ token' = [token EXCEPT ![r] = n]
        /\ live' = [live EXCEPT ![r] = TRUE]
        /\ Works(w, r, n)
        /\ UNCHANGED <<created, accepted, saved>>

RefuseClaim(w) ==
    /\ ~Idle(w) /\ job[w].attempt = 0
    /\ ~Claimable(job[w].request) \/ begun[job[w].request] = MaxAttempts
    /\ Idles(w) /\ UNCHANGED rowVars

-----------------------------------------------------------------------------
(* The provider has answered: the second transaction of the attempt.       *)

(* Faulty: the answer of any attempt is taken while the request runs. *)
StillRunning(w) == status[job[w].request] = "running" /\ live[job[w].request]

(* Faulty: the token is compared, the clock is not. *)
SameToken(w) ==
    status[job[w].request] = "running" /\ token[job[w].request] = job[w].attempt

Holds(w) ==
    /\ status[job[w].request] = "running"
    /\ token[job[w].request] = job[w].attempt
    /\ live[job[w].request]

Settled(w, outcome) ==
    LET r == job[w].request
    IN  /\ job[w].attempt # 0 /\ Holds(w)
        /\ attempt' = [attempt EXCEPT ![r][job[w].attempt] = outcome]
        /\ status' = [status EXCEPT ![r] = outcome]
        /\ token' = [token EXCEPT ![r] = 0]
        /\ live' = [live EXCEPT ![r] = FALSE]
        /\ Idles(w)
        /\ UNCHANGED <<created, begun>>

(* request_id is UNIQUE among the revisions. *)
FinishSucceeded(w) ==
    /\ Settled(w, "succeeded")
    /\ accepted[job[w].request] = 0
    /\ accepted' = [accepted EXCEPT ![job[w].request] = job[w].attempt]
    /\ saved' = [saved EXCEPT ![job[w].request] =
           1 + Cardinality({q \in Requests : saved[q] # 0})]

FinishFailed(w) == Settled(w, "failed") /\ UNCHANGED <<accepted, saved>>

FinishLate(w) ==
    /\ job[w].attempt # 0 /\ ~Holds(w)
    /\ Idles(w) /\ UNCHANGED rowVars

(* The process dies, or finish raises: the row waits for its lease to end. *)
Crash(w) ==
    /\ job[w].attempt \in 1..(MaxAttempts - 1)
    /\ Idles(w) /\ UNCHANGED rowVars

Lapse(r) ==
    /\ live[r] /\ begun[r] < MaxAttempts
    /\ live' = [live EXCEPT ![r] = FALSE]
    /\ UNCHANGED <<status, created, begun, attempt, token, accepted, saved, job>>

-----------------------------------------------------------------------------
WorkerStep(w) ==
    \/ w \in Pollers /\ \E r \in Requests : Pick(w, r)
    \/ Claim(w) \/ RefuseClaim(w)
    \/ FinishSucceeded(w) \/ FinishFailed(w) \/ FinishLate(w)

RequestsStep ==
    \/ \E w \in Workers : WorkerStep(w) \/ Crash(w)
    \/ \E w \in Tasks, r \in Requests : Dispatch(w, r)
    \/ \E r \in Requests : Lapse(r)

RequestsNext == RequestsStep \/ \E r \in Requests : Enqueue(r)

RequestsSpec == RequestsInit /\ [][RequestsNext]_requestVars

(* The polling thread goes on, whatever a pass of it met. *)
WorkersFair == \A w \in Workers : WF_requestVars(WorkerStep(w))

LeasesEnd == \A r \in Requests : WF_requestVars(Lapse(r))

-----------------------------------------------------------------------------
(* An attempt that runs is the newest one of a request that runs, and the  *)
(* one whose token the row holds; every older attempt was settled or       *)
(* expired first (m6_repository.claim, finish).                            *)
OnlyNewestRuns == \A r \in Requests, n \in Attempts :
    attempt[r][n] = "running" <=>
        status[r] = "running" /\ n = begun[r] /\ n = token[r]

(* A revision is saved by the attempt that is recorded as its author, for  *)
(* a request that has succeeded, and no attempt was begun after it.        *)
AcceptedIsLast == \A r \in Requests :
    /\ accepted[r] # 0 <=> status[r] = "succeeded"
    /\ accepted[r] # 0 =>
           accepted[r] = begun[r] /\ attempt[r][accepted[r]] = "succeeded"

(* What an attempt came to is never written again: an answer that comes    *)
(* late, after its lease or after another attempt, leaves no trace.        *)
SettledAttemptStays == [][
    \A r \in Requests, n \in Attempts :
        attempt[r][n] \in {"succeeded", "failed", "expired"} =>
            attempt'[r][n] = attempt[r][n]
    ]_requestVars

(* The numbered attempts, of which at most the newest can be accepted.     *)
Ledger == INSTANCE AttemptLedger WITH
    open <- [r \in Requests |->
               IF status[r] = "running" /\ live[r] THEN begun[r] ELSE 0]

ImplementsAttemptLedger == Ledger!Spec

(* Every request is answered for in the end: its status becomes final, if  *)
(* only because the attempts of a bounded model run out.                   *)
RequestSettles == \A r \in Requests :
    status[r] = "queued" ~> status[r] \in {"succeeded", "failed"}
=============================================================================
