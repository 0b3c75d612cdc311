---------------------------- MODULE AnalysisQueue ----------------------------
(***************************************************************************)
(* The queue of final analyses (Api/assessment_analysis_queue.py): the     *)
(* table assessment_analysis_jobs, the status column of user_sessions, the *)
(* worker threads that claim and process jobs, and the HTTP requests that  *)
(* enqueue them.  Every action is one database transaction or one step of  *)
(* a thread between two of them.                                           *)
(*                                                                         *)
(* Time is counted in ticks: the age of a lock and the remaining backoff   *)
(* are kept instead of timestamps, so that the state space is finite       *)
(* without a bound on the clock.                                           *)
(***************************************************************************)
EXTENDS Integers

CONSTANTS
    Sessions,             \* rows of user_sessions
    Workers,              \* queue threads, of all API processes
    NoWorker,             \* worker_id IS NULL
    Clients,              \* HTTP handlers of the retry endpoint
    LastCompetency,       \* competencies are evaluated in the order 1..LastCompetency
    MaxAttempts,          \* max_attempts of a job
    LeaseTimeout,         \* assessment_queue_lease_timeout_seconds
    MaintenanceInterval,  \* 60 seconds
    RetryUnit, RetryCap,  \* 5 and 60 seconds
    PunctualHeartbeat,    \* whether a heartbeat always comes before the lease expires
    MaxJobs,              \* bound: rows of assessment_analysis_jobs
    MaxClaims,            \* bound: claims of one job
    MaxFaults             \* bound: crashes and lost failure reports

Jobs == 1..MaxJobs
Competencies == 1..LastCompetency

ASSUME WorkerAssumption == NoWorker \notin Workers
ASSUME SessionAssumption == Sessions # {}
ASSUME BoundAssumption ==
    /\ {LastCompetency, MaxAttempts, LeaseTimeout, RetryUnit, RetryCap} \subseteq Nat \ {0}
    /\ {MaintenanceInterval, MaxJobs, MaxClaims, MaxFaults} \subseteq Nat
    /\ PunctualHeartbeat \in BOOLEAN

VARIABLES
    session,    \* user_sessions.status
    saved,      \* competencies whose result rows are committed
    jobStatus, jobSession, attempts, owner, age, wait,   \* the job rows
    pc, held, claim, step, pending, sinceMaintenance,    \* the worker threads
    approved,   \* session for which a retry request passed its check
    faults

jobVars == <<jobStatus, jobSession, attempts, owner, age, wait>>
workVars == <<pc, held, claim, step, pending>>
vars == <<session, saved, jobVars, workVars, sinceMaintenance, approved, faults>>

Processing == {"evaluate", "calling", "commit"}
Failing == {"error", "rejected"}

JobsTypeOK ==
    /\ jobStatus \in [Jobs -> {"absent", "queued", "running", "completed", "failed"}]
    /\ jobSession \in [Jobs -> Sessions]
    /\ attempts \in [Jobs -> 0..MaxClaims]
    /\ owner \in [Jobs -> Workers \cup {NoWorker}]
    /\ age \in [Jobs -> 0..LeaseTimeout + 1]
    /\ wait \in [Jobs -> 0..RetryCap]

WorkersTypeOK ==
    /\ pc \in [Workers -> {"idle", "polling"} \cup Processing \cup Failing]
    /\ held \in [Workers -> Jobs \cup {0}]
    /\ claim \in [Workers -> 0..MaxClaims]
    /\ step \in [Workers -> 1..LastCompetency + 1]
    /\ pending \in [Workers -> SUBSET Competencies]

OthersTypeOK ==
    /\ session \in [Sessions -> {"active", "cases_completed", "analyzing", "failed", "completed"}]
    /\ saved \in [Sessions -> SUBSET Competencies]
    /\ sinceMaintenance \in [Workers -> 0..MaintenanceInterval]
    /\ approved \in [Clients -> SUBSET Sessions]
    /\ faults \in 0..MaxFaults

TypeOK == JobsTypeOK /\ WorkersTypeOK /\ OthersTypeOK

Init ==
    /\ session = [s \in Sessions |-> "active"]
    /\ saved = [s \in Sessions |-> {}]
    /\ jobStatus = [j \in Jobs |-> "absent"]
    /\ jobSession = [j \in Jobs |-> CHOOSE s \in Sessions : TRUE]
    /\ attempts = [j \in Jobs |-> 0]
    /\ owner = [j \in Jobs |-> NoWorker]
    /\ age = [j \in Jobs |-> 0]
    /\ wait = [j \in Jobs |-> 0]
    /\ pc = [w \in Workers |-> "idle"]
    /\ held = [w \in Workers |-> 0]
    /\ claim = [w \in Workers |-> 0]
    /\ step = [w \in Workers |-> 1]
    /\ pending = [w \in Workers |-> {}]
    /\ sinceMaintenance = [w \in Workers |-> MaintenanceInterval]
    /\ approved = [c \in Clients |-> {}]
    /\ faults = 0

-----------------------------------------------------------------------------
(* Enqueueing: the interview's last case, and the retry endpoint. *)

Active(j) == jobStatus[j] \in {"queued", "running"}

(* Faulty: a job that is being processed no longer counts. *)
HasQueuedJob(s) == \E j \in Jobs : jobStatus[j] = "queued" /\ jobSession[j] = s

HasActiveJob(s) == \E j \in Jobs : Active(j) /\ jobSession[j] = s

(* The rows get their ids in the order of insertion. *)
InsertJob(s) ==
    \E j \in Jobs :
        /\ jobStatus[j] = "absent"
        /\ \A i \in Jobs : i < j => jobStatus[i] # "absent"
        /\ jobStatus' = [jobStatus EXCEPT ![j] = "queued"]
        /\ jobSession' = [jobSession EXCEPT ![j] = s]
        /\ UNCHANGED <<attempts, owner, age, wait>>

CompleteCases(s) ==
    /\ session[s] = "active"
    /\ session' = [session EXCEPT ![s] = "cases_completed"]
    /\ IF HasActiveJob(s) THEN UNCHANGED jobVars ELSE InsertJob(s)
    /\ UNCHANGED <<saved, workVars, sinceMaintenance, approved, faults>>

(* The endpoint reads the session in a transaction of its own ... *)
RequestRetry(c, s) ==
    /\ approved[c] = {}
    /\ session[s] \in {"cases_completed", "analyzing", "failed"}
    /\ approved' = [approved EXCEPT ![c] = {s}]
    /\ UNCHANGED <<session, saved, jobVars, workVars, sinceMaintenance, faults>>

(* ... and enqueues in another one, which looks only at the jobs. *)
EnqueueRetry(c, s) ==
    /\ s \in approved[c]
    /\ approved' = [approved EXCEPT ![c] = {}]
    /\ IF HasActiveJob(s)
       THEN UNCHANGED <<session, jobVars>>
       ELSE /\ InsertJob(s)
            /\ session' = [session EXCEPT ![s] = "cases_completed"]
    /\ UNCHANGED <<saved, workVars, sinceMaintenance, faults>>

-----------------------------------------------------------------------------
(* The worker loop: maintenance when it is due, then one attempt to claim. *)

Expired(j) == jobStatus[j] = "running" /\ age[j] > LeaseTimeout

(* Faulty: clears the lock of an expired job and leaves it running. *)
Unlocked(j) == jobStatus[j]

Recovered(j) == IF Expired(j) THEN "queued" ELSE jobStatus[j]

SkipMaintenance(w) ==
    /\ pc[w] = "idle"
    /\ sinceMaintenance[w] < MaintenanceInterval
    /\ pc' = [pc EXCEPT ![w] = "polling"]
    /\ UNCHANGED <<session, saved, jobVars, held, claim, step, pending,
                   sinceMaintenance, approved, faults>>

RunMaintenance(w) ==
    /\ pc[w] = "idle"
    /\ sinceMaintenance[w] >= MaintenanceInterval
    /\ pc' = [pc EXCEPT ![w] = "polling"]
    /\ sinceMaintenance' = [sinceMaintenance EXCEPT ![w] = 0]
    /\ jobStatus' = [j \in Jobs |-> Recovered(j)]
    /\ owner' = [j \in Jobs |-> IF Expired(j) THEN NoWorker ELSE owner[j]]
    /\ age' = [j \in Jobs |-> IF Expired(j) THEN 0 ELSE age[j]]
    /\ wait' = [j \in Jobs |-> IF Expired(j) THEN 0 ELSE wait[j]]
    /\ UNCHANGED <<session, saved, jobSession, attempts, held, claim, step, pending,
                   approved, faults>>

Due(j) == jobStatus[j] = "queued" /\ wait[j] = 0

EmptyPoll(w) ==
    /\ pc[w] = "polling"
    /\ \A j \in Jobs : ~Due(j)
    /\ pc' = [pc EXCEPT ![w] = "idle"]
    /\ UNCHANGED <<session, saved, jobVars, held, claim, step, pending,
                   sinceMaintenance, approved, faults>>

(* FOR UPDATE SKIP LOCKED over the due jobs, oldest first. *)
Claim(w, j) ==
    /\ pc[w] = "polling"
    /\ Due(j)
    /\ \A i \in Jobs : i < j => ~Due(i)
    /\ attempts[j] < MaxClaims
    /\ jobStatus' = [jobStatus EXCEPT ![j] = "running"]
    /\ attempts' = [attempts EXCEPT ![j] = @ + 1]
    /\ owner' = [owner EXCEPT ![j] = w]
    /\ age' = [age EXCEPT ![j] = 0]
    /\ session' = [session EXCEPT ![jobSession[j]] = "analyzing"]
    /\ pc' = [pc EXCEPT ![w] = "evaluate"]
    /\ held' = [held EXCEPT ![w] = j]
    /\ claim' = [claim EXCEPT ![w] = attempts[j] + 1]
    /\ step' = [step EXCEPT ![w] = 1]
    /\ UNCHANGED <<saved, jobSession, wait, pending, sinceMaintenance, approved, faults>>

-----------------------------------------------------------------------------
(* Processing a claimed job. *)

(* Faulty: the guard without AND worker_id. *)
HoldsRunningJob(w) == held[w] # 0 /\ jobStatus[held[w]] = "running"

(* The guard of every update a worker makes of its job:                    *)
(* WHERE id = job.id AND status = 'running' AND worker_id = job.worker_id. *)
Holds(w) ==
    /\ held[w] # 0
    /\ jobStatus[held[w]] = "running"
    /\ owner[held[w]] = w

RefreshLock(w) ==
    age' = IF Holds(w) THEN [age EXCEPT ![held[w]] = 0] ELSE age

(* Faulty: the last competency is forgotten, or one more is asked for. *)
AllButOneEvaluated(w) == step[w] >= LastCompetency
OneMoreEvaluated(w) == step[w] > LastCompetency + 1

AllEvaluated(w) == step[w] > LastCompetency

(* _update_progress commits what the connection has pending, whether or    *)
(* not the guarded update of the job matched a row.                        *)
SaveProgress(w) ==
    /\ pc[w] = "evaluate"
    /\ RefreshLock(w)
    /\ saved' = [saved EXCEPT ![jobSession[held[w]]] = @ \cup pending[w]]
    /\ pending' = [pending EXCEPT ![w] = {}]
    /\ pc' = [pc EXCEPT ![w] = IF AllEvaluated(w) THEN "commit" ELSE "calling"]
    /\ UNCHANGED <<session, jobStatus, jobSession, attempts, owner, wait, held, claim, step,
                   sinceMaintenance, approved, faults>>

(* The evaluator answers and its result is written, not yet committed. *)
Evaluate(w) ==
    /\ pc[w] = "calling"
    /\ pending' = [pending EXCEPT ![w] = @ \cup {step[w]}]
    /\ step' = [step EXCEPT ![w] = @ + 1]
    /\ pc' = [pc EXCEPT ![w] = "evaluate"]
    /\ UNCHANGED <<session, saved, jobVars, held, claim, sinceMaintenance, approved, faults>>

BecomeIdle(w) ==
    /\ pc' = [pc EXCEPT ![w] = "idle"]
    /\ held' = [held EXCEPT ![w] = 0]
    /\ claim' = [claim EXCEPT ![w] = 0]
    /\ step' = [step EXCEPT ![w] = 1]
    /\ pending' = [pending EXCEPT ![w] = {}]

(* Faulty: announces the report without looking at the rowcount. *)
CompleteUnchecked(w) ==
    /\ pc[w] = "commit"
    /\ IF Holds(w)
       THEN /\ jobStatus' = [jobStatus EXCEPT ![held[w]] = "completed"]
            /\ owner' = [owner EXCEPT ![held[w]] = NoWorker]
            /\ age' = [age EXCEPT ![held[w]] = 0]
       ELSE UNCHANGED <<jobStatus, owner, age>>
    /\ session' = [session EXCEPT ![jobSession[held[w]]] = "completed"]
    /\ BecomeIdle(w)
    /\ UNCHANGED <<saved, jobSession, attempts, wait, sinceMaintenance, approved, faults>>

(* The last transaction: the stages aggregate and build_report, the job,   *)
(* and the session.                                                        *)
Complete(w) ==
    /\ pc[w] = "commit"
    /\ Holds(w)
    /\ jobStatus' = [jobStatus EXCEPT ![held[w]] = "completed"]
    /\ owner' = [owner EXCEPT ![held[w]] = NoWorker]
    /\ age' = [age EXCEPT ![held[w]] = 0]
    /\ session' = [session EXCEPT ![jobSession[held[w]]] = "completed"]
    /\ BecomeIdle(w)
    /\ UNCHANGED <<saved, jobSession, attempts, wait, sinceMaintenance, approved, faults>>

(* An exception rolls the open transaction back.  It is raised by any      *)
(* evaluator or statement, and by the completion when its lease is gone.   *)
RaiseError(w) ==
    /\ pc[w] \in Processing
    /\ pc' = [pc EXCEPT ![w] = "error"]
    /\ pending' = [pending EXCEPT ![w] = {}]
    /\ UNCHANGED <<session, saved, jobVars, held, claim, step, sinceMaintenance, approved, faults>>

(* SnapshotIntegrityError: every stage begins by verifying the snapshot. *)
RejectSnapshot(w) ==
    /\ \/ pc[w] = "evaluate" /\ step[w] = 1
       \/ pc[w] = "commit"
    /\ pc' = [pc EXCEPT ![w] = "rejected"]
    /\ pending' = [pending EXCEPT ![w] = {}]
    /\ UNCHANGED <<session, saved, jobVars, held, claim, step, sinceMaintenance, approved, faults>>

RetryDelay(a) ==
    LET d == RetryUnit * 2^(a - 1) IN IF d \in 0..RetryCap THEN d ELSE RetryCap

(* Faulty: one attempt too many. *)
RetriesOnceMore(w) == pc[w] = "error" /\ claim[w] <= MaxAttempts

Retries(w) == pc[w] = "error" /\ claim[w] < MaxAttempts

(* Faulty: the session is not told of the last failure. *)
SessionLeftAnalyzing(w) == "analyzing"

SessionAfterFailure(w) == IF Retries(w) THEN "analyzing" ELSE "failed"

(* The job is updated under the guard, the session without one. *)
Fail(w) ==
    /\ pc[w] \in Failing
    /\ IF Holds(w)
       THEN /\ jobStatus' = [jobStatus EXCEPT ![held[w]] = IF Retries(w) THEN "queued" ELSE "failed"]
            /\ owner' = [owner EXCEPT ![held[w]] = NoWorker]
            /\ age' = [age EXCEPT ![held[w]] = 0]
            /\ wait' = [wait EXCEPT ![held[w]] = IF Retries(w) THEN RetryDelay(claim[w]) ELSE @]
       ELSE UNCHANGED <<jobStatus, owner, age, wait>>
    /\ session' = [session EXCEPT ![jobSession[held[w]]] = SessionAfterFailure(w)]
    /\ BecomeIdle(w)
    /\ UNCHANGED <<saved, jobSession, attempts, sinceMaintenance, approved, faults>>

(* _fail itself raises (the database is away): the loop logs it and goes on. *)
FailLost(w) ==
    /\ pc[w] \in Failing
    /\ faults < MaxFaults
    /\ faults' = faults + 1
    /\ BecomeIdle(w)
    /\ UNCHANGED <<session, saved, jobVars, sinceMaintenance, approved>>

-----------------------------------------------------------------------------
(* The heartbeat thread of an attempt, process crashes, and time. *)

Heartbeat(w) ==
    /\ pc[w] \in Processing \cup Failing
    /\ Holds(w)
    /\ RefreshLock(w)
    /\ UNCHANGED <<session, saved, jobStatus, jobSession, attempts, owner, wait, workVars,
                   sinceMaintenance, approved, faults>>

(* The process dies and is started again with nothing but the database. *)
Crash(w) ==
    /\ pc[w] # "idle"
    /\ faults < MaxFaults
    /\ faults' = faults + 1
    /\ BecomeIdle(w)
    /\ sinceMaintenance' = [sinceMaintenance EXCEPT ![w] = MaintenanceInterval]
    /\ UNCHANGED <<session, saved, jobVars, approved>>

HeartbeatDue(w) == Holds(w) /\ age[held[w]] >= LeaseTimeout

Tick ==
    /\ PunctualHeartbeat => \A w \in Workers : ~HeartbeatDue(w)
    /\ age' = [j \in Jobs |-> IF jobStatus[j] = "running" /\ age[j] <= LeaseTimeout
                              THEN age[j] + 1 ELSE age[j]]
    /\ wait' = [j \in Jobs |-> IF wait[j] > 0 THEN wait[j] - 1 ELSE 0]
    /\ sinceMaintenance' = [w \in Workers |->
           IF sinceMaintenance[w] < MaintenanceInterval THEN sinceMaintenance[w] + 1
           ELSE sinceMaintenance[w]]
    /\ UNCHANGED <<session, saved, jobStatus, jobSession, attempts, owner, workVars,
                   approved, faults>>

-----------------------------------------------------------------------------
WorkerStep(w) ==
    \/ SkipMaintenance(w) \/ RunMaintenance(w)
    \/ EmptyPoll(w) \/ \E j \in Jobs : Claim(w, j)
    \/ SaveProgress(w) \/ Evaluate(w) \/ Complete(w)
    \/ RaiseError(w) \/ RejectSnapshot(w) \/ Fail(w)

Next ==
    \/ \E s \in Sessions : CompleteCases(s)
    \/ \E c \in Clients, s \in Sessions : RequestRetry(c, s) \/ EnqueueRetry(c, s)
    \/ \E w \in Workers : WorkerStep(w) \/ FailLost(w) \/ Heartbeat(w) \/ Crash(w)
    \/ Tick

Spec == Init /\ [][Next]_vars

(* The threads of a started process run on, calls to an evaluator return   *)
(* or time out, and the clock advances.                                    *)
FairSpec ==
    /\ Spec
    /\ WF_vars(Tick)
    /\ \A w \in Workers : WF_vars(WorkerStep(w)) /\ WF_vars(Heartbeat(w))

-----------------------------------------------------------------------------
(* Properties *)

Busy(w) == pc[w] \in Processing \cup Failing

(* A worker_id is as good as an attempt number: the guard of               *)
(* _update_progress, of the completion and of _fail admits a worker if and *)
(* only if it works under the latest claim of a running job.  No attempt   *)
(* touches a row that was claimed again after it, and none is turned away  *)
(* while its claim is the latest.                                          *)
FencedClaim ==
    \A w \in Workers : Busy(w) =>
        (Holds(w) <=> jobStatus[held[w]] = "running" /\ attempts[held[w]] = claim[w])

(* Neither the interview's end, nor the retry endpoint racing it, nor      *)
(* lease recovery gives a session two jobs that are queued or running (the *)
(* unique index would make one of them fail).                              *)
OneActiveJobPerSession ==
    \A i, j \in Jobs : Active(i) /\ Active(j) /\ jobSession[i] = jobSession[j] => i = j

(* A job is completed only when the results of every competency are        *)
(* committed, whichever of its attempts wrote them and wherever the        *)
(* others stopped.                                                         *)
ReportIsWhole ==
    \A j \in Jobs : jobStatus[j] = "completed" => saved[jobSession[j]] = Competencies

(* A job waits for a retry only while its attempts are not used up, even   *)
(* when its lease was recovered between attempts.                          *)
RetriesWithinLimit ==
    \A j \in Jobs : wait[j] > 0 => jobStatus[j] = "queued" /\ attempts[j] < MaxAttempts

(* A ready session has a job that completed, and none that is waiting or   *)
(* being processed: no attempt that lost its lease can announce the report, *)
(* and nothing that is still to be done would replace it.                  *)
ReadyReportIsSettled ==
    \A s \in Sessions : session[s] = "completed" =>
        /\ \E j \in Jobs : jobStatus[j] = "completed" /\ jobSession[j] = s
        /\ ~HasActiveJob(s)

(* Beyond max_attempts a job is claimed only for attempts that crashes and *)
(* lost failure reports took away.                                         *)
ClaimsBounded == \A j \in Jobs : attempts[j] <= MaxAttempts + faults

(* Every enqueued job is completed or failed in the end, through errors,   *)
(* crashes and recovered leases.                                           *)
JobSettles == \A j \in Jobs : Active(j) ~> jobStatus[j] \in {"completed", "failed"}

(* What the participant waits for: a session with all cases done comes to  *)
(* a report or to a failure, never to "analyzing" for ever.                *)
SessionSettles ==
    \A s \in Sessions :
        session[s] \in {"cases_completed", "analyzing"} ~> session[s] \in {"completed", "failed"}

QueueStatus(j) ==
    CASE jobStatus[j] = "absent" -> "none"
      [] jobStatus[j] = "queued" -> "waiting"
      [] jobStatus[j] = "running" -> "taken"
      [] jobStatus[j] = "completed" -> "done"
      [] OTHER -> "failed"

Queue == INSTANCE FencedQueue WITH
    status <- [j \in Jobs |-> QueueStatus(j)],
    epoch <- attempts,
    claim <- [w \in Workers |-> [job |-> held[w], epoch |-> claim[w]]]

(* The queue implements the abstract one, with a job's attempts as its     *)
(* epoch: no stale worker settles a job, no settled job is taken again.    *)
ImplementsFencedQueue == Queue!Spec

(* A session whose report is ready stays ready.                            *)
ReadyReportStays ==
    [][\A s \in Sessions : session[s] = "completed" => session'[s] = "completed"]_vars

=============================================================================
