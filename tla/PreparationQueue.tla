--------------------------- MODULE PreparationQueue ---------------------------
(***************************************************************************)
(* The preparation of one user's assessment: the queue                     *)
(* assessment_preparation_jobs (Api/assessment_preparation_queue.py) and   *)
(* what its threads do to user_sessions, session_cases and                 *)
(* assessment_stage_runs (AssessmentService.ensure_assessment_session).    *)
(* Every action is one committed transaction, a read whose result is used  *)
(* in a later one, or an exception.                                        *)
(*                                                                         *)
(* Time is abstract: a lock may grow older than the lease timeout, a       *)
(* backoff may end and a settled job may outlive its retention at any      *)
(* moment.  Users do not share sessions, and share threads only.           *)
(***************************************************************************)
EXTENDS Integers

CONSTANTS
    Workers,            \* queue threads, of all API processes
    NoWorker,           \* worker_id IS NULL
    LastCase,           \* a session has the cases 1..LastCase
    MaxAttempts,        \* max_attempts of a job
    PunctualHeartbeat,  \* whether a heartbeat always comes before the lease expires
    MaxJobs,            \* bound: rows of assessment_preparation_jobs
    MaxSessions,        \* bound: rows of user_sessions
    MaxClaims,          \* bound: claims of one job, see LastClaim
    MaxFaults           \* bound: crashes and lost failure reports

Jobs == 1..MaxJobs
Sessions == 1..MaxSessions
Cases == 1..LastCase
Attempts == 1..MaxClaims

ASSUME WorkerAssumption == NoWorker \notin Workers
ASSUME BoundAssumption ==
    /\ {LastCase, MaxAttempts} \subseteq Nat \ {0}
    /\ {MaxJobs, MaxSessions, MaxClaims, MaxFaults} \subseteq Nat
    /\ PunctualHeartbeat \in BOOLEAN

VARIABLES
    jobStatus, kind, attempts, owner, result,   \* the job rows
    stale,      \* locked_at is older than the lease, or updated_at than the retention
    waiting,    \* next_attempt_at > NOW()
    session,    \* user_sessions.status
    prompts,    \* the cases of a session that have their prompt
    answered,   \* sessions whose cases are all answered
    run,        \* the personalize_cases run of an attempt, in assessment_stage_runs
    pc, held, claim, plan, step,   \* the worker threads
    faults

jobVars == <<jobStatus, kind, attempts, owner, result, stale, waiting>>
sessionVars == <<session, prompts, answered>>
workVars == <<pc, held, claim, plan, step>>
vars == <<jobVars, sessionVars, run, workVars, faults>>

Processing ==
    {"profile", "find", "repair", "create", "personalize", "activate", "settle"}
Failing == {"error", "invalid"}
OpenStatuses == {"created", "active"}
Settled == {"completed", "failed"}

TypeOK ==
    /\ jobStatus \in [Jobs -> {"absent", "queued", "running", "deleted"} \cup Settled]
    /\ kind \in [Jobs -> {"prepare", "start"}]
    /\ attempts \in [Jobs -> 0..MaxClaims]
    /\ owner \in [Jobs -> Workers \cup {NoWorker}]
    /\ result \in [Jobs -> Sessions \cup {0}]
    /\ stale \in [Jobs -> BOOLEAN]
    /\ waiting \in [Jobs -> BOOLEAN]
    /\ session \in [Sessions -> {"absent", "cases_completed"} \cup OpenStatuses \cup Settled]
    /\ prompts \in [Sessions -> SUBSET Cases]
    /\ answered \in SUBSET Sessions
    /\ run \in [Jobs \X Attempts -> {"none", "running"} \cup Settled]
    /\ pc \in [Workers -> {"idle", "polling"} \cup Processing \cup Failing]
    /\ held \in [Workers -> Jobs \cup {0}]
    /\ claim \in [Workers -> 0..MaxClaims]
    /\ plan \in [Workers -> Sessions \cup {0}]
    /\ step \in [Workers -> 1..(LastCase + 1)]
    /\ faults \in 0..MaxFaults

Init ==
    /\ jobStatus = [j \in Jobs |-> "absent"]
    /\ kind = [j \in Jobs |-> "start"]
    /\ attempts = [j \in Jobs |-> 0]
    /\ owner = [j \in Jobs |-> NoWorker]
    /\ result = [j \in Jobs |-> 0]
    /\ stale = [j \in Jobs |-> FALSE]
    /\ waiting = [j \in Jobs |-> FALSE]
    /\ session = [s \in Sessions |-> "absent"]
    /\ prompts = [s \in Sessions |-> {}]
    /\ answered = {}
    /\ run = [r \in Jobs \X Attempts |-> "none"]
    /\ pc = [w \in Workers |-> "idle"]
    /\ held = [w \in Workers |-> 0]
    /\ claim = [w \in Workers |-> 0]
    /\ plan = [w \in Workers |-> 0]
    /\ step = [w \in Workers |-> 1]
    /\ faults = 0

(* The last claim within the bound is neither late nor lost: the bound       *)
(* would look like a job that never settles.                               *)
LastClaim(j) == attempts[j] = MaxClaims

-----------------------------------------------------------------------------
(* Enqueueing: an administrator prepares, the participant starts. *)

Active(j) == jobStatus[j] \in {"queued", "running"}

(* Under the user's advisory lock: an active job, of whatever kind, is the *)
(* answer, and no row is added.                                            *)
Enqueue(k) ==
    /\ IF \E j \in Jobs : Active(j)
       THEN UNCHANGED <<jobStatus, kind>>
       ELSE \E j \in Jobs :
            /\ jobStatus[j] = "absent"
            /\ \A i \in Jobs : i < j => jobStatus[i] # "absent"
            /\ jobStatus' = [jobStatus EXCEPT ![j] = "queued"]
            /\ kind' = [kind EXCEPT ![j] = k]
    /\ UNCHANGED <<attempts, owner, result, stale, waiting, sessionVars, run, workVars, faults>>

-----------------------------------------------------------------------------
(* The worker loop. *)

(* Faulty: a job that still has a worker_id is left to it. *)
ExpiredAndUnowned(j) == jobStatus[j] = "running" /\ stale[j] /\ owner[j] = NoWorker

Expired(j) == jobStatus[j] = "running" /\ stale[j]
Outlived(j) == jobStatus[j] \in Settled /\ stale[j]

(* Maintenance runs once in a minute, and first in a new process. *)
SkipMaintenance(w) ==
    /\ pc[w] = "idle"
    /\ pc' = [pc EXCEPT ![w] = "polling"]
    /\ UNCHANGED <<jobVars, sessionVars, run, held, claim, plan, step, faults>>

(* Expired leases are recovered and old jobs deleted; with a job go its    *)
(* stage runs (ON DELETE CASCADE).                                         *)
RunMaintenance(w) ==
    /\ pc[w] = "idle"
    /\ pc' = [pc EXCEPT ![w] = "polling"]
    /\ jobStatus' = [j \in Jobs |->
           IF Expired(j) THEN "queued" ELSE IF Outlived(j) THEN "deleted" ELSE jobStatus[j]]
    /\ owner' = [j \in Jobs |-> IF Expired(j) THEN NoWorker ELSE owner[j]]
    /\ waiting' = [j \in Jobs |-> waiting[j] /\ ~Expired(j)]
    /\ stale' = [j \in Jobs |-> stale[j] /\ ~Expired(j) /\ ~Outlived(j)]
    /\ run' = [r \in Jobs \X Attempts |-> IF Outlived(r[1]) THEN "none" ELSE run[r]]
    /\ UNCHANGED <<kind, attempts, result, sessionVars, held, claim, plan, step, faults>>

Due(j) == jobStatus[j] = "queued" /\ ~waiting[j]

EmptyPoll(w) ==
    /\ pc[w] = "polling"
    /\ \A j \in Jobs : ~Due(j)
    /\ pc' = [pc EXCEPT ![w] = "idle"]
    /\ UNCHANGED <<jobVars, sessionVars, run, held, claim, plan, step, faults>>

(* FOR UPDATE SKIP LOCKED over the due jobs, oldest first. *)
Claim(w, j) ==
    /\ pc[w] = "polling"
    /\ Due(j)
    /\ \A i \in Jobs : i < j => ~Due(i)
    /\ attempts[j] < MaxClaims
    /\ jobStatus' = [jobStatus EXCEPT ![j] = "running"]
    /\ attempts' = [attempts EXCEPT ![j] = @ + 1]
    /\ owner' = [owner EXCEPT ![j] = w]
    /\ stale' = [stale EXCEPT ![j] = FALSE]
    /\ pc' = [pc EXCEPT ![w] = "profile"]
    /\ held' = [held EXCEPT ![w] = j]
    /\ claim' = [claim EXCEPT ![w] = attempts[j] + 1]
    /\ UNCHANGED <<kind, result, waiting, sessionVars, run, plan, step,
                   faults>>

-----------------------------------------------------------------------------
(* What an attempt does to the session.  None of it looks at the lease. *)

Goto(w, label) == pc' = [pc EXCEPT ![w] = label]

(* The row an attempt's stage runs refer to (a foreign key). *)
JobRowExists(w) == jobStatus[held[w]] # "deleted"

MyRun(w) == <<held[w], claim[w]>>

(* An UPDATE by id: it matches the row, if there still is one. *)
SetRun(w, status) ==
    run' = [run EXCEPT ![MyRun(w)] = IF @ = "none" THEN "none" ELSE status]

(* The stage prepare_profile: one transaction, a completed stage run. *)
PrepareProfile(w) ==
    /\ pc[w] = "profile"
    /\ JobRowExists(w)
    /\ Goto(w, "find")
    /\ UNCHANGED <<jobVars, sessionVars, run, held, claim, plan, step, faults>>

(* Faulty: only the sessions that are already active. *)
FindsActiveOnly(s) == session[s] = "active"

Finds(s) == session[s] \in OpenStatuses

(* The latest open session is read without a lock. *)
FindSession(w) ==
    /\ pc[w] = "find"
    /\ \/ /\ \A s \in Sessions : ~Finds(s)
          /\ Goto(w, "create")
          /\ UNCHANGED plan
       \/ \E s \in Sessions :
          /\ Finds(s)
          /\ \A t \in Sessions : t > s => ~Finds(t)
          /\ plan' = [plan EXCEPT ![w] = s]
          /\ Goto(w, "repair")
    /\ UNCHANGED <<jobVars, sessionVars, run, held, claim, step, faults>>

(* Faulty: prompts are not made again for what was found. *)
PromptsLeftAlone(s) == prompts[s]

PromptsAfterRepair(s) == Cases

(* _repair_existing_session: the cases are read again, the missing prompts *)
(* made; without an open case the session is completed and another created.*)
RepairSession(w) ==
    /\ pc[w] = "repair"
    /\ IF plan[w] \in answered
       THEN /\ session' = [session EXCEPT ![plan[w]] = "completed"]
            /\ plan' = [plan EXCEPT ![w] = 0]
            /\ Goto(w, "create")
            /\ UNCHANGED prompts
       ELSE /\ prompts' = [prompts EXCEPT ![plan[w]] = PromptsAfterRepair(plan[w])]
            /\ Goto(w, "settle")
            /\ UNCHANGED <<session, plan>>
    /\ UNCHANGED <<jobVars, answered, run, held, claim, step, faults>>

(* The stage select_cases and the session with its cases, in one           *)
(* transaction.                                                            *)
CreateSession(w) ==
    /\ pc[w] = "create"
    /\ JobRowExists(w)
    /\ \E s \in Sessions :
        /\ session[s] = "absent"
        /\ \A t \in Sessions : t < s => session[t] # "absent"
        /\ session' = [session EXCEPT ![s] = "created"]
        /\ plan' = [plan EXCEPT ![w] = s]
    /\ Goto(w, "personalize")
    /\ UNCHANGED <<jobVars, prompts, answered, run, held, claim, step, faults>>

(* Faulty: one case too many is made. *)
OnePastLast(k) == k > LastCase

IsLast(k) == k = LastCase

(* One commit per case; the first one also publishes the stage run. *)
PersonalizeCase(w) ==
    /\ pc[w] = "personalize"
    /\ step[w] = 1 => JobRowExists(w)
    /\ prompts' = [prompts EXCEPT ![plan[w]] = @ \cup {step[w]}]
    /\ run' = IF step[w] = 1 THEN [run EXCEPT ![MyRun(w)] = "running"] ELSE run
    /\ step' = [step EXCEPT ![w] = @ + 1]
    /\ Goto(w, IF IsLast(step[w]) THEN "activate" ELSE "personalize")
    /\ UNCHANGED <<jobVars, session, answered, held, claim, plan, faults>>

(* An exception while a case is personalized: the run fails and the        *)
(* session is archived, in a transaction that is committed.                *)
PersonalizationFails(w, label) ==
    /\ pc[w] = "personalize"
    /\ step[w] = 1 => JobRowExists(w)
    /\ IF step[w] = 1
       THEN run' = [run EXCEPT ![MyRun(w)] = "failed"]
       ELSE SetRun(w, "failed")
    /\ session' = [session EXCEPT ![plan[w]] = "failed"]
    /\ Goto(w, label)
    /\ UNCHANGED <<jobVars, prompts, answered, held, claim, plan, step, faults>>

ActivateSession(w) ==
    /\ pc[w] = "activate"
    /\ SetRun(w, "completed")
    /\ session' = [session EXCEPT ![plan[w]] = "active"]
    /\ Goto(w, "settle")
    /\ UNCHANGED <<jobVars, prompts, answered, held, claim, plan, step, faults>>

-----------------------------------------------------------------------------
(* How an attempt ends. *)

(* Faulty: the guard without AND worker_id. *)
HoldsRunningJob(w) == held[w] # 0 /\ jobStatus[held[w]] = "running"

(* WHERE id = job.id AND status = 'running' AND worker_id = job.worker_id. *)
Holds(w) ==
    /\ held[w] # 0
    /\ jobStatus[held[w]] = "running"
    /\ owner[held[w]] = w

BecomeIdle(w) ==
    /\ pc' = [pc EXCEPT ![w] = "idle"]
    /\ held' = [held EXCEPT ![w] = 0]
    /\ claim' = [claim EXCEPT ![w] = 0]
    /\ plan' = [plan EXCEPT ![w] = 0]
    /\ step' = [step EXCEPT ![w] = 1]

SettleJob(w, status) ==
    /\ jobStatus' = [jobStatus EXCEPT ![held[w]] = status]
    /\ owner' = [owner EXCEPT ![held[w]] = NoWorker]
    /\ stale' = [stale EXCEPT ![held[w]] = FALSE]

(* A start opens the first case of the session and has it for a result;    *)
(* what is only prepared waits.  A completion from an expired lease is     *)
(* ignored.                                                                *)
Complete(w) ==
    /\ pc[w] = "settle"
    /\ IF Holds(w)
       THEN /\ SettleJob(w, "completed")
            /\ result' = [result EXCEPT ![held[w]] = IF kind[held[w]] = "start" THEN plan[w] ELSE 0]
       ELSE UNCHANGED <<jobStatus, owner, stale, result>>
    /\ BecomeIdle(w)
    /\ UNCHANGED <<kind, attempts, waiting, sessionVars, run, faults>>

(* An exception rolls the open transaction back: a transient one, or a     *)
(* rejection of the snapshot or of the user's data.                        *)
RaiseError(w, label) ==
    /\ pc[w] \in Processing
    /\ Goto(w, label)
    /\ UNCHANGED <<jobVars, sessionVars, run, held, claim, plan, step, faults>>

(* Faulty: the last attempt is retried too. *)
RetriesOnceMore(w) == pc[w] = "error" /\ claim[w] <= MaxAttempts

Retries(w) == pc[w] = "error" /\ claim[w] < MaxAttempts

(* Faulty: the stage runs are left as they are. *)
NoRunFails(r) == run[r]

RunAfterFailure(r) == IF run[r] = "running" THEN "failed" ELSE run[r]

(* The job is updated under the guard, its stage runs without one. *)
Fail(w) ==
    /\ pc[w] \in Failing
    /\ run' = [r \in Jobs \X Attempts |-> IF r[1] = held[w] THEN RunAfterFailure(r) ELSE run[r]]
    /\ IF Holds(w)
       THEN /\ SettleJob(w, IF Retries(w) THEN "queued" ELSE "failed")
            /\ waiting' = [waiting EXCEPT ![held[w]] = Retries(w)]
       ELSE UNCHANGED <<jobStatus, owner, stale, waiting>>
    /\ BecomeIdle(w)
    /\ UNCHANGED <<kind, attempts, result, sessionVars, faults>>

(* _fail itself raises: the loop logs it and goes on. *)
FailLost(w) ==
    /\ pc[w] \in Failing
    /\ faults < MaxFaults /\ ~LastClaim(held[w])
    /\ faults' = faults + 1
    /\ BecomeIdle(w)
    /\ UNCHANGED <<jobVars, sessionVars, run>>

-----------------------------------------------------------------------------
(* The heartbeat thread, crashes, time, and the participant. *)

Busy(w) == pc[w] \in Processing \cup Failing

Heartbeat(w) ==
    /\ Busy(w)
    /\ Holds(w)
    /\ stale[held[w]]
    /\ stale' = [stale EXCEPT ![held[w]] = FALSE]
    /\ UNCHANGED <<jobStatus, kind, attempts, owner, result, waiting, sessionVars, run,
                   workVars, faults>>

(* The process dies and is started again with nothing but the database. *)
Crash(w) ==
    /\ pc[w] # "idle"
    /\ faults < MaxFaults /\ (Busy(w) => ~LastClaim(held[w]))
    /\ faults' = faults + 1
    /\ BecomeIdle(w)
    /\ UNCHANGED <<jobVars, sessionVars, run>>

(* Faulty: heartbeats may come late, although they are said to be punctual. *)
NobodyBeats(j) == TRUE

(* The lock of j may grow older than the lease. *)
NoPunctualHolder(j) ==
    PunctualHeartbeat \/ LastClaim(j) => \A w \in Workers : ~(Holds(w) /\ held[w] = j)

Age(j) ==
    /\ \/ jobStatus[j] = "running" /\ NoPunctualHolder(j)
       \/ jobStatus[j] \in Settled
    /\ ~stale[j]
    /\ stale' = [stale EXCEPT ![j] = TRUE]
    /\ UNCHANGED <<jobStatus, kind, attempts, owner, result, waiting, sessionVars, run,
                   workVars, faults>>

EndBackoff(j) ==
    /\ waiting[j]
    /\ waiting' = [waiting EXCEPT ![j] = FALSE]
    /\ UNCHANGED <<jobStatus, kind, attempts, owner, result, stale, sessionVars, run,
                   workVars, faults>>

(* The participant answers the last case of a session a start was answered *)
(* with.                                                                   *)
FinishCases(s) ==
    /\ \E j \in Jobs : result[j] = s
    /\ session[s] \in OpenStatuses
    /\ prompts[s] = Cases
    /\ session' = [session EXCEPT ![s] = "cases_completed"]
    /\ answered' = answered \cup {s}
    /\ UNCHANGED <<jobVars, prompts, run, workVars, faults>>

-----------------------------------------------------------------------------
WorkerStep(w) ==
    \/ SkipMaintenance(w) \/ RunMaintenance(w)
    \/ EmptyPoll(w)
    \/ \E j \in Jobs : Claim(w, j)
    \/ PrepareProfile(w) \/ FindSession(w) \/ RepairSession(w) \/ CreateSession(w)
    \/ PersonalizeCase(w) \/ ActivateSession(w) \/ Complete(w)
    \/ \E label \in Failing : RaiseError(w, label) \/ PersonalizationFails(w, label)
    \/ Fail(w)

ClockStep == \E j \in Jobs : Age(j) \/ EndBackoff(j)

Next ==
    \/ \E k \in {"prepare", "start"} : Enqueue(k)
    \/ \E w \in Workers : WorkerStep(w) \/ FailLost(w) \/ Heartbeat(w) \/ Crash(w)
    \/ ClockStep
    \/ \E s \in Sessions : FinishCases(s)

Spec == Init /\ [][Next]_vars

(* Threads of a started process run on, calls return or time out, a        *)
(* polling thread maintains the queue again and again, and every deadline  *)
(* comes.                                                                  *)
FairSpec ==
    /\ Spec
    /\ \A w \in Workers : WF_vars(WorkerStep(w))
    /\ SF_vars(\E w \in Workers : RunMaintenance(w))
    /\ \A j \in Jobs : WF_vars(Age(j)) /\ WF_vars(EndBackoff(j))

-----------------------------------------------------------------------------
(* Properties *)

(* With heartbeats in time, a job is claimed again only after a failure     *)
(* that is retried, at most max_attempts times, or after a worker was lost. *)
ClaimsBounded == \A j \in Jobs : attempts[j] <= MaxAttempts + faults

(* With heartbeats in time a user has one open session: an attempt that    *)
(* follows a crash continues with what the crashed one created.            *)
OneOpenSession ==
    \A s, t \in Sessions : session[s] \in OpenStatuses /\ session[t] \in OpenStatuses => s = t

(* The session a start is answered with has all its prompts and is not     *)
(* archived afterwards by another attempt.                                 *)
DeliveredSessionIsUsable ==
    \A j \in Jobs : result[j] # 0 =>
        session[result[j]] # "failed" /\ prompts[result[j]] = Cases

(* A job that failed leaves no stage run that seems to be running, not     *)
(* even those of attempts that crashed.                                    *)
FailedJobHasNoRunningStage ==
    \A j \in Jobs : jobStatus[j] = "failed" =>
        \A a \in Attempts : run[<<j, a>>] # "running"

(* A finished or archived session is never opened again. *)
FinishedSessionIsNotReopened ==
    [][\A s \in Sessions : session[s] \in {"cases_completed"} \cup Settled =>
           session'[s] \notin OpenStatuses]_vars

(* Every enqueued job is completed or failed in the end, whatever crashes,  *)
(* late heartbeats and lost failure reports come between (_run_worker).     *)
JobSettles == \A j \in Jobs : Active(j) ~> jobStatus[j] \in Settled

QueueStatus(j) ==
    CASE jobStatus[j] = "absent" -> "none"
      [] jobStatus[j] = "queued" -> "waiting"
      [] jobStatus[j] = "running" -> "taken"
      [] jobStatus[j] = "completed" -> "done"
      [] jobStatus[j] = "deleted" -> "gone"
      [] OTHER -> "failed"

Queue == INSTANCE FencedQueue WITH
    status <- [j \in Jobs |-> QueueStatus(j)],
    epoch <- attempts,
    claim <- [w \in Workers |-> [job |-> held[w], epoch |-> claim[w]]]

(* The queue implements the abstract one: no stale worker settles a job,   *)
(* and a settled job is only ever forgotten.                               *)
ImplementsFencedQueue == Queue!Spec

=============================================================================
