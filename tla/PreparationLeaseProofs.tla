------------------------ MODULE PreparationLeaseProofs ------------------------
(* What the session of a preparation owes to the lease of its job.  None of *)
(* the statements that write a session looks at the lease: two theorems say *)
(* what a guard in them would give however late the heartbeats come, and    *)
(* the others follow for heartbeats in time, when every attempt keeps its   *)
(* lease until it ends or is lost and such a guard would never refuse.      *)
EXTENDS PreparationQueueProofs

(* The transactions in which an attempt writes its session, or the stage    *)
(* run of it.                                                               *)
WritesSession(w) ==
    \/ RepairSession(w) \/ CreateSession(w) \/ PersonalizeCase(w) \/ ActivateSession(w)
    \/ \E label \in Failing : PersonalizationFails(w, label)

(* The guard they lack: WHERE status = 'running' AND worker_id = ...        *)
GuardedWrites == \A w \in Workers : WritesSession(w) => Holds(w)

(* Every living attempt is still the one its job's row names. *)
LeaseKept == \A w \in Workers : Busy(w) => Holds(w)

(* The partial unique index and the advisory lock: one active job.          *)
OneActiveJob == \A i, j \in Jobs : Active(i) /\ Active(j) => i = j

(* With heartbeats in time only an orphan's lock grows old.                 *)
LeaseOK ==
    /\ LeaseKept
    /\ \A j \in Jobs, w \in Workers : Expired(j) => ~(Holds(w) /\ held[w] = j)

Held(j) == \E w \in Workers : Holds(w) /\ held[w] = j

(* A job that is to be claimed again has an attempt left for it, or a lost  *)
(* one paid for it.                                                         *)
BudgetOK == \A j \in Jobs :
    /\ attempts[j] <= MaxAttempts + faults
    /\ \/ jobStatus[j] \in {"absent", "queued"}
       \/ jobStatus[j] = "running" /\ ~Held(j)
       => attempts[j] < MaxAttempts + faults

(* The steps that are neither about a job's row nor about having one.       *)
QuietStep ==
    \/ \E w \in Workers :
        \/ SkipMaintenance(w) \/ EmptyPoll(w) \/ PrepareProfile(w) \/ FindSession(w)
        \/ RepairSession(w) \/ CreateSession(w) \/ PersonalizeCase(w) \/ ActivateSession(w)
        \/ Heartbeat(w)
        \/ \E label \in Failing : RaiseError(w, label) \/ PersonalizationFails(w, label)
    \/ \E j \in Jobs : EndBackoff(j)
    \/ \E s \in Sessions : FinishCases(s)
    \/ UNCHANGED vars

LEMMA QuietStepsAre ==
    ASSUME JobRowsOK, ThreadsOK, QuietStep
    PROVE  /\ UNCHANGED <<jobStatus, kind, attempts, owner, result, held, claim, faults>>
           /\ \A w \in Workers : Busy(w)' <=> Busy(w)
           /\ \A j \in Jobs : stale'[j] => stale[j]
  <1>1. UNCHANGED <<jobStatus, kind, attempts, owner, result, held, claim, faults>>
    BY DEF QuietStep, SkipMaintenance, EmptyPoll, PrepareProfile, FindSession, RepairSession,
           CreateSession, PersonalizeCase, ActivateSession, Heartbeat, RaiseError,
           PersonalizationFails, EndBackoff, FinishCases, vars, jobVars, workVars
  <1>2. ASSUME NEW w \in Workers PROVE Busy(w)' <=> Busy(w)
    BY DEF QuietStep, SkipMaintenance, EmptyPoll, PrepareProfile, FindSession, RepairSession,
           CreateSession, PersonalizeCase, ActivateSession, Heartbeat, RaiseError,
           PersonalizationFails, EndBackoff, FinishCases, vars, workVars, ThreadsOK, Goto, Busy,
           Processing, Failing
  <1>3. UNCHANGED stale \/ \E w \in Workers : stale' = [stale EXCEPT ![held[w]] = FALSE]
    BY DEF QuietStep, SkipMaintenance, EmptyPoll, PrepareProfile, FindSession, RepairSession,
           CreateSession, PersonalizeCase, ActivateSession, Heartbeat, RaiseError,
           PersonalizationFails, EndBackoff, FinishCases, vars, jobVars
  <1>4. \A j \in Jobs : stale'[j] => stale[j]
    BY <1>3 DEF JobRowsOK
  <1> QED
    BY <1>1, <1>2, <1>4

(* Steps of the queue, by what they do to the rows of the jobs.             *)
LEMMA NextCases ==
    ASSUME [Next]_vars
    PROVE  \/ QuietStep
           \/ \E k \in {"prepare", "start"} : Enqueue(k)
           \/ \E w \in Workers : \/ RunMaintenance(w) \/ Complete(w) \/ Fail(w)
                                 \/ FailLost(w) \/ Crash(w)
           \/ \E w \in Workers, j \in Jobs : Claim(w, j)
           \/ \E j \in Jobs : Age(j)
  BY DEF Next, WorkerStep, ClockStep, QuietStep

-----------------------------------------------------------------------------

LEMMA NextOneActiveJob ==
    IInv /\ OneActiveJob /\ [Next]_vars => OneActiveJob'
  <1> SUFFICES ASSUME JobRowsOK, ThreadsOK, OneActiveJob, [Next]_vars PROVE OneActiveJob'
    BY TypeParts DEF IInv
  <1> USE DEF OneActiveJob, Active, JobRowsOK
  <1>1. CASE QuietStep
    BY <1>1, QuietStepsAre
  <1>2. ASSUME NEW k \in {"prepare", "start"}, Enqueue(k) PROVE OneActiveJob'
    BY <1>2 DEF Enqueue
  <1>3. ASSUME NEW w \in Workers, RunMaintenance(w) PROVE OneActiveJob'
    BY <1>3 DEF RunMaintenance, Expired, Outlived, Settled
  <1>4. ASSUME NEW w \in Workers, Complete(w) \/ Fail(w) PROVE OneActiveJob'
    BY <1>4 DEF Complete, Fail, SettleJob, Holds
  <1>5. ASSUME NEW w \in Workers, FailLost(w) \/ Crash(w) PROVE OneActiveJob'
    BY <1>5 DEF FailLost, Crash, jobVars
  <1>6. ASSUME NEW w \in Workers, NEW j \in Jobs, Claim(w, j) PROVE OneActiveJob'
    BY <1>6 DEF Claim, Due
  <1>7. ASSUME NEW j \in Jobs, Age(j) PROVE OneActiveJob'
    BY <1>7 DEF Age
  <1> QED
    BY <1>1, <1>2, <1>3, <1>4, <1>5, <1>6, <1>7, NextCases

(* A holder keeps its job through every step but its own last one. *)
LEMMA NextLeaseOK ==
    IInv /\ PunctualHeartbeat /\ LeaseOK /\ [Next]_vars => LeaseOK'
  <1> SUFFICES ASSUME JobRowsOK, ThreadsOK, \A w \in Workers : ThreadKnowsJob(w),
                      PunctualHeartbeat, LeaseOK, [Next]_vars
               PROVE  LeaseOK'
    BY TypeParts DEF IInv
  <1> USE DEF LeaseOK, LeaseKept, Expired, Holds
  <1>1. CASE QuietStep
    BY <1>1, QuietStepsAre
  <1>2. ASSUME NEW k \in {"prepare", "start"}, Enqueue(k) PROVE LeaseOK'
    BY <1>2 DEF Enqueue, workVars, Busy, JobRowsOK, ThreadsOK
  <1>3. ASSUME NEW w \in Workers, RunMaintenance(w) PROVE LeaseOK'
    <2>1. ASSUME NEW v \in Workers, Busy(v)' PROVE Holds(v)'
      <3>1. Busy(v) /\ held'[v] = held[v] /\ held[v] \in Jobs
        BY <1>3, <2>1 DEF RunMaintenance, Busy, ThreadsOK, ThreadKnowsJob, Processing, Failing
      <3>2. Holds(v) /\ ~Expired(held[v]) /\ ~Outlived(held[v])
        BY <3>1 DEF Outlived, Settled
      <3> QED
        BY <1>3, <3>1, <3>2 DEF RunMaintenance
    <2>2. ASSUME NEW j \in Jobs PROVE ~Expired(j)'
      BY <1>3 DEF RunMaintenance, JobRowsOK
    <2> QED
      BY <2>1, <2>2
  <1>4. ASSUME NEW w \in Workers, Complete(w) \/ Fail(w) PROVE LeaseOK'
    <2>1. Busy(w) /\ Holds(w) /\ held[w] \in Jobs
      BY <1>4 DEF Complete, Fail, Busy, Processing, ThreadKnowsJob
    <2>2. BecomeIdle(w) /\ \E end \in {"completed", "queued", "failed"} : SettleJob(w, end)
      BY <1>4, <2>1 DEF Complete, Fail
    <2>3. ASSUME NEW v \in Workers, v # w
          PROVE  /\ held'[v] = held[v] /\ (Busy(v)' <=> Busy(v))
                 /\ Holds(v)' <=> Holds(v)
      <3>1. held'[v] = held[v] /\ (Busy(v)' <=> Busy(v)) /\ held[v] \in Jobs \cup {0}
        BY <2>2, <2>3 DEF BecomeIdle, ThreadsOK, Busy
      <3>2. CASE held[v] = held[w]
        <4>1. ~Holds(v)
          BY <2>1, <2>3, <3>2
        <4>2. owner'[held[v]] = NoWorker
          BY <2>1, <2>2, <3>2 DEF SettleJob, JobRowsOK
        <4> QED
          BY <3>1, <4>1, <4>2, <2>3, WorkerAssumption
      <3>3. CASE held[v] # held[w]
        BY <2>2, <3>1, <3>3 DEF SettleJob, JobRowsOK
      <3> QED
        BY <3>1, <3>2, <3>3
    <2>4. ~Busy(w)' /\ ~Holds(w)'
      BY <2>2 DEF BecomeIdle, ThreadsOK, Busy, Processing, Failing
    <2>5. ASSUME NEW j \in Jobs, Expired(j)' PROVE Expired(j)
      BY <2>1, <2>2, <2>5 DEF SettleJob, JobRowsOK
    <2> QED
      BY <2>3, <2>4, <2>5
  <1>5. ASSUME NEW w \in Workers, FailLost(w) \/ Crash(w) PROVE LeaseOK'
    <2>1. UNCHANGED <<jobStatus, owner, stale>> /\ BecomeIdle(w)
      BY <1>5 DEF FailLost, Crash, jobVars
    <2>2. \A v \in Workers : /\ v # w => held'[v] = held[v] /\ (Busy(v)' <=> Busy(v))
                             /\ v = w => held'[v] = 0 /\ ~Busy(v)'
      BY <2>1 DEF BecomeIdle, ThreadsOK, Busy, Processing, Failing
    <2> QED
      BY <2>1, <2>2
  <1>6. ASSUME NEW w \in Workers, NEW i \in Jobs, Claim(w, i) PROVE LeaseOK'
    <2>1. i # 0 /\ held'[w] = i /\ jobStatus'[i] = "running" /\ owner'[i] = w
      BY <1>6 DEF Claim, JobRowsOK, ThreadsOK, Jobs
    <2>2. /\ Holds(w)' /\ held'[w] = i /\ jobStatus[i] = "queued" /\ ~stale'[i]
          /\ \A j \in Jobs : j # i => jobStatus'[j] = jobStatus[j] /\ owner'[j] = owner[j]
                                      /\ stale'[j] = stale[j]
      BY <1>6, <2>1 DEF Claim, Due, JobRowsOK
    <2>3. \A v \in Workers : v # w => held'[v] = held[v] /\ (Busy(v)' <=> Busy(v))
      BY <1>6 DEF Claim, ThreadsOK, Busy
    <2>4. \A v \in Workers : held[v] \in Jobs \cup {0}
      BY DEF ThreadsOK
    <2>5. 0 \notin Jobs
      BY Constants DEF Jobs
    <2> QED
      BY <2>2, <2>3, <2>4, <2>5
  <1>7. ASSUME NEW i \in Jobs, Age(i) PROVE LeaseOK'
    <2>1. UNCHANGED <<jobStatus, owner, pc, held>> /\ stale' = [stale EXCEPT ![i] = TRUE]
      BY <1>7 DEF Age, workVars
    <2>2. jobStatus[i] = "running" => \A w \in Workers : ~(Holds(w) /\ held[w] = i)
      BY <1>7 DEF Age, NoPunctualHolder, Settled
    <2> QED
      BY <2>1, <2>2 DEF Busy, JobRowsOK
  <1> QED
    BY <1>1, <1>2, <1>3, <1>4, <1>5, <1>6, <1>7, NextCases

-----------------------------------------------------------------------------
(* How often a job is claimed. *)

(* Nothing is claimed again unless a failure with an attempt left, or a     *)
(* fault, came before.                                                      *)
LEMMA NextBudgetOK ==
    /\ IInv /\ LeaseKept /\ BudgetOK /\ [Next]_vars /\ LeaseKept'
    => BudgetOK'
  <1> SUFFICES ASSUME JobRowsOK, ThreadsOK, \A w \in Workers : ThreadKnowsJob(w),
                      ClaimIsFenced, faults \in Nat,
                      LeaseKept, LeaseKept', BudgetOK, [Next]_vars
               PROVE  BudgetOK'
    BY TypeParts, Constants DEF IInv
  <1> USE DEF BudgetOK, Held, Holds
  <1>0. MaxAttempts \in Nat /\ \A j \in Jobs : attempts[j] \in Nat
    BY BoundAssumption, Constants DEF JobRowsOK
  <1>1. CASE QuietStep
    BY <1>1, QuietStepsAre
  <1>2. ASSUME NEW k \in {"prepare", "start"}, Enqueue(k) PROVE BudgetOK'
    BY <1>2 DEF Enqueue, workVars, JobRowsOK
  <1>3. ASSUME NEW w \in Workers, RunMaintenance(w) PROVE BudgetOK'
    <2>1. UNCHANGED <<attempts, held, faults>>
      BY <1>3 DEF RunMaintenance
    <2>2. ASSUME NEW j \in Jobs PROVE BudgetOK!(j)'
      <3>1. CASE Expired(j)
        <4>1. jobStatus'[j] # "running"
          BY <1>3, <3>1 DEF RunMaintenance
        <4>2. ~Held(j)
          <5> SUFFICES ASSUME NEW v \in Workers, Holds(v), held[v] = j PROVE FALSE
            OBVIOUS
          <5>1. Busy(v)'
            BY <1>3, <2>2, Constants
            DEF RunMaintenance, ThreadKnowsJob, ThreadsOK, Busy, Processing, Failing, Jobs
          <5> QED
            BY <2>1, <4>1, <5>1 DEF LeaseKept
        <4> QED
          BY <2>1, <3>1, <4>1, <4>2, <1>3 DEF Expired, RunMaintenance
      <3>2. CASE ~Expired(j)
        BY <1>3, <2>1, <3>2 DEF RunMaintenance
      <3> QED
        BY <3>1, <3>2
    <2> QED
      BY <2>2
  <1>4. ASSUME NEW w \in Workers, NEW i \in Jobs, Claim(w, i) PROVE BudgetOK'
    <2>1. held[w] = 0 /\ i # 0 /\ UNCHANGED faults
      BY <1>4 DEF Claim, ThreadKnowsJob, Busy, Processing, Failing, Jobs
    <2>2. /\ attempts[i] < MaxAttempts + faults /\ attempts'[i] = attempts[i] + 1
          /\ jobStatus'[i] = "running" /\ owner'[i] = w /\ held'[w] = i
      BY <1>4 DEF Claim, Due, JobRowsOK, ThreadsOK
    <2>3. ASSUME NEW j \in Jobs, j # i
          PROVE  /\ attempts'[j] = attempts[j] /\ jobStatus'[j] = jobStatus[j]
                 /\ Held(j) => Held(j)'
      BY <1>4, <2>1, <2>3 DEF Claim, JobRowsOK, ThreadsOK
    <2>4. Held(i)'
      BY <2>1, <2>2
    <2> QED
      BY <1>0, <2>1, <2>2, <2>3, <2>4
  <1>5. ASSUME NEW w \in Workers, Complete(w) \/ Fail(w) PROVE BudgetOK'
    <2>1. Holds(w) /\ held[w] \in Jobs /\ UNCHANGED <<attempts, faults>> /\ BecomeIdle(w)
      BY <1>5 DEF Complete, Fail, Busy, Processing, ThreadKnowsJob, LeaseKept
    <2>2. PICK end \in {"completed", "queued", "failed"} : SettleJob(w, end)
      BY <1>5, <2>1 DEF Complete, Fail
    <2>3. jobStatus'[held[w]] = end
      BY <2>1, <2>2 DEF SettleJob, JobRowsOK
    <2>4. jobStatus'[held[w]] = "queued" => attempts[held[w]] < MaxAttempts
      BY <1>5, <2>1 DEF Complete, Fail, SettleJob, Retries, JobRowsOK, ClaimIsFenced
    <2>5. ASSUME NEW j \in Jobs, j # held[w]
          PROVE  jobStatus'[j] = jobStatus[j] /\ (Held(j) => Held(j)')
      BY <2>1, <2>2, <2>5 DEF SettleJob, BecomeIdle, JobRowsOK, ThreadsOK
    <2> QED
      BY <1>0, <2>1, <2>3, <2>4, <2>5
  <1>6. ASSUME NEW w \in Workers, FailLost(w) \/ Crash(w) PROVE BudgetOK'
    <2>1. UNCHANGED <<jobStatus, attempts>> /\ faults' = faults + 1
      BY <1>6 DEF FailLost, Crash, jobVars
    <2> QED
      BY <1>0, <2>1
  <1>7. ASSUME NEW i \in Jobs, Age(i) PROVE BudgetOK'
    BY <1>7 DEF Age, workVars
  <1> QED
    BY <1>1, <1>2, <1>3, <1>4, <1>5, <1>6, <1>7, NextCases

-----------------------------------------------------------------------------
(* The user's sessions. *)

Open(s) == session[s] \in OpenStatuses

(* What a thread read of the sessions is still so when it writes them, as   *)
(* long as it holds its job.                                                *)
PlanOK(w) ==
    /\ pc[w] = "create" => \A s \in Sessions : ~Open(s)
    /\ pc[w] = "repair" => /\ plan[w] \in Sessions
                           /\ session[plan[w]] \in OpenStatuses \cup {"cases_completed"}
                           /\ \A s \in Sessions : Open(s) => s = plan[w]
    /\ pc[w] \in {"personalize", "activate"} =>
        /\ plan[w] \in Sessions
        /\ session[plan[w]] = "created"
        /\ \A j \in Jobs : result[j] # plan[w]
        /\ \A k \in Cases : k < step[w] => k \in prompts[plan[w]]
    /\ pc[w] = "activate" => prompts[plan[w]] = Cases
    /\ pc[w] = "settle" => /\ plan[w] \in Sessions
                           /\ session[plan[w]] \notin {"absent", "failed"}
                           /\ prompts[plan[w]] = Cases

Writing == {"create", "repair", "personalize", "activate", "settle"}

(* A delivered session also exists. *)
DeliveredOK ==
    \A j \in Jobs : result[j] # 0 =>
        session[result[j]] \notin {"absent", "failed"} /\ prompts[result[j]] = Cases

SessionsOK == OneOpenSession /\ (\A w \in Workers : Holds(w) => PlanOK(w)) /\ DeliveredOK

LEMMA HoldsAlone ==
    ASSUME ThreadsOK, OneActiveJob, NEW v \in Workers, NEW w \in Workers, Holds(v), Holds(w)
    PROVE  v = w
  BY DEF Holds, ThreadsOK, OneActiveJob, Active

(* A step that touches no session, no result and no plan. *)
LEMMA ElsewhereSessionsOK ==
    ASSUME SessionsOK, UNCHANGED <<session, prompts, result>>,
           \A w \in Workers :
               \/ pc'[w] \notin Writing
               \/ /\ pc'[w] = pc[w] /\ plan'[w] = plan[w] /\ step'[w] = step[w]
                  /\ Holds(w)' => Holds(w)
    PROVE  SessionsOK'
  <1>1. ASSUME NEW w \in Workers, Holds(w)' PROVE PlanOK(w)'
    <2>1. CASE pc'[w] \notin Writing
      BY <2>1 DEF PlanOK, Writing
    <2>2. CASE pc'[w] = pc[w] /\ plan'[w] = plan[w] /\ step'[w] = step[w]
               /\ (Holds(w)' => Holds(w))
      BY <1>1, <2>2 DEF SessionsOK, PlanOK, Open
    <2> QED
      BY <2>1, <2>2
  <1> QED
    BY <1>1 DEF SessionsOK, OneOpenSession, DeliveredOK

GuardedInv == IInv /\ OneActiveJob /\ SessionsOK /\ FailedJobHasNoRunningStage

(* Only the holder of the job has a plan to keep. *)
LEMMA AloneSessionsOK ==
    ASSUME GuardedInv, NEW w \in Workers, Holds(w),
           \A v \in Workers : v # w => (Holds(v)' => Holds(v)),
           (OneOpenSession /\ PlanOK(w) /\ DeliveredOK)'
    PROVE  SessionsOK'
  <1>1. ASSUME NEW v \in Workers, v # w PROVE ~Holds(v)'
    BY <1>1, HoldsAlone, TypeParts DEF GuardedInv, IInv
  <1> QED
    BY <1>1 DEF SessionsOK

(* The steps that are not about a session. *)
LEMMA ElsewhereSteps ==
    ASSUME JobRowsOK, ThreadsOK, SessionsOK,
           \/ \E k \in {"prepare", "start"} : Enqueue(k)
           \/ \E w \in Workers :
                \/ SkipMaintenance(w) \/ RunMaintenance(w) \/ EmptyPoll(w) \/ PrepareProfile(w)
                \/ Fail(w) \/ FailLost(w) \/ Crash(w) \/ Heartbeat(w)
                \/ \E j \in Jobs : Claim(w, j)
                \/ \E label \in Failing : RaiseError(w, label)
           \/ ClockStep
           \/ UNCHANGED vars
    PROVE  SessionsOK'
  <1>1. UNCHANGED <<session, prompts, result>>
    BY DEF Enqueue, SkipMaintenance, RunMaintenance, EmptyPoll, PrepareProfile, Fail, FailLost,
           Crash, Heartbeat, Claim, RaiseError, ClockStep, Age, EndBackoff, vars, jobVars,
           sessionVars
  <1>2. ASSUME NEW v \in Workers
        PROVE  \/ pc'[v] \notin Writing
               \/ /\ pc'[v] = pc[v] /\ plan'[v] = plan[v] /\ step'[v] = step[v]
                  /\ held'[v] = held[v]
    BY DEF Enqueue, SkipMaintenance, RunMaintenance, EmptyPoll, PrepareProfile, Fail, FailLost,
           Crash, Heartbeat, Claim, RaiseError, ClockStep, Age, EndBackoff, vars, workVars,
           BecomeIdle, Goto, ThreadsOK, Writing, Failing
  <1>3. ASSUME NEW v \in Workers, held'[v] = held[v], pc'[v] \in Writing, Holds(v)'
        PROVE  Holds(v)
    <2>1. held[v] \in Jobs /\ held[v] # 0
      BY <1>3 DEF Holds, ThreadsOK
    <2>2. ASSUME NEW w \in Workers, NEW j \in Jobs, Claim(w, j) PROVE Holds(v)
      BY <1>3, <2>1, <2>2 DEF Claim, Holds, JobRowsOK, ThreadsOK, Writing
    <2>3. ASSUME NEW w \in Workers, Fail(w) PROVE Holds(v)
      BY <1>3, <2>1, <2>3 DEF Fail, SettleJob, Holds, JobRowsOK
    <2>4. ASSUME NEW k \in {"prepare", "start"}, Enqueue(k) PROVE Holds(v)
      BY <1>3, <2>1, <2>4 DEF Enqueue, Holds, JobRowsOK
    <2>5. ASSUME NEW w \in Workers, RunMaintenance(w) PROVE Holds(v)
      BY <1>3, <2>1, <2>5 DEF RunMaintenance, Holds
    <2>6. ASSUME UNCHANGED <<jobStatus, owner>> PROVE Holds(v)
      BY <1>3, <2>6 DEF Holds
    <2> QED
      BY <2>2, <2>3, <2>4, <2>5, <2>6
      DEF SkipMaintenance, EmptyPoll, PrepareProfile, FailLost, Crash, Heartbeat, RaiseError,
          ClockStep, Age, EndBackoff, vars, jobVars
  <1> QED
    BY <1>1, <1>2, <1>3, ElsewhereSessionsOK

LEMMA NextSessionsOK == GuardedInv /\ [Next]_vars /\ [GuardedWrites]_vars => SessionsOK'
  <1> SUFFICES ASSUME GuardedInv, [Next]_vars, [GuardedWrites]_vars PROVE SessionsOK'
    OBVIOUS
  <1>0. /\ JobRowsOK /\ SessionRowsOK /\ ThreadsOK /\ (\A w \in Workers : ThreadKnowsJob(w))
        /\ OneOpenSession /\ (\A w \in Workers : Holds(w) => PlanOK(w)) /\ DeliveredOK
    BY TypeParts DEF GuardedInv, IInv, SessionsOK
  <1>9. ASSUME NEW w \in Workers, WritesSession(w)
        PROVE  /\ Holds(w) /\ PlanOK(w)
               /\ \A v \in Workers : v # w => (Holds(v)' => Holds(v))
    <2>1. UNCHANGED <<jobStatus, owner, held>> /\ (pc'[w] # pc[w] \/ step'[w] # step[w])
      BY <1>0, <1>9, Constants
      DEF WritesSession, RepairSession, CreateSession, PersonalizeCase, ActivateSession,
          PersonalizationFails, Goto, Failing, ThreadsOK, ThreadKnowsJob, Cases, jobVars
    <2> QED
      BY <1>0, <1>9, <2>1 DEF GuardedWrites, Holds, vars, workVars
  <1>1. ASSUME NEW w \in Workers, FindSession(w) PROVE SessionsOK'
    <2>1. \A v \in Workers : /\ Holds(v)' <=> Holds(v)
                             /\ v # w => pc'[v] = pc[v] /\ plan'[v] = plan[v] /\ step'[v] = step[v]
      BY <1>0, <1>1 DEF FindSession, Goto, Holds, ThreadsOK, jobVars
    <2>2. UNCHANGED <<session, prompts, result>>
      BY <1>1 DEF FindSession, jobVars, sessionVars
    <2>3. PlanOK(w)'
      <3>1. CASE (\A s \in Sessions : ~Finds(s)) /\ Goto(w, "create")
        BY <1>0, <2>2, <3>1 DEF PlanOK, Goto, ThreadsOK, Open, Finds
      <3>2. ASSUME NEW s \in Sessions, Finds(s), plan' = [plan EXCEPT ![w] = s],
                   Goto(w, "repair")
            PROVE  PlanOK(w)'
        BY <1>0, <2>2, <3>2 DEF PlanOK, Goto, ThreadsOK, Open, Finds, OneOpenSession
      <3> QED
        BY <1>1, <3>1, <3>2 DEF FindSession
    <2> QED
      BY <1>0, <2>1, <2>2, <2>3 DEF SessionsOK, OneOpenSession, DeliveredOK, PlanOK, Open
  <1>2. ASSUME NEW w \in Workers, RepairSession(w) PROVE SessionsOK'
    <2>1. Holds(w) /\ PlanOK(w) /\ (\A v \in Workers : v # w => (Holds(v)' => Holds(v)))
      BY <1>2, <1>9 DEF WritesSession
    <2>2. /\ pc[w] = "repair" /\ plan[w] \in Sessions /\ UNCHANGED result
          /\ session[plan[w]] \in OpenStatuses \cup {"cases_completed"}
          /\ \A s \in Sessions : Open(s) => s = plan[w]
      BY <1>0, <1>2, <2>1 DEF RepairSession, PlanOK, jobVars
    <2>3. CASE plan[w] \in answered
      <3>1. /\ session' = [session EXCEPT ![plan[w]] = "completed"]
            /\ pc'[w] = "create" /\ UNCHANGED prompts
        BY <1>0, <1>2, <2>3 DEF RepairSession, Goto, ThreadsOK
      <3>2. \A s \in Sessions : ~Open(s)'
        BY <1>0, <2>2, <3>1 DEF Open, OpenStatuses, SessionRowsOK
      <3>3. DeliveredOK'
        BY <1>0, <2>2, <3>1 DEF DeliveredOK, SessionRowsOK, JobRowsOK
      <3> QED
        BY <2>1, <3>1, <3>2, <3>3, AloneSessionsOK DEF PlanOK, OneOpenSession, Open
    <2>4. CASE plan[w] \notin answered
      <3>1. /\ prompts' = [prompts EXCEPT ![plan[w]] = Cases]
            /\ pc'[w] = "settle" /\ UNCHANGED <<session, plan>>
        BY <1>0, <1>2, <2>4 DEF RepairSession, PromptsAfterRepair, Goto, ThreadsOK
      <3>2. PlanOK(w)'
        BY <1>0, <2>2, <3>1 DEF PlanOK, SessionRowsOK, OpenStatuses
      <3>3. DeliveredOK'
        BY <1>0, <2>2, <3>1 DEF DeliveredOK, SessionRowsOK, JobRowsOK
      <3> QED
        BY <1>0, <2>1, <3>1, <3>2, <3>3, AloneSessionsOK DEF OneOpenSession
    <2> QED
      BY <2>3, <2>4
  <1>3. ASSUME NEW w \in Workers, CreateSession(w) PROVE SessionsOK'
    <2>1. Holds(w) /\ PlanOK(w) /\ (\A v \in Workers : v # w => (Holds(v)' => Holds(v)))
      BY <1>3, <1>9 DEF WritesSession
    <2>2. PICK s \in Sessions : /\ session[s] = "absent"
                                /\ session' = [session EXCEPT ![s] = "created"]
                                /\ plan' = [plan EXCEPT ![w] = s]
      BY <1>3 DEF CreateSession
    <2>3. /\ \A t \in Sessions : ~Open(t)
          /\ pc'[w] = "personalize" /\ step'[w] = 1 /\ plan'[w] = s
          /\ UNCHANGED <<prompts, result>>
      BY <1>0, <1>3, <2>1, <2>2 DEF CreateSession, PlanOK, Goto, ThreadsOK, ThreadKnowsJob, jobVars
    <2>4. \A t \in Sessions : t # s => ~Open(t)'
      BY <1>0, <2>2, <2>3 DEF Open, SessionRowsOK
    <2>5. s # 0 /\ (\A j \in Jobs : result[j] # s)
      BY <1>0, <2>2 DEF DeliveredOK, Sessions
    <2>6. DeliveredOK'
      BY <1>0, <2>2, <2>3, <2>5 DEF DeliveredOK, SessionRowsOK, JobRowsOK
    <2>7. PlanOK(w)'
      BY <1>0, <2>2, <2>3, <2>5 DEF PlanOK, SessionRowsOK, Cases
    <2> QED
      BY <2>1, <2>4, <2>6, <2>7, AloneSessionsOK DEF OneOpenSession, Open
  <1>4. ASSUME NEW w \in Workers, PersonalizeCase(w) PROVE SessionsOK'
    <2>1. Holds(w) /\ PlanOK(w) /\ (\A v \in Workers : v # w => (Holds(v)' => Holds(v)))
      BY <1>4, <1>9 DEF WritesSession
    <2>2. /\ step[w] \in Cases /\ plan[w] \in Sessions /\ session[plan[w]] = "created"
          /\ \A j \in Jobs : result[j] # plan[w]
          /\ \A k \in Cases : k < step[w] => k \in prompts[plan[w]]
      BY <1>0, <1>4, <2>1 DEF PersonalizeCase, PlanOK, ThreadKnowsJob
    <2>3. /\ prompts' = [prompts EXCEPT ![plan[w]] = @ \cup {step[w]}]
          /\ step'[w] = step[w] + 1 /\ UNCHANGED <<session, plan, result>>
          /\ pc'[w] = IF step[w] = LastCase THEN "activate" ELSE "personalize"
      BY <1>0, <1>4 DEF PersonalizeCase, IsLast, Goto, ThreadsOK, jobVars
    <2>4. \A k \in Cases : k < step[w] + 1 => k \in prompts'[plan[w]]
      BY <1>0, <2>2, <2>3, Constants DEF SessionRowsOK, Cases
    <2>5. pc'[w] = "activate" => prompts'[plan[w]] = Cases
      <3> SUFFICES ASSUME step[w] = LastCase PROVE prompts'[plan[w]] = Cases
        BY <2>3
      <3>1. prompts'[plan[w]] \subseteq Cases
        BY <1>0, <2>2, <2>3 DEF SessionRowsOK
      <3>2. \A k \in Cases : k < LastCase + 1
        BY Constants DEF Cases
      <3> QED
        BY <2>4, <3>1, <3>2
    <2>6. PlanOK(w)'
      BY <2>2, <2>3, <2>4, <2>5 DEF PlanOK
    <2>7. DeliveredOK'
      BY <1>0, <2>2, <2>3 DEF DeliveredOK, SessionRowsOK, JobRowsOK
    <2> QED
      BY <1>0, <2>1, <2>3, <2>6, <2>7, AloneSessionsOK DEF OneOpenSession
  <1>5. ASSUME NEW w \in Workers, NEW label \in Failing, PersonalizationFails(w, label)
        PROVE  SessionsOK'
    <2>1. Holds(w) /\ PlanOK(w) /\ (\A v \in Workers : v # w => (Holds(v)' => Holds(v)))
      BY <1>5, <1>9 DEF WritesSession
    <2>2. /\ plan[w] \in Sessions /\ (\A j \in Jobs : result[j] # plan[w])
          /\ session' = [session EXCEPT ![plan[w]] = "failed"]
          /\ pc'[w] \in Failing /\ UNCHANGED <<prompts, result>>
      BY <1>0, <1>5, <2>1 DEF PersonalizationFails, PlanOK, Goto, ThreadsOK, jobVars
    <2>3. OneOpenSession'
      BY <1>0, <2>2 DEF OneOpenSession, OpenStatuses, SessionRowsOK
    <2>4. DeliveredOK'
      BY <1>0, <2>2 DEF DeliveredOK, SessionRowsOK, JobRowsOK
    <2> QED
      BY <2>1, <2>2, <2>3, <2>4, AloneSessionsOK DEF PlanOK, Failing
  <1>6. ASSUME NEW w \in Workers, ActivateSession(w) PROVE SessionsOK'
    <2>1. Holds(w) /\ PlanOK(w) /\ (\A v \in Workers : v # w => (Holds(v)' => Holds(v)))
      BY <1>6, <1>9 DEF WritesSession
    <2>2. /\ plan[w] \in Sessions /\ session[plan[w]] = "created" /\ prompts[plan[w]] = Cases
          /\ session' = [session EXCEPT ![plan[w]] = "active"]
          /\ pc'[w] = "settle" /\ UNCHANGED <<prompts, result, plan>>
      BY <1>0, <1>6, <2>1 DEF ActivateSession, PlanOK, Goto, ThreadsOK, jobVars
    <2>3. OneOpenSession'
      BY <1>0, <2>2 DEF OneOpenSession, OpenStatuses, SessionRowsOK
    <2>4. DeliveredOK'
      BY <1>0, <2>2 DEF DeliveredOK, SessionRowsOK, JobRowsOK
    <2>5. PlanOK(w)'
      BY <1>0, <2>2 DEF PlanOK, SessionRowsOK
    <2> QED
      BY <2>1, <2>3, <2>4, <2>5, AloneSessionsOK
  <1>7. ASSUME NEW w \in Workers, Complete(w) PROVE SessionsOK'
    <2>1. UNCHANGED <<session, prompts>> /\ held'[w] = 0
      BY <1>0, <1>7 DEF Complete, BecomeIdle, ThreadsOK, sessionVars
    <2>2. ASSUME NEW v \in Workers, Holds(v)'
          PROVE  v # w /\ Holds(v) /\ pc'[v] = pc[v] /\ plan'[v] = plan[v] /\ step'[v] = step[v]
      BY <1>0, <1>7, <2>1, <2>2 DEF Complete, BecomeIdle, SettleJob, Holds, JobRowsOK, ThreadsOK
    <2>3. CASE Holds(w)
      <3>1. session[plan[w]] \notin {"absent", "failed"} /\ prompts[plan[w]] = Cases
        BY <1>0, <1>7, <2>3 DEF Complete, PlanOK
      <3>2. \A j \in Jobs : result'[j] \in {result[j], plan[w], 0}
        BY <1>0, <1>7 DEF Complete, JobRowsOK
      <3>3. DeliveredOK'
        BY <1>0, <2>1, <3>1, <3>2 DEF DeliveredOK
      <3>4. ASSUME NEW v \in Workers PROVE ~Holds(v)'
        BY <1>0, <2>2, <2>3, HoldsAlone DEF GuardedInv
      <3> QED
        BY <1>0, <2>1, <3>3, <3>4 DEF SessionsOK, OneOpenSession
    <2>4. CASE ~Holds(w)
      <3>1. UNCHANGED result
        BY <1>7, <2>4 DEF Complete
      <3> QED
        BY <1>0, <2>1, <2>2, <3>1 DEF SessionsOK, OneOpenSession, DeliveredOK, PlanOK, Open
    <2> QED
      BY <2>3, <2>4
  <1>8. ASSUME NEW s \in Sessions, FinishCases(s) PROVE SessionsOK'
    <2>1. /\ session' = [session EXCEPT ![s] = "cases_completed"] /\ session[s] \in OpenStatuses
          /\ \E j \in Jobs : result[j] = s
          /\ UNCHANGED <<prompts, result, pc, plan, step>>
          /\ \A w \in Workers : Holds(w)' <=> Holds(w)
      BY <1>8 DEF FinishCases, Holds, jobVars, workVars
    <2>2. OneOpenSession' /\ DeliveredOK'
      BY <1>0, <2>1 DEF OneOpenSession, DeliveredOK, OpenStatuses, SessionRowsOK, JobRowsOK
    <2>3. ASSUME NEW w \in Workers, Holds(w)' PROVE PlanOK(w)'
      BY <1>0, <2>1, <2>3 DEF PlanOK, Open, OpenStatuses, SessionRowsOK
    <2> QED
      BY <2>2, <2>3 DEF SessionsOK
  <1> QED
    BY <1>0, <1>1, <1>2, <1>3, <1>4, <1>5, <1>6, <1>7, <1>8, ElsewhereSteps
    DEF Next, WorkerStep, GuardedInv

-----------------------------------------------------------------------------
(* The stage runs of a failed job. *)

(* The row of a run is written only under the job that runs it. *)
LEMMA MyRunStep ==
    ASSUME JobRowsOK, SessionRowsOK, FailedJobHasNoRunningStage, UNCHANGED jobStatus,
           NEW w \in Workers, jobStatus[held[w]] = "running",
           UNCHANGED run \/ \E status : run' = [run EXCEPT ![MyRun(w)] = status]
    PROVE  FailedJobHasNoRunningStage'
  <1> SUFFICES ASSUME NEW j \in Jobs, jobStatus[j] = "failed", NEW a \in Attempts
               PROVE  run'[<<j, a>>] # "running"
    BY DEF FailedJobHasNoRunningStage
  <1>1. j # held[w] /\ run[<<j, a>>] # "running"
    BY DEF FailedJobHasNoRunningStage
  <1> QED
    BY <1>1 DEF MyRun, SessionRowsOK

LEMMA NextNoRunningStage ==
    /\ IInv /\ FailedJobHasNoRunningStage /\ [Next]_vars /\ [GuardedWrites]_vars
    => FailedJobHasNoRunningStage'
  <1> SUFFICES ASSUME JobRowsOK, SessionRowsOK, ThreadsOK,
                      \A w \in Workers : ThreadKnowsJob(w),
                      FailedJobHasNoRunningStage, [Next]_vars, [GuardedWrites]_vars
               PROVE  FailedJobHasNoRunningStage'
    BY TypeParts DEF IInv
  <1>1. ASSUME NEW w \in Workers, UNCHANGED run \/ GuardedWrites,
               \/ PersonalizeCase(w) \/ ActivateSession(w)
               \/ \E label \in Failing : PersonalizationFails(w, label)
        PROVE  FailedJobHasNoRunningStage'
    <2>1. UNCHANGED jobStatus
      BY <1>1 DEF PersonalizeCase, ActivateSession, PersonalizationFails, jobVars
    <2>2. CASE UNCHANGED run
      BY <2>1, <2>2 DEF FailedJobHasNoRunningStage
    <2>3. CASE GuardedWrites
      <3>1. \E status : run' = [run EXCEPT ![MyRun(w)] = status] \/ UNCHANGED run
        BY <1>1 DEF PersonalizeCase, ActivateSession, PersonalizationFails, SetRun
      <3>2. jobStatus[held[w]] = "running"
        BY <1>1, <2>3 DEF GuardedWrites, WritesSession, Holds
      <3> QED
        BY <2>1, <3>1, <3>2, MyRunStep
    <2> QED
      BY <1>1, <2>2, <2>3
  <1>2. ASSUME NEW w \in Workers, Fail(w) PROVE FailedJobHasNoRunningStage'
    <2>1. held[w] \in Jobs /\ \A j \in Jobs : j # held[w] => jobStatus'[j] = jobStatus[j]
      BY <1>2 DEF Fail, SettleJob, JobRowsOK, ThreadKnowsJob, Busy
    <2>2. ASSUME NEW j \in Jobs, NEW a \in Attempts
          PROVE  run'[<<j, a>>] = IF j = held[w] THEN RunAfterFailure(<<j, a>>) ELSE run[<<j, a>>]
      BY <1>2 DEF Fail
    <2> QED
      BY <2>1, <2>2 DEF FailedJobHasNoRunningStage, RunAfterFailure
  <1>3. ASSUME NEW w \in Workers, RunMaintenance(w) PROVE FailedJobHasNoRunningStage'
    <2> SUFFICES ASSUME NEW j \in Jobs, jobStatus'[j] = "failed", NEW a \in Attempts
                 PROVE  run'[<<j, a>>] # "running"
      BY DEF FailedJobHasNoRunningStage
    <2>1. jobStatus[j] = "failed"
      BY <1>3 DEF RunMaintenance
    <2>2. run'[<<j, a>>] \in {"none", run[<<j, a>>]}
      BY <1>3 DEF RunMaintenance
    <2> QED
      BY <2>1, <2>2 DEF FailedJobHasNoRunningStage
  <1>4. ASSUME \/ \E k \in {"prepare", "start"} : Enqueue(k)
               \/ \E w \in Workers, j \in Jobs : Claim(w, j)
               \/ \E w \in Workers : Complete(w)
        PROVE  FailedJobHasNoRunningStage'
    <2>1. UNCHANGED run
      BY <1>4 DEF Enqueue, Claim, Complete
    <2>2. \A j \in Jobs : jobStatus'[j] = "failed" => jobStatus[j] = "failed"
      BY <1>4 DEF Enqueue, Claim, Complete, SettleJob, JobRowsOK
    <2> QED
      BY <2>1, <2>2 DEF FailedJobHasNoRunningStage
  <1>5. ASSUME \/ \E w \in Workers :
                    \/ SkipMaintenance(w) \/ EmptyPoll(w) \/ PrepareProfile(w) \/ FindSession(w)
                    \/ RepairSession(w) \/ CreateSession(w) \/ FailLost(w) \/ Crash(w)
                    \/ Heartbeat(w)
                    \/ \E label \in Failing : RaiseError(w, label)
               \/ ClockStep \/ (\E s \in Sessions : FinishCases(s)) \/ UNCHANGED vars
        PROVE  FailedJobHasNoRunningStage'
    <2>1. UNCHANGED <<jobStatus, run>>
      BY <1>5 DEF SkipMaintenance, EmptyPoll, PrepareProfile, FindSession, RepairSession,
                  CreateSession, FailLost, Crash, Heartbeat, RaiseError, ClockStep, Age,
                  EndBackoff, FinishCases, vars, jobVars
    <2> QED
      BY <2>1 DEF FailedJobHasNoRunningStage
  <1> QED
    BY <1>1, <1>2, <1>3, <1>4, <1>5 DEF Next, WorkerStep, vars

-----------------------------------------------------------------------------
(* The theorems. *)

LEMMA InitGuarded == Init => GuardedInv
  <1> SUFFICES ASSUME Init PROVE OneActiveJob /\ SessionsOK /\ FailedJobHasNoRunningStage
    BY InitIInv DEF GuardedInv
  <1>1. OneActiveJob /\ FailedJobHasNoRunningStage
    BY DEF Init, OneActiveJob, Active, FailedJobHasNoRunningStage
  <1>2. SessionsOK
    BY DEF Init, SessionsOK, OneOpenSession, OpenStatuses, Holds, DeliveredOK
  <1> QED
    BY <1>1, <1>2

LEMMA NextGuarded == GuardedInv /\ [Next]_vars /\ [GuardedWrites]_vars => GuardedInv'
  BY NextIInv, NextOneActiveJob, NextSessionsOK, NextNoRunningStage DEF GuardedInv

LEMMA GuardedHolds == Spec /\ [][GuardedWrites]_vars => []GuardedInv
  BY InitGuarded, NextGuarded, PTL DEF Spec

(* A user has one active job, whatever enqueues and retries it (the partial *)
(* unique index idx_assessment_preparation_jobs_active_user).               *)
THEOREM OneActive == Spec => []OneActiveJob
  <1>1. Init => IInv /\ OneActiveJob
    BY InitGuarded DEF GuardedInv
  <1>2. IInv /\ OneActiveJob /\ [Next]_vars => (IInv /\ OneActiveJob)'
    BY NextIInv, NextOneActiveJob
  <1> QED
    BY <1>1, <1>2, PTL DEF Spec

(* If every statement that writes a session or its stage run had the guard  *)
(* of the statements that write the job, a user would have one open         *)
(* session, a delivered session would stay usable and a failed job would    *)
(* leave no stage running, however late the heartbeats come: the unguarded  *)
(* writes of an attempt that outlived its lease are all that threatens them *)
(* (ensure_assessment_session, _repair_existing_session).                   *)
THEOREM GuardsKeepSessions ==
    Spec /\ [][GuardedWrites]_vars =>
        [](OneOpenSession /\ DeliveredSessionIsUsable /\ FailedJobHasNoRunningStage)
  <1>1. GuardedInv => OneOpenSession /\ DeliveredSessionIsUsable /\ FailedJobHasNoRunningStage
    BY DEF GuardedInv, SessionsOK, DeliveredOK, DeliveredSessionIsUsable
  <1> QED
    BY <1>1, GuardedHolds, PTL

(* No guarded step opens a finished or archived session again. *)
LEMMA NotReopened ==
    ASSUME GuardedInv, [Next]_vars, [GuardedWrites]_vars, NEW s \in Sessions,
           session[s] \in {"cases_completed"} \cup Settled
    PROVE  session'[s] \notin OpenStatuses
  <1>0. SessionRowsOK /\ session[s] \notin OpenStatuses \cup {"absent"}
    BY TypeParts DEF GuardedInv, IInv, OpenStatuses, Settled
  <1>1. ASSUME NEW w \in Workers, CreateSession(w) PROVE session'[s] = session[s]
    BY <1>0, <1>1 DEF CreateSession, SessionRowsOK
  <1>2. ASSUME NEW w \in Workers, ActivateSession(w) PROVE session'[s] = session[s]
    <2>1. CASE UNCHANGED vars
      BY <2>1 DEF vars, sessionVars
    <2>2. CASE GuardedWrites
      <3>1. session[plan[w]] = "created"
        BY <1>2, <2>2
        DEF ActivateSession, GuardedWrites, WritesSession, GuardedInv, SessionsOK, PlanOK
      <3> QED
        BY <1>0, <1>2, <3>1 DEF ActivateSession, SessionRowsOK, OpenStatuses
    <2> QED
      BY <2>1, <2>2
  <1>3. ASSUME \/ \E w \in Workers : RepairSession(w)
               \/ \E w \in Workers, label \in Failing : PersonalizationFails(w, label)
               \/ \E t \in Sessions : FinishCases(t)
        PROVE  session'[s] \in {session[s], "completed", "failed", "cases_completed"}
    BY <1>0, <1>3 DEF RepairSession, PersonalizationFails, FinishCases, SessionRowsOK
  <1>4. ASSUME \/ \E k \in {"prepare", "start"} : Enqueue(k)
               \/ \E w \in Workers :
                    \/ SkipMaintenance(w) \/ RunMaintenance(w) \/ EmptyPoll(w)
                    \/ PrepareProfile(w) \/ FindSession(w) \/ PersonalizeCase(w) \/ Complete(w)
                    \/ Fail(w) \/ FailLost(w) \/ Crash(w) \/ Heartbeat(w)
                    \/ \E j \in Jobs : Claim(w, j)
                    \/ \E label \in Failing : RaiseError(w, label)
               \/ ClockStep \/ UNCHANGED vars
        PROVE  session'[s] = session[s]
    BY <1>4 DEF Enqueue, SkipMaintenance, RunMaintenance, EmptyPoll, PrepareProfile,
                FindSession, PersonalizeCase, Complete, Fail, FailLost, Crash, Heartbeat, Claim,
                RaiseError, ClockStep, Age, EndBackoff, vars, sessionVars
  <1> QED
    BY <1>0, <1>1, <1>2, <1>3, <1>4 DEF Next, WorkerStep, OpenStatuses

(* With such guards a finished or archived session would not be opened      *)
(* again either, however late the heartbeats come.                          *)
THEOREM GuardsKeepClosed == Spec /\ [][GuardedWrites]_vars => FinishedSessionIsNotReopened
  <1>1. GuardedInv /\ [Next]_vars /\ [GuardedWrites]_vars =>
          [\A s \in Sessions : session[s] \in {"cases_completed"} \cup Settled =>
               session'[s] \notin OpenStatuses]_vars
    BY NotReopened
  <1> QED
    BY <1>1, GuardedHolds, PTL DEF Spec, FinishedSessionIsNotReopened

-----------------------------------------------------------------------------
(* Leases that are kept. *)

(* As long as no attempt outlives its lease, a job is claimed at most       *)
(* max_attempts times, and once more for every crash or lost failure report *)
(* (_claim_next, _fail).                                                    *)
THEOREM KeptLeasesBoundClaims == Spec /\ []LeaseKept => []ClaimsBounded
  <1>1. Init => IInv /\ BudgetOK
    BY InitIInv, BoundAssumption DEF Init, BudgetOK
  <1>2. IInv /\ BudgetOK /\ LeaseKept /\ [Next]_vars /\ LeaseKept' => (IInv /\ BudgetOK)'
    BY NextIInv, NextBudgetOK
  <1>3. IInv /\ BudgetOK => ClaimsBounded
    BY DEF BudgetOK, ClaimsBounded
  <1> QED
    BY <1>1, <1>2, <1>3, PTL DEF Spec

(* With heartbeats in time no attempt outlives its lease: the heartbeat     *)
(* thread refreshes locked_at before the maintenance may take the job back. *)
THEOREM PunctualKeepsLeases == PunctualHeartbeat => (Spec => []LeaseKept)
  <1> SUFFICES ASSUME PunctualHeartbeat PROVE Spec => []LeaseKept
    OBVIOUS
  <1>1. Init => IInv /\ LeaseOK
    BY InitIInv DEF Init, LeaseOK, LeaseKept, Busy, Processing, Failing, Expired
  <1>2. IInv /\ LeaseOK /\ [Next]_vars => (IInv /\ LeaseOK)'
    BY NextIInv, NextLeaseOK
  <1>3. IInv /\ LeaseOK => LeaseKept
    BY DEF LeaseOK
  <1> QED
    BY <1>1, <1>2, <1>3, PTL DEF Spec

(* An attempt that keeps its lease would pass every guard. *)
LEMMA KeptIsGuarded == LeaseKept => [GuardedWrites]_vars
  BY DEF LeaseKept, GuardedWrites, WritesSession, RepairSession, CreateSession, PersonalizeCase,
         ActivateSession, PersonalizationFails, Busy, Processing

-----------------------------------------------------------------------------
(* With heartbeats in time. *)

(* A job is claimed at most max_attempts times, and once more for every     *)
(* crash or lost failure report.                                            *)
THEOREM ClaimsAreBounded == Spec => [](PunctualHeartbeat => ClaimsBounded)
  <1>1. CASE PunctualHeartbeat
    BY <1>1, PunctualKeepsLeases, KeptLeasesBoundClaims, PTL
  <1>2. CASE ~PunctualHeartbeat
    <2>1. PunctualHeartbeat => ClaimsBounded
      BY <1>2
    <2> QED
      BY <2>1, PTL
  <1> QED
    BY <1>1, <1>2

(* What the guards would keep is kept. *)
LEMMA PunctualSessions ==
    Spec => [](PunctualHeartbeat => OneOpenSession /\ DeliveredSessionIsUsable
                                    /\ FailedJobHasNoRunningStage)
  <1>1. CASE PunctualHeartbeat
    BY <1>1, PunctualKeepsLeases, KeptIsGuarded, GuardsKeepSessions, PTL
  <1>2. CASE ~PunctualHeartbeat
    <2>1. PunctualHeartbeat => OneOpenSession /\ DeliveredSessionIsUsable
                               /\ FailedJobHasNoRunningStage
      BY <1>2
    <2> QED
      BY <2>1, PTL
  <1> QED
    BY <1>1, <1>2

(* No attempt creates a second open session beside the one a crashed        *)
(* attempt left (ensure_assessment_session).                                *)
THEOREM SessionIsUnique == Spec => [](PunctualHeartbeat => OneOpenSession)
  BY PunctualSessions, PTL

(* The session a start was answered with has all its prompts and is never   *)
(* archived (_complete, _repair_existing_session).                          *)
THEOREM DeliveryIsUsable == Spec => [](PunctualHeartbeat => DeliveredSessionIsUsable)
  BY PunctualSessions, PTL

(* A failed job leaves no stage run that seems to be running, those of its  *)
(* crashed attempts included (_fail).                                       *)
THEOREM FailureStopsStages == Spec => [](PunctualHeartbeat => FailedJobHasNoRunningStage)
  BY PunctualSessions, PTL

(* A finished or archived session is never opened again: what a thread      *)
(* planned to activate is still as it left it.                              *)
THEOREM NoReopening ==
    PunctualHeartbeat => (Spec => FinishedSessionIsNotReopened)
  <1> SUFFICES ASSUME PunctualHeartbeat PROVE Spec => FinishedSessionIsNotReopened
    OBVIOUS
  <1> QED
    BY PunctualKeepsLeases, KeptIsGuarded, GuardsKeepClosed, PTL

=============================================================================
