------------------------ MODULE PreparationQueueProofs ------------------------
(* Theorems about the preparation queue, for every value of its constants:  *)
(* its types, that its guard admits only the latest claim however late the  *)
(* heartbeats come, and that it implements FencedQueue.                     *)
EXTENDS PreparationQueue, TLAPS

(* The assumptions on the constants, one by one. *)
LEMMA Constants ==
    /\ LastCase \in Nat \ {0}
    /\ MaxJobs \in Nat /\ MaxSessions \in Nat /\ MaxClaims \in Nat /\ MaxFaults \in Nat
  BY BoundAssumption

-----------------------------------------------------------------------------
(* The inductive invariant. *)

JobRowsOK ==
    /\ jobStatus \in [Jobs -> {"absent", "queued", "running", "deleted"} \cup Settled]
    /\ kind \in [Jobs -> {"prepare", "start"}]
    /\ attempts \in [Jobs -> 0..MaxClaims]
    /\ owner \in [Jobs -> Workers \cup {NoWorker}]
    /\ result \in [Jobs -> Sessions \cup {0}]
    /\ stale \in [Jobs -> BOOLEAN]
    /\ waiting \in [Jobs -> BOOLEAN]

SessionRowsOK ==
    /\ session \in [Sessions -> {"absent", "cases_completed"} \cup OpenStatuses \cup Settled]
    /\ prompts \in [Sessions -> SUBSET Cases]
    /\ answered \in SUBSET Sessions
    /\ run \in [Jobs \X Attempts -> {"none", "running"} \cup Settled]

ThreadsOK ==
    /\ pc \in [Workers -> {"idle", "polling"} \cup Processing \cup Failing]
    /\ held \in [Workers -> Jobs \cup {0}]
    /\ claim \in [Workers -> 0..MaxClaims]
    /\ plan \in [Workers -> Sessions \cup {0}]
    /\ step \in [Workers -> 1..(LastCase + 1)]

(* The parts that the steps disturb separately. *)
LEMMA TypeParts == TypeOK <=> JobRowsOK /\ SessionRowsOK /\ ThreadsOK /\ faults \in 0..MaxFaults
  BY DEF TypeOK, JobRowsOK, SessionRowsOK, ThreadsOK

(* A thread works on a job that was inserted, under a claim its row has     *)
(* counted, and counts the cases of a session from the first one; outside   *)
(* of an attempt it has nothing.                                            *)
ThreadKnowsJob(w) ==
    /\ Busy(w) => /\ held[w] \in Jobs
                  /\ jobStatus[held[w]] # "absent"
                  /\ claim[w] \in 1..attempts[held[w]]
    /\ ~Busy(w) => held[w] = 0 /\ claim[w] = 0
    /\ pc[w] \in {"idle", "polling", "profile", "find", "repair", "create"} => step[w] = 1
    /\ pc[w] = "personalize" => step[w] \in Cases

(* WHERE status = 'running' AND worker_id = ... admits a thread if and only  *)
(* if it works under the latest claim of a running job.                     *)
ClaimIsFenced == \A w \in Workers : held[w] # 0 =>
    (Holds(w) <=> jobStatus[held[w]] = "running" /\ attempts[held[w]] = claim[w])

IInv == TypeOK /\ (\A w \in Workers : ThreadKnowsJob(w)) /\ ClaimIsFenced

(* Before the first job. *)
LEMMA InitIInv == Init => IInv
  <1> SUFFICES ASSUME Init PROVE IInv
    OBVIOUS
  <1>1. JobRowsOK
    BY Constants DEF Init, JobRowsOK
  <1>2. SessionRowsOK
    BY DEF Init, SessionRowsOK
  <1>3. ThreadsOK /\ faults \in 0..MaxFaults
    BY Constants DEF Init, ThreadsOK
  <1>4. \A w \in Workers : ThreadKnowsJob(w)
    BY DEF Init, ThreadKnowsJob, Busy, Processing, Failing
  <1>5. ClaimIsFenced
    BY DEF Init, ClaimIsFenced
  <1> QED
    BY <1>1, <1>2, <1>3, <1>4, <1>5, TypeParts DEF IInv

-----------------------------------------------------------------------------
(* Types. *)

(* A thread that returns to its loop. *)
LEMMA IdleTypeOK ==
    ASSUME ThreadsOK, NEW w \in Workers, BecomeIdle(w)
    PROVE  ThreadsOK'
  BY Constants DEF BecomeIdle, ThreadsOK

(* The thread moves on to another label, and nothing else of it changes. *)
LEMMA GotoTypeOK ==
    ASSUME ThreadsOK, NEW w \in Workers, NEW label \in Processing \cup Failing,
           Goto(w, label), UNCHANGED <<held, claim, step>>,
           plan' \in [Workers -> Sessions \cup {0}]
    PROVE  ThreadsOK'
  BY DEF Goto, ThreadsOK

LEMMA NextTypeOK == IInv /\ [Next]_vars => TypeOK'
  <1> SUFFICES ASSUME JobRowsOK, SessionRowsOK, ThreadsOK, faults \in 0..MaxFaults,
                      \A w \in Workers : ThreadKnowsJob(w), [Next]_vars
               PROVE  JobRowsOK' /\ SessionRowsOK' /\ ThreadsOK' /\ (faults \in 0..MaxFaults)'
    BY TypeParts DEF IInv, TypeOK, JobRowsOK, SessionRowsOK, ThreadsOK
  <1>1. ASSUME NEW k \in {"prepare", "start"}, Enqueue(k)
        PROVE  JobRowsOK' /\ SessionRowsOK' /\ ThreadsOK' /\ faults' = faults
    <2>1. JobRowsOK'
      BY <1>1 DEF Enqueue, JobRowsOK
    <2> QED
      BY <1>1, <2>1 DEF Enqueue, SessionRowsOK, ThreadsOK, sessionVars, workVars
  <1>2. ASSUME NEW w \in Workers, SkipMaintenance(w) \/ EmptyPoll(w)
        PROVE  JobRowsOK' /\ SessionRowsOK' /\ ThreadsOK' /\ faults' = faults
    BY <1>2 DEF SkipMaintenance, EmptyPoll, JobRowsOK, SessionRowsOK, ThreadsOK, jobVars,
                sessionVars
  <1>3. ASSUME NEW w \in Workers, RunMaintenance(w)
        PROVE  JobRowsOK' /\ SessionRowsOK' /\ ThreadsOK' /\ faults' = faults
    <2>1. JobRowsOK'
      BY <1>3 DEF RunMaintenance, JobRowsOK
    <2>2. SessionRowsOK'
      BY <1>3 DEF RunMaintenance, SessionRowsOK, sessionVars
    <2> QED
      BY <1>3, <2>1, <2>2 DEF RunMaintenance, ThreadsOK
  <1>4. ASSUME NEW w \in Workers, NEW j \in Jobs, Claim(w, j)
        PROVE  JobRowsOK' /\ SessionRowsOK' /\ ThreadsOK' /\ faults' = faults
    <2>1. attempts[j] + 1 \in 0..MaxClaims
      BY <1>4, Constants DEF Claim, JobRowsOK
    <2>2. JobRowsOK'
      BY <1>4, <2>1 DEF Claim, JobRowsOK
    <2>3. ThreadsOK'
      BY <1>4, <2>1 DEF Claim, ThreadsOK, Processing
    <2> QED
      BY <1>4, <2>2, <2>3 DEF Claim, SessionRowsOK, sessionVars
  <1>5. ASSUME NEW w \in Workers, PrepareProfile(w)
        PROVE  JobRowsOK' /\ SessionRowsOK' /\ ThreadsOK' /\ faults' = faults
    BY <1>5 DEF PrepareProfile, Goto, Processing, JobRowsOK, SessionRowsOK, ThreadsOK, jobVars,
                sessionVars
  <1>6. ASSUME NEW w \in Workers, FindSession(w)
        PROVE  JobRowsOK' /\ SessionRowsOK' /\ ThreadsOK' /\ faults' = faults
    <2>1. ThreadsOK'
      BY <1>6 DEF FindSession, Goto, Processing, ThreadsOK
    <2> QED
      BY <1>6, <2>1 DEF FindSession, JobRowsOK, SessionRowsOK, jobVars, sessionVars
  <1>7. ASSUME NEW w \in Workers, RepairSession(w)
        PROVE  JobRowsOK' /\ SessionRowsOK' /\ ThreadsOK' /\ faults' = faults
    <2>1. ThreadsOK'
      BY <1>7 DEF RepairSession, Goto, Processing, ThreadsOK
    <2>2. SessionRowsOK'
      BY <1>7 DEF RepairSession, PromptsAfterRepair, SessionRowsOK, Settled
    <2> QED
      BY <1>7, <2>1, <2>2 DEF RepairSession, JobRowsOK, jobVars
  <1>8. ASSUME NEW w \in Workers, CreateSession(w)
        PROVE  JobRowsOK' /\ SessionRowsOK' /\ ThreadsOK' /\ faults' = faults
    <2>1. ThreadsOK'
      BY <1>8 DEF CreateSession, Goto, Processing, ThreadsOK
    <2>2. SessionRowsOK'
      BY <1>8 DEF CreateSession, SessionRowsOK, OpenStatuses
    <2> QED
      BY <1>8, <2>1, <2>2 DEF CreateSession, JobRowsOK, jobVars
  <1>9. ASSUME NEW w \in Workers, PersonalizeCase(w)
        PROVE  JobRowsOK' /\ SessionRowsOK' /\ ThreadsOK' /\ faults' = faults
    <2>1. step[w] \in Cases
      BY <1>9 DEF PersonalizeCase, ThreadKnowsJob
    <2>2. step[w] + 1 \in 1..(LastCase + 1)
      BY <2>1, Constants DEF Cases
    <2>3. ThreadsOK'
      BY <1>9, <2>2 DEF PersonalizeCase, Goto, Processing, ThreadsOK
    <2>4. SessionRowsOK'
      BY <1>9, <2>1 DEF PersonalizeCase, SessionRowsOK
    <2> QED
      BY <1>9, <2>3, <2>4 DEF PersonalizeCase, JobRowsOK, jobVars
  <1>10. ASSUME NEW w \in Workers, NEW label \in Failing, PersonalizationFails(w, label)
         PROVE  JobRowsOK' /\ SessionRowsOK' /\ ThreadsOK' /\ faults' = faults
    <2>1. SessionRowsOK'
      BY <1>10 DEF PersonalizationFails, SetRun, SessionRowsOK, Settled
    <2>2. ThreadsOK'
      BY <1>10, GotoTypeOK DEF PersonalizationFails, ThreadsOK
    <2> QED
      BY <1>10, <2>1, <2>2 DEF PersonalizationFails, JobRowsOK, jobVars
  <1>11. ASSUME NEW w \in Workers, ActivateSession(w)
         PROVE  JobRowsOK' /\ SessionRowsOK' /\ ThreadsOK' /\ faults' = faults
    <2>1. SessionRowsOK'
      BY <1>11 DEF ActivateSession, SetRun, SessionRowsOK, OpenStatuses, Settled
    <2>2. ThreadsOK'
      BY <1>11, GotoTypeOK DEF ActivateSession, ThreadsOK, Processing
    <2> QED
      BY <1>11, <2>1, <2>2 DEF ActivateSession, JobRowsOK, jobVars
  <1>12. ASSUME NEW w \in Workers, NEW label \in Failing, RaiseError(w, label)
         PROVE  JobRowsOK' /\ SessionRowsOK' /\ ThreadsOK' /\ faults' = faults
    <2>1. ThreadsOK'
      BY <1>12, GotoTypeOK DEF RaiseError, ThreadsOK
    <2> QED
      BY <1>12, <2>1 DEF RaiseError, JobRowsOK, SessionRowsOK, jobVars, sessionVars
  <1>13. ASSUME NEW w \in Workers, Complete(w)
         PROVE  JobRowsOK' /\ SessionRowsOK' /\ ThreadsOK' /\ faults' = faults
    <2>1. JobRowsOK'
      BY <1>13 DEF Complete, SettleJob, JobRowsOK, ThreadsOK, Settled
    <2> QED
      BY <1>13, <2>1, IdleTypeOK DEF Complete, SessionRowsOK, sessionVars
  <1>14. ASSUME NEW w \in Workers, Fail(w)
         PROVE  JobRowsOK' /\ SessionRowsOK' /\ ThreadsOK' /\ faults' = faults
    <2>1. Retries(w) \in BOOLEAN
      BY DEF Retries
    <2>2. JobRowsOK'
      BY <1>14, <2>1 DEF Fail, SettleJob, JobRowsOK, Settled
    <2>3. SessionRowsOK'
      BY <1>14 DEF Fail, RunAfterFailure, SessionRowsOK, sessionVars, Settled
    <2> QED
      BY <1>14, <2>2, <2>3, IdleTypeOK DEF Fail
  <1>15. ASSUME NEW w \in Workers, FailLost(w) \/ Crash(w)
         PROVE  JobRowsOK' /\ SessionRowsOK' /\ ThreadsOK' /\ faults' \in 0..MaxFaults
    <2>1. faults' \in 0..MaxFaults
      BY <1>15, Constants DEF FailLost, Crash
    <2> QED
      BY <1>15, <2>1, IdleTypeOK DEF FailLost, Crash, JobRowsOK, SessionRowsOK, jobVars, sessionVars
  <1>16. ASSUME NEW w \in Workers, Heartbeat(w)
         PROVE  JobRowsOK' /\ SessionRowsOK' /\ ThreadsOK' /\ faults' = faults
    BY <1>16 DEF Heartbeat, JobRowsOK, SessionRowsOK, ThreadsOK, sessionVars, workVars
  <1>17. ASSUME NEW j \in Jobs, Age(j) \/ EndBackoff(j)
         PROVE  JobRowsOK' /\ SessionRowsOK' /\ ThreadsOK' /\ faults' = faults
    BY <1>17 DEF Age, EndBackoff, JobRowsOK, SessionRowsOK, ThreadsOK, sessionVars, workVars
  <1>18. ASSUME NEW s \in Sessions, FinishCases(s)
         PROVE  JobRowsOK' /\ SessionRowsOK' /\ ThreadsOK' /\ faults' = faults
    <2>1. SessionRowsOK'
      BY <1>18 DEF FinishCases, SessionRowsOK
    <2> QED
      BY <1>18, <2>1 DEF FinishCases, JobRowsOK, ThreadsOK, jobVars, workVars
  <1>19. ASSUME UNCHANGED vars
         PROVE  JobRowsOK' /\ SessionRowsOK' /\ ThreadsOK' /\ faults' = faults
    BY <1>19 DEF vars, jobVars, sessionVars, workVars, JobRowsOK, SessionRowsOK, ThreadsOK
  <1> QED
    BY <1>1, <1>2, <1>3, <1>4, <1>5, <1>6, <1>7, <1>8, <1>9, <1>10, <1>11, <1>12, <1>13, <1>14,
       <1>15, <1>16, <1>17, <1>18, <1>19 DEF Next, WorkerStep, ClockStep

-----------------------------------------------------------------------------
(* What a thread knows of its job. *)

(* A row that was inserted is never absent again, and counts its claims up. *)
LEMMA RowsStay ==
    ASSUME JobRowsOK, [Next]_vars, NEW j \in Jobs, jobStatus[j] # "absent"
    PROVE  jobStatus'[j] # "absent" /\ 1..attempts[j] \subseteq 1..attempts'[j]
  <1>1. jobStatus'[j] # "absent"
    BY DEF JobRowsOK, Next, WorkerStep, ClockStep, Enqueue, SkipMaintenance, RunMaintenance,
           EmptyPoll, Claim, PrepareProfile, FindSession, RepairSession, CreateSession,
           PersonalizeCase, PersonalizationFails, ActivateSession, Complete, RaiseError, Fail,
           SettleJob, FailLost, Heartbeat, Crash, Age, EndBackoff, FinishCases, vars, jobVars
  <1>2. UNCHANGED attempts \/ \E i \in Jobs : attempts' = [attempts EXCEPT ![i] = @ + 1]
    BY DEF Next, WorkerStep, ClockStep, Enqueue, SkipMaintenance, RunMaintenance,
           EmptyPoll, Claim, PrepareProfile, FindSession, RepairSession, CreateSession,
           PersonalizeCase, PersonalizationFails, ActivateSession, Complete, RaiseError, Fail,
           SettleJob, FailLost, Heartbeat, Crash, Age, EndBackoff, FinishCases, vars, jobVars
  <1>3. attempts[j] \in Nat /\ attempts'[j] \in {attempts[j], attempts[j] + 1}
    BY <1>2 DEF JobRowsOK
  <1> QED
    BY <1>1, <1>3

(* A step that leaves v alone leaves what v knows. *)
LEMMA OtherKnowsJob ==
    ASSUME JobRowsOK, [Next]_vars, NEW v \in Workers, ThreadKnowsJob(v),
           pc'[v] = pc[v], held'[v] = held[v], claim'[v] = claim[v], step'[v] = step[v]
    PROVE  ThreadKnowsJob(v)'
  BY RowsStay DEF ThreadKnowsJob, Busy

(* A thread that returned to its loop has nothing. *)
LEMMA IdleKnowsJob ==
    ASSUME ThreadsOK, NEW w \in Workers, BecomeIdle(w), NEW v \in Workers
    PROVE  IF v = w THEN ThreadKnowsJob(v)'
           ELSE pc'[v] = pc[v] /\ held'[v] = held[v] /\ claim'[v] = claim[v] /\ step'[v] = step[v]
  BY DEF BecomeIdle, ThreadsOK, ThreadKnowsJob, Busy, Processing, Failing

LEMMA NextThreadKnowsJob ==
    IInv /\ [Next]_vars => (\A v \in Workers : ThreadKnowsJob(v))'
  <1> SUFFICES ASSUME JobRowsOK, ThreadsOK, \A w \in Workers : ThreadKnowsJob(w), [Next]_vars,
                      NEW v \in Workers
               PROVE  ThreadKnowsJob(v)'
    BY TypeParts DEF IInv
  <1>1. CASE UNCHANGED <<pc, held, claim, step>>
    BY <1>1, OtherKnowsJob
  <1>2. ASSUME NEW w \in Workers, SkipMaintenance(w) \/ RunMaintenance(w) \/ EmptyPoll(w)
        PROVE  ThreadKnowsJob(v)'
    <2>1. CASE v = w
      BY <1>2, <2>1 DEF SkipMaintenance, RunMaintenance, EmptyPoll, ThreadsOK, ThreadKnowsJob,
                        Busy, Processing, Failing
    <2>2. CASE v # w
      BY <1>2, <2>2, OtherKnowsJob DEF SkipMaintenance, RunMaintenance, EmptyPoll, ThreadsOK
    <2> QED
      BY <2>1, <2>2
  <1>3. ASSUME NEW w \in Workers, NEW j \in Jobs, Claim(w, j) PROVE ThreadKnowsJob(v)'
    <2>1. CASE v = w
      <3>1. attempts'[j] = attempts[j] + 1 /\ attempts[j] + 1 \in 1..attempts'[j]
        BY <1>3, Constants DEF Claim, JobRowsOK
      <3> QED
        BY <1>3, <2>1, <3>1 DEF Claim, ThreadsOK, JobRowsOK, ThreadKnowsJob, Busy, Processing
    <2>2. CASE v # w
      BY <1>3, <2>2, OtherKnowsJob DEF Claim, ThreadsOK
    <2> QED
      BY <2>1, <2>2
  <1>4. ASSUME NEW w \in Workers,
               PrepareProfile(w) \/ FindSession(w) \/ RepairSession(w) \/ ActivateSession(w)
        PROVE  ThreadKnowsJob(v)'
    <2>1. CASE v = w
      <3>1. /\ pc[w] \in Processing /\ pc'[w] \in Processing \ {"profile", "personalize"}
            /\ held'[w] = held[w] /\ claim'[w] = claim[w] /\ step'[w] = step[w]
            /\ pc'[w] \in {"find", "repair", "create"} => step[w] = 1
        BY <1>4 DEF PrepareProfile, FindSession, RepairSession, ActivateSession, Goto,
                    Processing, ThreadsOK, ThreadKnowsJob
      <3>2. /\ held[w] \in Jobs /\ jobStatus'[held[w]] # "absent"
            /\ claim[w] \in 1..attempts'[held[w]]
        BY <3>1, RowsStay DEF ThreadKnowsJob, Busy
      <3> QED
        BY <2>1, <3>1, <3>2 DEF ThreadKnowsJob, Busy, Processing, Failing
    <2>2. CASE v # w
      BY <1>4, <2>2, OtherKnowsJob
      DEF PrepareProfile, FindSession, RepairSession, ActivateSession, Goto, ThreadsOK
    <2> QED
      BY <2>1, <2>2
  <1>5. ASSUME NEW w \in Workers, CreateSession(w) PROVE ThreadKnowsJob(v)'
    <2>1. CASE v = w
      BY <1>5, <2>1, RowsStay, Constants
      DEF CreateSession, Goto, ThreadsOK, ThreadKnowsJob, Busy, Processing, Cases
    <2>2. CASE v # w
      BY <1>5, <2>2, OtherKnowsJob DEF CreateSession, Goto, ThreadsOK
    <2> QED
      BY <2>1, <2>2
  <1>6. ASSUME NEW w \in Workers, PersonalizeCase(w) PROVE ThreadKnowsJob(v)'
    <2>1. CASE v = w
      <3>1. step[w] # LastCase => step[w] + 1 \in Cases
        BY <1>6, Constants DEF PersonalizeCase, ThreadKnowsJob, Cases
      <3> QED
        BY <1>6, <2>1, <3>1, RowsStay
        DEF PersonalizeCase, IsLast, Goto, ThreadsOK, ThreadKnowsJob, Busy, Processing
    <2>2. CASE v # w
      BY <1>6, <2>2, OtherKnowsJob DEF PersonalizeCase, Goto, ThreadsOK
    <2> QED
      BY <2>1, <2>2
  <1>7. ASSUME NEW w \in Workers, NEW label \in Failing,
               RaiseError(w, label) \/ PersonalizationFails(w, label)
        PROVE  ThreadKnowsJob(v)'
    <2>1. CASE v = w
      BY <1>7, <2>1, RowsStay
      DEF RaiseError, PersonalizationFails, Goto, ThreadsOK, ThreadKnowsJob, Busy, Processing,
          Failing
    <2>2. CASE v # w
      BY <1>7, <2>2, OtherKnowsJob DEF RaiseError, PersonalizationFails, Goto, ThreadsOK
    <2> QED
      BY <2>1, <2>2
  <1>8. ASSUME NEW w \in Workers, Complete(w) \/ Fail(w) \/ FailLost(w) \/ Crash(w)
        PROVE  ThreadKnowsJob(v)'
    <2>1. BecomeIdle(w)
      BY <1>8 DEF Complete, Fail, FailLost, Crash
    <2> QED
      BY <2>1, IdleKnowsJob, OtherKnowsJob
  <1>9. ASSUME \/ \E k \in {"prepare", "start"} : Enqueue(k)
               \/ \E w \in Workers : Heartbeat(w)
               \/ ClockStep
               \/ \E s \in Sessions : FinishCases(s)
               \/ UNCHANGED vars
        PROVE  UNCHANGED <<pc, held, claim, step>>
    BY <1>9 DEF Enqueue, Heartbeat, ClockStep, Age, EndBackoff, FinishCases, vars, workVars
  <1> QED
    BY <1>1, <1>2, <1>3, <1>4, <1>5, <1>6, <1>7, <1>8, <1>9 DEF Next, WorkerStep

-----------------------------------------------------------------------------
(* Fencing: only Claim raises attempts or names an owner, and it names the *)
(* claiming thread.                                                        *)

(* The steps that leave the rows and the claims alone. *)
LEMMA ElsewhereClaims ==
    ASSUME \/ \E w \in Workers :
                \/ SkipMaintenance(w) \/ EmptyPoll(w) \/ PrepareProfile(w) \/ FindSession(w)
                \/ RepairSession(w) \/ CreateSession(w) \/ PersonalizeCase(w)
                \/ ActivateSession(w) \/ Heartbeat(w)
                \/ \E label \in Failing : RaiseError(w, label) \/ PersonalizationFails(w, label)
           \/ ClockStep
           \/ \E s \in Sessions : FinishCases(s)
           \/ UNCHANGED vars
    PROVE  UNCHANGED <<jobStatus, attempts, owner, held, claim>>
  BY DEF SkipMaintenance, EmptyPoll, PrepareProfile, FindSession, RepairSession, CreateSession,
         PersonalizeCase, ActivateSession, Heartbeat, RaiseError, PersonalizationFails,
         ClockStep, Age, EndBackoff, FinishCases, vars, jobVars, workVars

LEMMA NextClaimIsFenced == IInv /\ [Next]_vars => ClaimIsFenced'
  <1> SUFFICES ASSUME JobRowsOK, ThreadsOK, \A w \in Workers : ThreadKnowsJob(w), ClaimIsFenced,
                      [Next]_vars, NEW v \in Workers, held'[v] # 0
               PROVE  (Holds(v) <=> jobStatus[held[v]] = "running"
                                    /\ attempts[held[v]] = claim[v])'
    BY TypeParts DEF IInv, ClaimIsFenced
  <1> DEFINE Fenced == (Holds(v) <=> jobStatus[held[v]] = "running"
                                     /\ attempts[held[v]] = claim[v])'
  <1> USE DEF Holds
  (* A step that leaves the thread its claim, and the row or what it says.  *)
  <1>1. ASSUME held'[v] = held[v], claim'[v] = claim[v], attempts'[held[v]] = attempts[held[v]],
               \/ jobStatus'[held[v]] = jobStatus[held[v]] /\ owner'[held[v]] = owner[held[v]]
               \/ jobStatus[held[v]] # "running" /\ jobStatus'[held[v]] # "running"
               \/ jobStatus'[held[v]] # "running"
        PROVE  Fenced
    BY <1>1 DEF ClaimIsFenced
  <1> HIDE DEF Fenced
  <1>2. ASSUME UNCHANGED <<jobStatus, attempts, owner, held, claim>> PROVE Fenced
    BY <1>1, <1>2
  <1>3. ASSUME NEW k \in {"prepare", "start"}, Enqueue(k) PROVE Fenced
    <2>1. held[v] \in Jobs /\ jobStatus[held[v]] # "absent"
      BY <1>3 DEF Enqueue, workVars, ThreadKnowsJob
    <2>2. jobStatus'[held[v]] = jobStatus[held[v]]
      BY <1>3, <2>1 DEF Enqueue, JobRowsOK
    <2> QED
      BY <1>1, <1>3, <2>2 DEF Enqueue, workVars
  <1>4. ASSUME NEW w \in Workers, RunMaintenance(w) PROVE Fenced
    <2>1. held[v] \in Jobs
      BY <1>4 DEF RunMaintenance, ThreadsOK
    <2>2. \/ jobStatus'[held[v]] = jobStatus[held[v]] /\ owner'[held[v]] = owner[held[v]]
          \/ jobStatus'[held[v]] # "running"
      BY <1>4, <2>1 DEF RunMaintenance
    <2> QED
      BY <1>1, <1>4, <2>2 DEF RunMaintenance
  <1>5. ASSUME NEW w \in Workers, NEW j \in Jobs, Claim(w, j) PROVE Fenced
    <2>1. CASE v = w
      BY <1>5, <2>1 DEF Claim, JobRowsOK, ThreadsOK, Fenced
    <2>2. CASE v # w
      <3>1. held'[v] = held[v] /\ claim'[v] = claim[v]
        BY <1>5, <2>2 DEF Claim, ThreadsOK
      <3>2. CASE held[v] = j
        <4>1. claim[v] \in 1..attempts[j] /\ attempts[j] \in Nat
          BY <1>5, <3>1, <3>2 DEF ThreadKnowsJob, JobRowsOK
        <4>2. attempts'[j] = attempts[j] + 1 /\ owner'[j] = w
          BY <1>5 DEF Claim, JobRowsOK
        <4> QED
          BY <2>2, <3>1, <3>2, <4>1, <4>2 DEF Fenced
      <3>3. CASE held[v] # j
        BY <1>1, <1>5, <3>1, <3>3 DEF Claim, JobRowsOK
      <3> QED
        BY <3>2, <3>3
    <2> QED
      BY <2>1, <2>2
  <1>6. ASSUME NEW w \in Workers, Complete(w) \/ Fail(w) PROVE Fenced
    <2>1. BecomeIdle(w) /\ attempts' = attempts
      BY <1>6 DEF Complete, Fail
    <2>2. v # w /\ held'[v] = held[v] /\ claim'[v] = claim[v]
      BY <2>1 DEF BecomeIdle, ThreadsOK
    <2>3. \/ UNCHANGED <<jobStatus, owner>>
          \/ \E end \in {"completed", "queued", "failed"} : SettleJob(w, end)
      BY <1>6 DEF Complete, Fail
    <2>4. \/ jobStatus'[held[v]] = jobStatus[held[v]] /\ owner'[held[v]] = owner[held[v]]
          \/ jobStatus'[held[v]] # "running"
      BY <2>2, <2>3 DEF SettleJob, JobRowsOK, ThreadsOK
    <2> QED
      BY <1>1, <2>1, <2>2, <2>4
  <1>7. ASSUME NEW w \in Workers, FailLost(w) \/ Crash(w) PROVE Fenced
    <2>1. BecomeIdle(w) /\ UNCHANGED <<jobStatus, attempts, owner>>
      BY <1>7 DEF FailLost, Crash, jobVars
    <2>2. held'[v] = held[v] /\ claim'[v] = claim[v]
      BY <2>1 DEF BecomeIdle, ThreadsOK
    <2> QED
      BY <1>1, <2>1, <2>2
  <1> QED
    BY <1>2, <1>3, <1>4, <1>5, <1>6, <1>7, ElsewhereClaims DEF Next, WorkerStep, Fenced

LEMMA NextIInv == IInv /\ [Next]_vars => IInv'
  BY NextTypeOK, NextThreadKnowsJob, NextClaimIsFenced DEF IInv

(* The inductive invariant holds in every reachable state. *)
THEOREM IInvHolds == Spec => []IInv
  BY InitIInv, NextIInv, PTL DEF Spec

(* The type invariant of the queue, its sessions and stage runs.            *)
THEOREM TypeCorrect == Spec => []TypeOK
  <1>1. IInv => TypeOK
    BY DEF IInv
  <1> QED
    BY <1>1, IInvHolds, PTL

(* However late the heartbeats come, the guard of complete and fail         *)
(* (WHERE status = 'running' AND worker_id = ...) admits the latest claim,  *)
(* as long as the job is running, and no other.                             *)
THEOREM ClaimsAreFenced == Spec => []ClaimIsFenced
  <1>1. IInv => ClaimIsFenced
    BY DEF IInv
  <1> QED
    BY <1>1, IInvHolds, PTL
-----------------------------------------------------------------------------
(* The refinement of FencedQueue. *)

(* The abstract variables. *)
QStatus == [j \in Jobs |-> QueueStatus(j)]
QClaim == [w \in Workers |-> [job |-> held[w], epoch |-> claim[w]]]

(* The empty table is the empty queue. *)
LEMMA InitQueue == Init => Queue!Init
  BY DEF Init, Queue!Init, Queue!NoClaim, QueueStatus

(* Inserting a job is Submit. *)
LEMMA SubmitStep ==
    ASSUME JobRowsOK, NEW k \in {"prepare", "start"}, Enqueue(k)
    PROVE  Queue!Next \/ UNCHANGED Queue!vars
  <1>1. QClaim' = QClaim /\ attempts' = attempts
    BY DEF Enqueue, workVars, QClaim
  <1>2. CASE UNCHANGED jobStatus
    BY <1>1, <1>2 DEF Queue!vars, QueueStatus, QClaim
  <1>3. CASE \E j \in Jobs : jobStatus[j] = "absent"
                            /\ jobStatus' = [jobStatus EXCEPT ![j] = "queued"]
    <2>1. PICK j \in Jobs : jobStatus[j] = "absent"
                           /\ jobStatus' = [jobStatus EXCEPT ![j] = "queued"]
      BY <1>3
    <2>2. QStatus[j] = "none" /\ QStatus' = [QStatus EXCEPT ![j] = "waiting"]
      BY <2>1 DEF QStatus, QueueStatus, JobRowsOK
    <2> QED
      BY <1>1, <2>2 DEF Queue!Next, Queue!Submit, QStatus, QClaim
  <1> QED
    BY <1>2, <1>3 DEF Enqueue

(* Recovery and retention are Maintain. *)
LEMMA MaintainStep ==
    ASSUME JobRowsOK, NEW w \in Workers, RunMaintenance(w)
    PROVE  Queue!Next
  <1> DEFINE R == {j \in Jobs : Expired(j)}
             F == {j \in Jobs : Outlived(j)}
  <1>1. (\A j \in R : QStatus[j] = "taken") /\ (\A j \in F : QStatus[j] \in Queue!Settled)
    BY DEF QStatus, QueueStatus, Expired, Outlived, Settled, Queue!Settled
  <1>2. QStatus' = [j \in Jobs |->
            IF j \in R THEN "waiting" ELSE IF j \in F THEN "gone" ELSE QStatus[j]]
    BY DEF RunMaintenance, QStatus, QueueStatus, JobRowsOK
  <1>3. QClaim' = QClaim /\ attempts' = attempts
    BY DEF RunMaintenance, QClaim
  <1>4. Queue!Maintain(R, F)
    BY <1>1, <1>2, <1>3 DEF Queue!Maintain, QStatus, QClaim
  <1> QED
    BY <1>4 DEF Queue!Next

(* Claiming is Take, by a thread without a claim. *)
LEMMA TakeStep ==
    ASSUME JobRowsOK, ThreadsOK, NEW w \in Workers, ThreadKnowsJob(w), NEW j \in Jobs, Claim(w, j)
    PROVE  Queue!Next
  <1>1. QClaim[w] = Queue!NoClaim
    BY DEF Claim, ThreadKnowsJob, Busy, Processing, Failing, QClaim, Queue!NoClaim
  <1>2. /\ QStatus[j] = "waiting"
        /\ QStatus' = [i \in Jobs |-> IF i = j THEN "taken" ELSE QStatus[i]]
    BY DEF Claim, Due, QStatus, QueueStatus, JobRowsOK
  <1>3. QClaim' = [QClaim EXCEPT ![w] = [job |-> j, epoch |-> attempts[j] + 1]]
    BY DEF Claim, QClaim, ThreadsOK
  <1>4. attempts' = [attempts EXCEPT ![j] = @ + 1]
    BY DEF Claim
  <1>5. Queue!Take(w, j, {})
    BY <1>1, <1>2, <1>3, <1>4 DEF Queue!Take, QClaim, QStatus
  <1> QED
    BY <1>5 DEF Queue!Next

(* A thread that forgets its claim. *)
LEMMA DropStep ==
    ASSUME ThreadsOK, NEW w \in Workers, BecomeIdle(w), UNCHANGED <<jobStatus, attempts>>
    PROVE  Queue!Next
  <1>1. QClaim' = [QClaim EXCEPT ![w] = Queue!NoClaim]
    BY DEF QClaim, BecomeIdle, ThreadsOK, Queue!NoClaim
  <1>2. QStatus' = QStatus
    BY DEF QStatus, QueueStatus
  <1> QED
    BY <1>1, <1>2 DEF Queue!Next, Queue!Drop, QStatus, QClaim

(* A guarded update is Settle: the guard admits the latest claim only. *)
LEMMA SettleStep ==
    ASSUME JobRowsOK, ThreadsOK, ClaimIsFenced,
           NEW w \in Workers, Holds(w), BecomeIdle(w), attempts' = attempts,
           NEW outcome \in {"queued", "completed", "failed"},
           jobStatus' = [jobStatus EXCEPT ![held[w]] = outcome]
    PROVE  Queue!Next
  <1>1. held[w] \in Jobs /\ attempts[held[w]] = claim[w]
    BY Constants DEF ClaimIsFenced, Holds, ThreadsOK, Jobs
  <1>2. QClaim' = [QClaim EXCEPT ![w] = Queue!NoClaim]
    BY DEF QClaim, BecomeIdle, ThreadsOK, Queue!NoClaim
  <1>3. PICK end \in {"waiting", "done", "failed"} :
          QStatus' = [QStatus EXCEPT ![held[w]] = end]
    <2>1. CASE outcome = "queued"
      BY <1>1, <2>1 DEF QStatus, QueueStatus, JobRowsOK
    <2>2. CASE outcome = "completed"
      BY <1>1, <2>2 DEF QStatus, QueueStatus, JobRowsOK
    <2>3. CASE outcome = "failed"
      BY <1>1, <2>3 DEF QStatus, QueueStatus, JobRowsOK
    <2> QED
      BY <2>1, <2>2, <2>3
  <1>4. QClaim[w].job = held[w] /\ QClaim[w].epoch = claim[w] /\ QStatus[held[w]] = "taken"
    BY <1>1 DEF QClaim, QStatus, QueueStatus, Holds
  <1>5. Queue!Settle(w, end)
    BY <1>1, <1>2, <1>3, <1>4 DEF Queue!Settle, Queue!Current, QClaim, QStatus
  <1> QED
    BY <1>5, <1>3 DEF Queue!Next, Queue!Settled

(* Every step is a step of the abstract queue or a stutter. *)
LEMMA NextQueue == IInv /\ [Next]_vars => [Queue!Next]_(Queue!vars)
  <1> SUFFICES ASSUME JobRowsOK, ThreadsOK, \A w \in Workers : ThreadKnowsJob(w), ClaimIsFenced,
                      [Next]_vars
               PROVE  Queue!Next \/ UNCHANGED Queue!vars
    BY TypeParts DEF IInv
  <1>1. ASSUME NEW k \in {"prepare", "start"}, Enqueue(k)
        PROVE  Queue!Next \/ UNCHANGED Queue!vars
    BY <1>1, SubmitStep
  <1>2. ASSUME NEW w \in Workers, RunMaintenance(w) PROVE Queue!Next
    BY <1>2, MaintainStep
  <1>3. ASSUME NEW w \in Workers, NEW j \in Jobs, Claim(w, j) PROVE Queue!Next
    BY <1>3, TakeStep
  <1>4. ASSUME NEW w \in Workers, Complete(w) PROVE Queue!Next
    <2>1. CASE Holds(w)
      BY <1>4, <2>1, SettleStep DEF Complete, SettleJob
    <2>2. CASE ~Holds(w)
      BY <1>4, <2>2, DropStep DEF Complete
    <2> QED
      BY <2>1, <2>2
  <1>5. ASSUME NEW w \in Workers, Fail(w) PROVE Queue!Next
    <2>1. CASE Holds(w)
      <3>1. PICK outcome \in {"queued", "failed"} :
              jobStatus' = [jobStatus EXCEPT ![held[w]] = outcome]
        BY <1>5, <2>1 DEF Fail, SettleJob
      <3> QED
        BY <1>5, <2>1, <3>1, SettleStep DEF Fail
    <2>2. CASE ~Holds(w)
      BY <1>5, <2>2, DropStep DEF Fail
    <2> QED
      BY <2>1, <2>2
  <1>6. ASSUME NEW w \in Workers, FailLost(w) \/ Crash(w) PROVE Queue!Next
    BY <1>6, DropStep DEF FailLost, Crash, jobVars
  <1>7. ASSUME UNCHANGED <<jobStatus, attempts, held, claim>> PROVE UNCHANGED Queue!vars
    BY <1>7 DEF Queue!vars, QueueStatus
  <1> QED
    BY <1>1, <1>2, <1>3, <1>4, <1>5, <1>6, <1>7, ElsewhereClaims DEF Next, WorkerStep

(* Every behaviour of the preparation queue is one of the abstract queue,   *)
(* although attempts overlap: no stale worker settles a job.                *)
THEOREM Refinement == Spec => ImplementsFencedQueue
  BY InitQueue, NextQueue, IInvHolds, PTL DEF Spec, ImplementsFencedQueue, Queue!Spec
-----------------------------------------------------------------------------
(* What the queue inherits from FencedQueue. *)

Laws == INSTANCE FencedQueueProofs WITH
    status <- [j \in Jobs |-> QueueStatus(j)],
    epoch <- attempts,
    claim <- [w \in Workers |-> [job |-> held[w], epoch |-> claim[w]]]

(* The theorems are about the queue that is implemented. *)
LEMMA SameQueue == Queue!Spec => Laws!Spec
  <1>1. Queue!Init => Laws!Init
    BY DEF Queue!Init, Laws!Init, Queue!NoClaim, Laws!NoClaim
  <1>2. [Queue!Next]_(Queue!vars) => [Laws!Next]_(Laws!vars)
    BY DEF Queue!Next, Queue!Submit, Queue!Take, Queue!Maintain, Queue!Settle, Queue!Drop,
           Queue!Current, Queue!NoClaim, Queue!Settled, Queue!vars,
           Laws!Next, Laws!Submit, Laws!Take, Laws!Maintain, Laws!Settle, Laws!Drop,
           Laws!Current, Laws!NoClaim, Laws!Settled, Laws!vars
  <1> QED
    BY <1>1, <1>2, PTL DEF Queue!Spec, Laws!Spec

(* A settled preparation keeps its status until retention deletes the row,  *)
(* and a deleted row does not come back, whoever still works on the job.    *)
SettledJobStays ==
    [][\A j \in Jobs : /\ jobStatus[j] \in Settled => jobStatus'[j] \in {jobStatus[j], "deleted"}
                       /\ jobStatus[j] = "deleted" => jobStatus'[j] = "deleted"]_vars

(* By the refinement it is a theorem of the abstract queue, whose updates   *)
(* of a settled row are none.                                               *)
THEOREM SettledJobs == Spec => SettledJobStays
  <1>1. TypeOK /\ TypeOK' /\ [Laws!SettledStays]_(Laws!vars) =>
          [\A j \in Jobs : /\ jobStatus[j] \in Settled =>
                                jobStatus'[j] \in {jobStatus[j], "deleted"}
                           /\ jobStatus[j] = "deleted" => jobStatus'[j] = "deleted"]_vars
    <2> SUFFICES ASSUME JobRowsOK, JobRowsOK', [Laws!SettledStays]_(Laws!vars), NEW j \in Jobs
                 PROVE  /\ jobStatus[j] \in Settled => jobStatus'[j] \in {jobStatus[j], "deleted"}
                        /\ jobStatus[j] = "deleted" => jobStatus'[j] = "deleted"
      BY DEF TypeOK, JobRowsOK
    <2>1. /\ QueueStatus(j) \in {"done", "failed"} =>
                QueueStatus(j)' \in {QueueStatus(j), "gone"}
          /\ QueueStatus(j) = "gone" => QueueStatus(j)' = "gone"
      BY DEF Laws!SettledStays, Laws!Settled, Laws!vars
    <2> QED
      BY <2>1 DEF QueueStatus, JobRowsOK, Settled
  <1> QED
    BY <1>1, SameQueue, Refinement, TypeCorrect, Laws!SettledJobStays, PTL
    DEF ImplementsFencedQueue, SettledJobStays

(* An attempt that has lost its lease, however it goes on, never passes     *)
(* the guard of its updates again.                                          *)
LostLeaseStaysLost ==
    [][\A w \in Workers : Busy(w) /\ ~Holds(w) /\ held'[w] = held[w] /\ claim'[w] = claim[w]
           => ~Holds(w)']_vars

(* The abstract queue has it for claims; here the guard is the worker_id,   *)
(* which the thread uses again for the next job (_complete, _fail).         *)
THEOREM LostLeases == Spec => LostLeaseStaysLost
  <1>1. IInv /\ IInv' /\ [Laws!LostStaysLost]_(Laws!vars) =>
          [\A w \in Workers : Busy(w) /\ ~Holds(w) /\ held'[w] = held[w] /\ claim'[w] = claim[w]
               => ~Holds(w)']_vars
    <2> SUFFICES ASSUME IInv, IInv', [Laws!LostStaysLost]_(Laws!vars),
                        NEW w \in Workers, Busy(w), held'[w] = held[w], claim'[w] = claim[w],
                        Holds(w)'
                 PROVE  Holds(w)
      OBVIOUS
    <2>1. held[w] \in Jobs /\ held[w] # 0
      BY Constants DEF IInv, ThreadKnowsJob, Jobs
    <2>2. jobStatus'[held[w]] = "running" /\ attempts'[held[w]] = claim[w]
      BY <2>1 DEF IInv, ClaimIsFenced, Holds
    <2>3. Laws!Current(w)'
      BY <2>1, <2>2 DEF Laws!Current, QueueStatus
    <2>4. Laws!Current(w)
      BY <2>3 DEF Laws!LostStaysLost, Laws!Current, Laws!vars
    <2>5. jobStatus[held[w]] = "running" /\ attempts[held[w]] = claim[w]
      BY <2>1, <2>4 DEF Laws!Current, QueueStatus, IInv, TypeOK
    <2> QED
      BY <2>1, <2>5 DEF IInv, ClaimIsFenced
  <1> QED
    BY <1>1, SameQueue, Refinement, IInvHolds, Laws!LostClaimStaysLost, PTL
    DEF ImplementsFencedQueue, LostLeaseStaysLost
=============================================================================
