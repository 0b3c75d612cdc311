------------------------- MODULE AnalysisQueueProofs -------------------------
(* Theorems about the analysis queue, for every value of its constants. *)
EXTENDS AnalysisQueue, TLAPS

(* The backoff of _fail never exceeds its cap, whatever the attempt. *)
LEMMA RetryDelayBounded ==
    ASSUME NEW a PROVE RetryDelay(a) \in 0..RetryCap
  BY BoundAssumption DEF RetryDelay

(* The assumptions on the constants, one by one. *)
LEMMA Constants ==
    /\ LastCompetency \in Nat \ {0} /\ MaxAttempts \in Nat \ {0}
    /\ LeaseTimeout \in Nat \ {0} /\ RetryCap \in Nat \ {0}
    /\ MaintenanceInterval \in Nat /\ MaxJobs \in Nat
    /\ MaxClaims \in Nat /\ MaxFaults \in Nat
  BY BoundAssumption

-----------------------------------------------------------------------------
(* The helpers of the actions keep the types. *)

(* What a busy thread knows of the job it works on. *)
BusyHoldsJob == \A w \in Workers :
    /\ Busy(w) => /\ held[w] \in Jobs
                  /\ jobStatus[held[w]] # "absent"
                  /\ claim[w] \in 1..attempts[held[w]]
    /\ pc[w] = "calling" => step[w] \in Competencies

(* Inserting a job keeps the types of the job rows. *)
LEMMA InsertTypeOK ==
    ASSUME JobsTypeOK, NEW s \in Sessions, InsertJob(s)
    PROVE  JobsTypeOK'
  BY DEF InsertJob, JobsTypeOK

(* A thread that returns to its loop keeps the types of the threads. *)
LEMMA IdleTypeOK ==
    ASSUME WorkersTypeOK, NEW w \in Workers, BecomeIdle(w)
    PROVE  WorkersTypeOK'
  <1>1. 1 \in 1..LastCompetency + 1
    BY Constants
  <1>2. 0 \in 0..MaxClaims
    BY Constants
  <1> QED
    BY <1>1, <1>2 DEF BecomeIdle, WorkersTypeOK

(* locked_at = NOW() keeps the type of the ages. *)
LEMMA RefreshTypeOK ==
    ASSUME JobsTypeOK, NEW w \in Workers, RefreshLock(w)
    PROVE  age' \in [Jobs -> 0..LeaseTimeout + 1]
  <1>1. 0 \in 0..LeaseTimeout + 1
    BY Constants
  <1> QED
    BY <1>1 DEF RefreshLock, JobsTypeOK

(* An empty table and idle threads have the right types. *)
LEMMA InitTypeOK == Init => TypeOK
  <1> SUFFICES ASSUME Init PROVE TypeOK
    OBVIOUS
  <1>0. (CHOOSE s \in Sessions : TRUE) \in Sessions
    BY SessionAssumption
  <1>1. JobsTypeOK
    <2>1. 0 \in 0..MaxClaims /\ 0 \in 0..LeaseTimeout + 1 /\ 0 \in 0..RetryCap
      BY Constants
    <2> QED
      BY <1>0, <2>1 DEF Init, JobsTypeOK
  <1>2. WorkersTypeOK
    BY Constants DEF Init, WorkersTypeOK
  <1>3. OthersTypeOK
    BY Constants DEF Init, OthersTypeOK
  <1> QED
    BY <1>1, <1>2, <1>3 DEF TypeOK

(* Every step keeps the types; a busy thread must hold a job for it, as it *)
(* indexes the rows by that job.                                           *)
LEMMA NextTypeOK == TypeOK /\ BusyHoldsJob /\ [Next]_vars => TypeOK'
  <1> SUFFICES ASSUME JobsTypeOK, WorkersTypeOK, OthersTypeOK, BusyHoldsJob, [Next]_vars
               PROVE  JobsTypeOK' /\ WorkersTypeOK' /\ OthersTypeOK'
    BY DEF TypeOK
  <1>1. ASSUME NEW s \in Sessions, CompleteCases(s)
        PROVE  JobsTypeOK' /\ WorkersTypeOK' /\ OthersTypeOK'
    <2>1. JobsTypeOK'
      BY <1>1, InsertTypeOK DEF CompleteCases, JobsTypeOK, jobVars
    <2>2. WorkersTypeOK' /\ OthersTypeOK'
      BY <1>1 DEF CompleteCases, WorkersTypeOK, OthersTypeOK, workVars
    <2> QED
      BY <2>1, <2>2
  <1>2. ASSUME NEW c \in Clients, NEW s \in Sessions, RequestRetry(c, s)
        PROVE  JobsTypeOK' /\ WorkersTypeOK' /\ OthersTypeOK'
    BY <1>2 DEF RequestRetry, JobsTypeOK, WorkersTypeOK, OthersTypeOK, jobVars, workVars
  <1>3. ASSUME NEW c \in Clients, NEW s \in Sessions, EnqueueRetry(c, s)
        PROVE  JobsTypeOK' /\ WorkersTypeOK' /\ OthersTypeOK'
    <2>1. JobsTypeOK'
      BY <1>3, InsertTypeOK DEF EnqueueRetry, JobsTypeOK, jobVars
    <2>2. WorkersTypeOK' /\ OthersTypeOK'
      BY <1>3 DEF EnqueueRetry, WorkersTypeOK, OthersTypeOK, workVars
    <2> QED
      BY <2>1, <2>2
  <1>4. ASSUME NEW w \in Workers, SkipMaintenance(w) \/ EmptyPoll(w)
        PROVE  JobsTypeOK' /\ WorkersTypeOK' /\ OthersTypeOK'
    BY <1>4 DEF SkipMaintenance, EmptyPoll, JobsTypeOK, WorkersTypeOK, OthersTypeOK, jobVars
  <1>5. ASSUME NEW w \in Workers, RunMaintenance(w)
        PROVE  JobsTypeOK' /\ WorkersTypeOK' /\ OthersTypeOK'
    <2>1. 0 \in 0..RetryCap /\ 0 \in 0..LeaseTimeout + 1 /\ 0 \in 0..MaintenanceInterval
      BY Constants
    <2>2. JobsTypeOK'
      BY <1>5, <2>1 DEF RunMaintenance, Recovered, JobsTypeOK
    <2>3. WorkersTypeOK' /\ OthersTypeOK'
      BY <1>5, <2>1 DEF RunMaintenance, Recovered, WorkersTypeOK, OthersTypeOK
    <2> QED
      BY <2>2, <2>3
  <1>6. ASSUME NEW w \in Workers, NEW j \in Jobs, Claim(w, j)
        PROVE  JobsTypeOK' /\ WorkersTypeOK' /\ OthersTypeOK'
    <2>1. attempts[j] + 1 \in 0..MaxClaims
      BY <1>6, Constants DEF Claim, JobsTypeOK
    <2>2. 0 \in 0..LeaseTimeout + 1 /\ 1 \in 1..LastCompetency + 1
      BY Constants
    <2>3. JobsTypeOK'
      BY <1>6, <2>1, <2>2 DEF Claim, JobsTypeOK
    <2>4. WorkersTypeOK'
      BY <1>6, <2>1, <2>2 DEF Claim, WorkersTypeOK, Processing
    <2>5. OthersTypeOK'
      BY <1>6 DEF Claim, JobsTypeOK, OthersTypeOK
    <2> QED
      BY <2>3, <2>4, <2>5
  <1>7. ASSUME NEW w \in Workers, SaveProgress(w)
        PROVE  JobsTypeOK' /\ WorkersTypeOK' /\ OthersTypeOK'
    <2>1. JobsTypeOK'
      BY <1>7, RefreshTypeOK DEF SaveProgress, AllEvaluated, JobsTypeOK
    <2>2. WorkersTypeOK'
      BY <1>7 DEF SaveProgress, AllEvaluated, WorkersTypeOK, Processing
    <2>3. OthersTypeOK'
      BY <1>7 DEF SaveProgress, AllEvaluated, WorkersTypeOK, OthersTypeOK
    <2> QED
      BY <2>1, <2>2, <2>3
  <1>8. ASSUME NEW w \in Workers, Evaluate(w)
        PROVE  JobsTypeOK' /\ WorkersTypeOK' /\ OthersTypeOK'
    <2>1. step[w] \in Competencies
      BY <1>8 DEF Evaluate, BusyHoldsJob
    <2>2. step[w] + 1 \in 1..LastCompetency + 1
      BY <2>1, Constants DEF Competencies
    <2>3. WorkersTypeOK'
      BY <1>8, <2>1, <2>2 DEF Evaluate, WorkersTypeOK, Processing
    <2>4. JobsTypeOK' /\ OthersTypeOK'
      BY <1>8 DEF Evaluate, JobsTypeOK, OthersTypeOK, jobVars
    <2> QED
      BY <2>3, <2>4
  <1>9. ASSUME NEW w \in Workers, Complete(w)
        PROVE  JobsTypeOK' /\ WorkersTypeOK' /\ OthersTypeOK'
    <2>1. 0 \in 0..LeaseTimeout + 1
      BY Constants
    <2>2. JobsTypeOK'
      BY <1>9, <2>1 DEF Complete, JobsTypeOK
    <2>3. OthersTypeOK'
      BY <1>9 DEF Complete, OthersTypeOK
    <2> QED
      BY <1>9, <2>2, <2>3, IdleTypeOK DEF Complete
  <1>10. ASSUME NEW w \in Workers, RaiseError(w) \/ RejectSnapshot(w)
         PROVE  JobsTypeOK' /\ WorkersTypeOK' /\ OthersTypeOK'
    <2>1. WorkersTypeOK'
      BY <1>10 DEF RaiseError, RejectSnapshot, WorkersTypeOK, Failing
    <2>2. JobsTypeOK' /\ OthersTypeOK'
      BY <1>10 DEF RaiseError, RejectSnapshot, JobsTypeOK, OthersTypeOK, jobVars
    <2> QED
      BY <2>1, <2>2
  <1>11. ASSUME NEW w \in Workers, Fail(w)
         PROVE  JobsTypeOK' /\ WorkersTypeOK' /\ OthersTypeOK'
    <2>1. 0 \in 0..LeaseTimeout + 1 /\ RetryDelay(claim[w]) \in 0..RetryCap
      BY Constants, RetryDelayBounded
    <2>2. JobsTypeOK'
      BY <1>11, <2>1 DEF Fail, SessionAfterFailure, JobsTypeOK
    <2>3. OthersTypeOK'
      BY <1>11 DEF Fail, SessionAfterFailure, OthersTypeOK
    <2> QED
      BY <1>11, <2>2, <2>3, IdleTypeOK DEF Fail, SessionAfterFailure
  <1>12. ASSUME NEW w \in Workers, FailLost(w) \/ Crash(w)
         PROVE  JobsTypeOK' /\ WorkersTypeOK' /\ OthersTypeOK'
    <2>1. faults' \in 0..MaxFaults
      BY <1>12, Constants DEF FailLost, Crash, OthersTypeOK
    <2>2. sinceMaintenance' \in [Workers -> 0..MaintenanceInterval]
      BY <1>12, Constants DEF FailLost, Crash, OthersTypeOK
    <2>3. JobsTypeOK' /\ OthersTypeOK'
      BY <1>12, <2>1, <2>2 DEF FailLost, Crash, JobsTypeOK, OthersTypeOK, jobVars
    <2> QED
      BY <1>12, <2>3, IdleTypeOK DEF FailLost, Crash
  <1>13. ASSUME NEW w \in Workers, Heartbeat(w)
         PROVE  JobsTypeOK' /\ WorkersTypeOK' /\ OthersTypeOK'
    BY <1>13, RefreshTypeOK DEF Heartbeat, JobsTypeOK, WorkersTypeOK, OthersTypeOK, workVars
  <1>14. ASSUME Tick
         PROVE  JobsTypeOK' /\ WorkersTypeOK' /\ OthersTypeOK'
    <2>1. age' \in [Jobs -> 0..LeaseTimeout + 1]
      BY <1>14, Constants DEF Tick, JobsTypeOK
    <2>2. wait' \in [Jobs -> 0..RetryCap]
      BY <1>14, Constants DEF Tick, JobsTypeOK
    <2>3. sinceMaintenance' \in [Workers -> 0..MaintenanceInterval]
      BY <1>14, Constants DEF Tick, OthersTypeOK
    <2> QED
      BY <1>14, <2>1, <2>2, <2>3
      DEF Tick, JobsTypeOK, WorkersTypeOK, OthersTypeOK, workVars
  <1>15. ASSUME UNCHANGED vars
         PROVE  JobsTypeOK' /\ WorkersTypeOK' /\ OthersTypeOK'
    BY <1>15 DEF vars, jobVars, workVars, JobsTypeOK, WorkersTypeOK, OthersTypeOK
  <1> QED
    BY <1>1, <1>2, <1>3, <1>4, <1>5, <1>6, <1>7, <1>8, <1>9, <1>10, <1>11, <1>12,
       <1>13, <1>14, <1>15 DEF Next, WorkerStep

-----------------------------------------------------------------------------
(* The inductive invariant.  FencedClaim needs to know that a busy thread's *)
(* job is not a row that is still to be inserted; RetriesWithinLimit needs  *)
(* FencedClaim, since _fail decides by the thread's copy of the attempts.   *)

IInv == TypeOK /\ BusyHoldsJob /\ FencedClaim /\ OneActiveJobPerSession /\ RetriesWithinLimit

(* The inductive invariant holds before the first job. *)
LEMMA InitIInv == Init => IInv
  <1> SUFFICES ASSUME Init PROVE IInv
    OBVIOUS
  <1>1. TypeOK
    BY InitTypeOK
  <1>2. BusyHoldsJob
    BY DEF Init, BusyHoldsJob, Busy, Processing, Failing
  <1>3. FencedClaim
    BY DEF Init, FencedClaim, Busy, Processing, Failing
  <1>4. OneActiveJobPerSession
    BY DEF Init, OneActiveJobPerSession, Active
  <1>5. RetriesWithinLimit
    BY DEF Init, RetriesWithinLimit
  <1> QED
    BY <1>1, <1>2, <1>3, <1>4, <1>5 DEF IInv

(* A thread outside its loop has a job, from the claim to BecomeIdle, and  *)
(* the number it remembers is no larger than the row's attempts.           *)
LEMMA NextBusyHoldsJob == TypeOK /\ BusyHoldsJob /\ [Next]_vars => BusyHoldsJob'
  <1> SUFFICES ASSUME JobsTypeOK, WorkersTypeOK, BusyHoldsJob, [Next]_vars
               PROVE  BusyHoldsJob'
    BY DEF TypeOK
  <1> USE DEF BusyHoldsJob, Busy, Processing, Failing, JobsTypeOK, WorkersTypeOK
  <1>1. ASSUME NEW s \in Sessions, CompleteCases(s) PROVE BusyHoldsJob'
    BY <1>1 DEF CompleteCases, InsertJob, jobVars, workVars
  <1>2. ASSUME NEW c \in Clients, NEW s \in Sessions, RequestRetry(c, s) PROVE BusyHoldsJob'
    BY <1>2 DEF RequestRetry, jobVars, workVars
  <1>3. ASSUME NEW c \in Clients, NEW s \in Sessions, EnqueueRetry(c, s) PROVE BusyHoldsJob'
    BY <1>3 DEF EnqueueRetry, InsertJob, jobVars, workVars
  <1>4. ASSUME NEW w \in Workers, SkipMaintenance(w) \/ EmptyPoll(w) PROVE BusyHoldsJob'
    BY <1>4 DEF SkipMaintenance, EmptyPoll, jobVars
  <1>5. ASSUME NEW w \in Workers, RunMaintenance(w) PROVE BusyHoldsJob'
    BY <1>5 DEF RunMaintenance, Recovered
  <1>6. ASSUME NEW w \in Workers, NEW j \in Jobs, Claim(w, j) PROVE BusyHoldsJob'
    <2>1. attempts[j] \in Nat /\ 0 \notin Jobs
      BY Constants DEF Jobs
    <2> QED
      BY <1>6, <2>1 DEF Claim
  <1>7. ASSUME NEW w \in Workers, SaveProgress(w) PROVE BusyHoldsJob'
    <2>1. pc'[w] = "calling" => step[w] \in Competencies
      BY <1>7, Constants DEF SaveProgress, AllEvaluated, Competencies
    <2> QED
      BY <1>7, <2>1 DEF SaveProgress, AllEvaluated
  <1>8. ASSUME NEW w \in Workers, Evaluate(w) PROVE BusyHoldsJob'
    BY <1>8 DEF Evaluate, jobVars
  <1>9. ASSUME NEW w \in Workers, Complete(w) PROVE BusyHoldsJob'
    BY <1>9 DEF Complete, BecomeIdle
  <1>10. ASSUME NEW w \in Workers, RaiseError(w) \/ RejectSnapshot(w) PROVE BusyHoldsJob'
    BY <1>10 DEF RaiseError, RejectSnapshot, jobVars
  <1>11. ASSUME NEW w \in Workers, Fail(w) PROVE BusyHoldsJob'
    BY <1>11 DEF Fail, SessionAfterFailure, BecomeIdle
  <1>12. ASSUME NEW w \in Workers, FailLost(w) \/ Crash(w) PROVE BusyHoldsJob'
    BY <1>12 DEF FailLost, Crash, BecomeIdle, jobVars
  <1>13. ASSUME NEW w \in Workers, Heartbeat(w) PROVE BusyHoldsJob'
    BY <1>13 DEF Heartbeat, workVars
  <1>14. CASE Tick
    BY <1>14 DEF Tick, workVars
  <1>15. CASE UNCHANGED vars
    BY <1>15 DEF vars, jobVars, workVars
  <1> QED
    BY <1>1, <1>2, <1>3, <1>4, <1>5, <1>6, <1>7, <1>8, <1>9, <1>10, <1>11, <1>12,
       <1>13, <1>14, <1>15 DEF Next, WorkerStep

(* Only Claim changes the attempts of a job or gives it an owner, and it   *)
(* makes the claiming thread the owner: whoever held the job before fails  *)
(* the guard from then on.                                                 *)
LEMMA HolderIsLatest ==
    ASSUME TypeOK, BusyHoldsJob, FencedClaim, [Next]_vars, NEW v \in Workers, Busy(v)', Holds(v)'
    PROVE  attempts'[held'[v]] = claim'[v]
  <1> USE DEF TypeOK
  <1> USE DEF FencedClaim, BusyHoldsJob, Busy, Processing, Failing, Holds,
              JobsTypeOK, WorkersTypeOK
  <1>1. ASSUME NEW s \in Sessions, CompleteCases(s) PROVE attempts'[held'[v]] = claim'[v]
    BY <1>1 DEF CompleteCases, InsertJob, jobVars, workVars
  <1>2. ASSUME NEW c \in Clients, NEW s \in Sessions, RequestRetry(c, s)
        PROVE  attempts'[held'[v]] = claim'[v]
    BY <1>2 DEF RequestRetry, jobVars, workVars
  <1>3. ASSUME NEW c \in Clients, NEW s \in Sessions, EnqueueRetry(c, s)
        PROVE  attempts'[held'[v]] = claim'[v]
    BY <1>3 DEF EnqueueRetry, InsertJob, jobVars, workVars
  <1>4. ASSUME NEW w \in Workers, SkipMaintenance(w) \/ EmptyPoll(w)
        PROVE  attempts'[held'[v]] = claim'[v]
    BY <1>4 DEF SkipMaintenance, EmptyPoll, jobVars
  <1>5. ASSUME NEW w \in Workers, RunMaintenance(w) PROVE attempts'[held'[v]] = claim'[v]
    BY <1>5, WorkerAssumption DEF RunMaintenance, Recovered
  <1>6. ASSUME NEW w \in Workers, NEW j \in Jobs, Claim(w, j)
        PROVE  attempts'[held'[v]] = claim'[v]
    <2>1. CASE v = w
      BY <1>6, <2>1 DEF Claim
    <2>2. CASE v # w
      <3>1. held'[v] = held[v] /\ claim'[v] = claim[v] /\ pc'[v] = pc[v]
        BY <1>6, <2>2 DEF Claim
      <3>2. held[v] # j
        BY <1>6, <2>2, <3>1 DEF Claim
      <3> QED
        BY <1>6, <3>1, <3>2 DEF Claim
    <2> QED
      BY <2>1, <2>2
  <1>7. ASSUME NEW w \in Workers, SaveProgress(w) PROVE attempts'[held'[v]] = claim'[v]
    BY <1>7 DEF SaveProgress, AllEvaluated
  <1>8. ASSUME NEW w \in Workers, Evaluate(w) PROVE attempts'[held'[v]] = claim'[v]
    BY <1>8 DEF Evaluate, jobVars
  <1>9. ASSUME NEW w \in Workers, Complete(w) PROVE attempts'[held'[v]] = claim'[v]
    BY <1>9 DEF Complete, BecomeIdle
  <1>10. ASSUME NEW w \in Workers, RaiseError(w) \/ RejectSnapshot(w)
         PROVE  attempts'[held'[v]] = claim'[v]
    BY <1>10 DEF RaiseError, RejectSnapshot, jobVars
  <1>11. ASSUME NEW w \in Workers, Fail(w) PROVE attempts'[held'[v]] = claim'[v]
    BY <1>11 DEF Fail, SessionAfterFailure, BecomeIdle
  <1>12. ASSUME NEW w \in Workers, FailLost(w) \/ Crash(w)
         PROVE  attempts'[held'[v]] = claim'[v]
    BY <1>12 DEF FailLost, Crash, BecomeIdle, jobVars
  <1>13. ASSUME NEW w \in Workers, Heartbeat(w) PROVE attempts'[held'[v]] = claim'[v]
    BY <1>13 DEF Heartbeat, workVars
  <1>14. CASE Tick
    BY <1>14 DEF Tick, workVars
  <1>15. CASE UNCHANGED vars
    BY <1>15 DEF vars, jobVars, workVars
  <1> QED
    BY <1>1, <1>2, <1>3, <1>4, <1>5, <1>6, <1>7, <1>8, <1>9, <1>10, <1>11, <1>12,
       <1>13, <1>14, <1>15 DEF Next, WorkerStep

(* Conversely a row that is still running keeps the owner that its latest  *)
(* claim named: only the end of an attempt or its recovery clears it.      *)
LEMMA LatestIsHolder ==
    ASSUME TypeOK, BusyHoldsJob, FencedClaim, [Next]_vars, NEW v \in Workers, Busy(v)',
           jobStatus'[held'[v]] = "running", attempts'[held'[v]] = claim'[v]
    PROVE  Holds(v)'
  <1> USE DEF TypeOK
  <1> USE DEF FencedClaim, BusyHoldsJob, Busy, Processing, Failing, Holds,
              JobsTypeOK, WorkersTypeOK
  <1>1. ASSUME NEW s \in Sessions, CompleteCases(s) PROVE Holds(v)'
    BY <1>1 DEF CompleteCases, InsertJob, jobVars, workVars
  <1>2. ASSUME NEW c \in Clients, NEW s \in Sessions, RequestRetry(c, s)
        PROVE  Holds(v)'
    BY <1>2 DEF RequestRetry, jobVars, workVars
  <1>3. ASSUME NEW c \in Clients, NEW s \in Sessions, EnqueueRetry(c, s)
        PROVE  Holds(v)'
    BY <1>3 DEF EnqueueRetry, InsertJob, jobVars, workVars
  <1>4. ASSUME NEW w \in Workers, SkipMaintenance(w) \/ EmptyPoll(w)
        PROVE  Holds(v)'
    BY <1>4 DEF SkipMaintenance, EmptyPoll, jobVars
  <1>5. ASSUME NEW w \in Workers, RunMaintenance(w) PROVE Holds(v)'
    BY <1>5, WorkerAssumption DEF RunMaintenance, Recovered
  <1>6. ASSUME NEW w \in Workers, NEW j \in Jobs, Claim(w, j)
        PROVE  Holds(v)'
    <2>1. CASE v = w
      BY <1>6, <2>1, Constants DEF Claim, Jobs
    <2>2. CASE v # w
      <3>1. held'[v] = held[v] /\ claim'[v] = claim[v] /\ pc'[v] = pc[v]
        BY <1>6, <2>2 DEF Claim
      <3>2. held[v] = j => claim[v] <= attempts[j] /\ attempts'[j] = attempts[j] + 1
        BY <1>6, <3>1 DEF Claim
      <3>3. held[v] # j
        BY <3>1, <3>2
      <3> QED
        BY <1>6, <3>1, <3>3 DEF Claim
    <2> QED
      BY <2>1, <2>2
  <1>7. ASSUME NEW w \in Workers, SaveProgress(w) PROVE Holds(v)'
    BY <1>7 DEF SaveProgress, AllEvaluated
  <1>8. ASSUME NEW w \in Workers, Evaluate(w) PROVE Holds(v)'
    BY <1>8 DEF Evaluate, jobVars
  <1>9. ASSUME NEW w \in Workers, Complete(w) PROVE Holds(v)'
    BY <1>9 DEF Complete, BecomeIdle
  <1>10. ASSUME NEW w \in Workers, RaiseError(w) \/ RejectSnapshot(w)
         PROVE  Holds(v)'
    BY <1>10 DEF RaiseError, RejectSnapshot, jobVars
  <1>11. ASSUME NEW w \in Workers, Fail(w) PROVE Holds(v)'
    BY <1>11 DEF Fail, SessionAfterFailure, BecomeIdle
  <1>12. ASSUME NEW w \in Workers, FailLost(w) \/ Crash(w)
         PROVE  Holds(v)'
    BY <1>12 DEF FailLost, Crash, BecomeIdle, jobVars
  <1>13. ASSUME NEW w \in Workers, Heartbeat(w) PROVE Holds(v)'
    BY <1>13 DEF Heartbeat, workVars
  <1>14. CASE Tick
    BY <1>14 DEF Tick, workVars
  <1>15. CASE UNCHANGED vars
    BY <1>15 DEF vars, jobVars, workVars
  <1> QED
    BY <1>1, <1>2, <1>3, <1>4, <1>5, <1>6, <1>7, <1>8, <1>9, <1>10, <1>11, <1>12,
       <1>13, <1>14, <1>15 DEF Next, WorkerStep

(* The guard of a worker's updates stays exact. *)
LEMMA NextFencedClaim == TypeOK /\ BusyHoldsJob /\ FencedClaim /\ [Next]_vars => FencedClaim'
  BY HolderIsLatest, LatestIsHolder DEF FencedClaim, Holds

(* A job becomes active only when it is inserted, and it is inserted only   *)
(* when its session has none; every other action keeps it active or not.    *)
LEMMA InsertOneActive ==
    ASSUME OneActiveJobPerSession, JobsTypeOK, NEW s \in Sessions, ~HasActiveJob(s), InsertJob(s)
    PROVE  OneActiveJobPerSession'
  BY DEF OneActiveJobPerSession, HasActiveJob, InsertJob, Active, JobsTypeOK

(* No step gives a session a second queued or running job. *)
LEMMA NextOneActive ==
    TypeOK /\ BusyHoldsJob /\ OneActiveJobPerSession /\ [Next]_vars => OneActiveJobPerSession'
  <1> SUFFICES ASSUME JobsTypeOK, BusyHoldsJob, OneActiveJobPerSession, [Next]_vars
               PROVE  OneActiveJobPerSession'
    BY DEF TypeOK
  <1>0. ASSUME jobSession' = jobSession, \A j \in Jobs : Active(j)' => Active(j)
        PROVE  OneActiveJobPerSession'
    BY <1>0 DEF OneActiveJobPerSession
  <1>1. ASSUME NEW s \in Sessions, CompleteCases(s) PROVE OneActiveJobPerSession'
    BY <1>0, <1>1, InsertOneActive DEF CompleteCases, jobVars, Active
  <1>2. ASSUME NEW c \in Clients, NEW s \in Sessions, RequestRetry(c, s)
        PROVE  OneActiveJobPerSession'
    BY <1>0, <1>2 DEF RequestRetry, jobVars, Active
  <1>3. ASSUME NEW c \in Clients, NEW s \in Sessions, EnqueueRetry(c, s)
        PROVE  OneActiveJobPerSession'
    BY <1>0, <1>3, InsertOneActive DEF EnqueueRetry, jobVars, Active
  <1>4. ASSUME NEW w \in Workers, SkipMaintenance(w) \/ EmptyPoll(w)
        PROVE  OneActiveJobPerSession'
    BY <1>0, <1>4 DEF SkipMaintenance, EmptyPoll, jobVars, Active
  <1>5. ASSUME NEW w \in Workers, RunMaintenance(w) PROVE OneActiveJobPerSession'
    BY <1>0, <1>5 DEF RunMaintenance, Recovered, Active, Expired
  <1>6. ASSUME NEW w \in Workers, NEW j \in Jobs, Claim(w, j) PROVE OneActiveJobPerSession'
    BY <1>0, <1>6 DEF Claim, Active, Due, JobsTypeOK
  <1>7. ASSUME NEW w \in Workers, SaveProgress(w) \/ Evaluate(w) PROVE OneActiveJobPerSession'
    BY <1>0, <1>7 DEF SaveProgress, AllEvaluated, Evaluate, jobVars, Active
  <1>8. ASSUME NEW w \in Workers, Complete(w) PROVE OneActiveJobPerSession'
    BY <1>0, <1>8 DEF Complete, Active, JobsTypeOK
  <1>9. ASSUME NEW w \in Workers, RaiseError(w) \/ RejectSnapshot(w)
        PROVE  OneActiveJobPerSession'
    BY <1>0, <1>9 DEF RaiseError, RejectSnapshot, jobVars, Active
  <1>10. ASSUME NEW w \in Workers, Fail(w) PROVE OneActiveJobPerSession'
    BY <1>0, <1>10 DEF Fail, SessionAfterFailure, Holds, Active, JobsTypeOK
  <1>11. ASSUME NEW w \in Workers, FailLost(w) \/ Heartbeat(w) \/ Crash(w)
         PROVE  OneActiveJobPerSession'
    BY <1>0, <1>11 DEF FailLost, Heartbeat, Crash, jobVars, Active
  <1>12. CASE Tick
    BY <1>0, <1>12 DEF Tick, Active
  <1>13. CASE UNCHANGED vars
    BY <1>0, <1>13 DEF vars, jobVars, Active
  <1> QED
    BY <1>1, <1>2, <1>3, <1>4, <1>5, <1>6, <1>7, <1>8, <1>9, <1>10, <1>11, <1>12,
       <1>13 DEF Next, WorkerStep

(* The backoff is set by _fail alone, under the guard, from the thread's   *)
(* copy of the attempts, which FencedClaim makes the row's.                *)
LEMMA NextRetriesWithinLimit ==
    TypeOK /\ BusyHoldsJob /\ FencedClaim /\ RetriesWithinLimit /\ [Next]_vars
        => RetriesWithinLimit'
  <1> SUFFICES ASSUME JobsTypeOK, WorkersTypeOK, BusyHoldsJob, FencedClaim, RetriesWithinLimit,
                      [Next]_vars
               PROVE  RetriesWithinLimit'
    BY DEF TypeOK
  <1> USE DEF RetriesWithinLimit, JobsTypeOK
  <1>1. ASSUME NEW s \in Sessions, CompleteCases(s) PROVE RetriesWithinLimit'
    BY <1>1 DEF CompleteCases, InsertJob, jobVars
  <1>2. ASSUME NEW c \in Clients, NEW s \in Sessions, RequestRetry(c, s)
        PROVE  RetriesWithinLimit'
    BY <1>2 DEF RequestRetry, jobVars
  <1>3. ASSUME NEW c \in Clients, NEW s \in Sessions, EnqueueRetry(c, s)
        PROVE  RetriesWithinLimit'
    BY <1>3 DEF EnqueueRetry, InsertJob, jobVars
  <1>4. ASSUME NEW w \in Workers, SkipMaintenance(w) \/ EmptyPoll(w) PROVE RetriesWithinLimit'
    BY <1>4 DEF SkipMaintenance, EmptyPoll, jobVars
  <1>5. ASSUME NEW w \in Workers, RunMaintenance(w) PROVE RetriesWithinLimit'
    BY <1>5 DEF RunMaintenance, Recovered, Expired
  <1>6. ASSUME NEW w \in Workers, NEW j \in Jobs, Claim(w, j) PROVE RetriesWithinLimit'
    BY <1>6 DEF Claim, Due
  <1>7. ASSUME NEW w \in Workers, SaveProgress(w) \/ Evaluate(w) PROVE RetriesWithinLimit'
    BY <1>7 DEF SaveProgress, AllEvaluated, Evaluate, jobVars
  <1>8. ASSUME NEW w \in Workers, Complete(w) PROVE RetriesWithinLimit'
    BY <1>8 DEF Complete, Holds
  <1>9. ASSUME NEW w \in Workers, RaiseError(w) \/ RejectSnapshot(w)
        PROVE  RetriesWithinLimit'
    BY <1>9 DEF RaiseError, RejectSnapshot, jobVars
  <1>10. ASSUME NEW w \in Workers, Fail(w) PROVE RetriesWithinLimit'
    <2>1. CASE Holds(w)
      <3>1. attempts[held[w]] = claim[w] /\ wait[held[w]] = 0
        BY <1>10, <2>1 DEF Fail, SessionAfterFailure, FencedClaim, Busy, Holds, WorkersTypeOK
      <3>2. CASE Retries(w)
        BY <1>10, <2>1, <3>1, <3>2 DEF Fail, SessionAfterFailure, Retries
      <3>3. CASE ~Retries(w)
        BY <1>10, <2>1, <3>1, <3>3 DEF Fail, SessionAfterFailure
      <3> QED
        BY <3>2, <3>3
    <2>2. CASE ~Holds(w)
      BY <1>10, <2>2 DEF Fail, SessionAfterFailure
    <2> QED
      BY <2>1, <2>2
  <1>11. ASSUME NEW w \in Workers, FailLost(w) \/ Heartbeat(w) \/ Crash(w)
         PROVE  RetriesWithinLimit'
    BY <1>11 DEF FailLost, Heartbeat, Crash, jobVars
  <1>12. CASE Tick
    BY <1>12, Constants DEF Tick
  <1>13. CASE UNCHANGED vars
    BY <1>13 DEF vars, jobVars
  <1> QED
    BY <1>1, <1>2, <1>3, <1>4, <1>5, <1>6, <1>7, <1>8, <1>9, <1>10, <1>11, <1>12,
       <1>13 DEF Next, WorkerStep

(* The inductive invariant holds for ever: fencing by worker_id, one       *)
(* active job per session and the bound on retries support each other      *)
(* through the types and the job every busy thread holds.                  *)
THEOREM Invariance == Spec => []IInv
  <1>1. IInv /\ [Next]_vars => IInv'
    BY NextTypeOK, NextBusyHoldsJob, NextFencedClaim, NextOneActive, NextRetriesWithinLimit
    DEF IInv
  <1> QED
    BY InitIInv, <1>1, PTL DEF Spec

(* The types, for every number of sessions, threads, jobs and attempts. *)
THEOREM TypeCorrect == Spec => []TypeOK
  BY Invariance, PTL DEF IInv

(* A worker that passes the guard of its updates works under the latest    *)
(* claim of the job: worker_id is a sound fencing token.                   *)
THEOREM ClaimsAreFenced == Spec => []FencedClaim
  BY Invariance, PTL DEF IInv

(* No session ever has two queued or running analyses. *)
THEOREM ActiveJobIsUnique == Spec => []OneActiveJobPerSession
  BY Invariance, PTL DEF IInv

(* A job waits for a retry only while attempts are left. *)
THEOREM RetriesAreBounded == Spec => []RetriesWithinLimit
  BY Invariance, PTL DEF IInv

-----------------------------------------------------------------------------
(* The report.  Results are only ever added, a thread that evaluates its    *)
(* k-th competency has written those before it, and it reaches the commit   *)
(* with nothing pending.                                                    *)

ResultsSoFar == \A w \in Workers :
    /\ pc[w] \in {"evaluate", "calling"} =>
           1..(step[w] - 1) \subseteq saved[jobSession[held[w]]] \cup pending[w]
    /\ pc[w] = "commit" => Competencies \subseteq saved[jobSession[held[w]]]

ReportInv == IInv /\ ResultsSoFar /\ ReportIsWhole /\ ReadyReportIsSettled

(* What no step takes away from a job that was inserted. *)
JobsKept ==
    /\ \A s \in Sessions : saved[s] \subseteq saved'[s]
    /\ \A j \in Jobs : jobStatus[j] # "absent" =>
           jobStatus'[j] # "absent" /\ jobSession'[j] = jobSession[j]
    /\ \A j \in Jobs : jobStatus[j] = "completed" => jobStatus'[j] = "completed"

(* Rows are never deleted or moved to another session, and a completed job *)
(* is never reopened.                                                      *)
LEMMA NextJobsKept == TypeOK /\ BusyHoldsJob /\ [Next]_vars => JobsKept
  <1> SUFFICES ASSUME JobsTypeOK, WorkersTypeOK, OthersTypeOK, BusyHoldsJob, [Next]_vars
               PROVE  JobsKept
    BY DEF TypeOK
  <1> USE DEF JobsKept, JobsTypeOK
  <1>1. ASSUME NEW s \in Sessions, CompleteCases(s) PROVE JobsKept
    BY <1>1 DEF CompleteCases, InsertJob, jobVars
  <1>2. ASSUME NEW c \in Clients, NEW s \in Sessions, RequestRetry(c, s) PROVE JobsKept
    BY <1>2 DEF RequestRetry, jobVars
  <1>3. ASSUME NEW c \in Clients, NEW s \in Sessions, EnqueueRetry(c, s) PROVE JobsKept
    BY <1>3 DEF EnqueueRetry, InsertJob, jobVars
  <1>4. ASSUME NEW w \in Workers, SkipMaintenance(w) \/ EmptyPoll(w) PROVE JobsKept
    BY <1>4 DEF SkipMaintenance, EmptyPoll, jobVars
  <1>5. ASSUME NEW w \in Workers, RunMaintenance(w) PROVE JobsKept
    BY <1>5 DEF RunMaintenance, Recovered, Expired
  <1>6. ASSUME NEW w \in Workers, NEW j \in Jobs, Claim(w, j) PROVE JobsKept
    BY <1>6 DEF Claim, Due
  <1>7. ASSUME NEW w \in Workers, SaveProgress(w) PROVE JobsKept
    BY <1>7 DEF SaveProgress, AllEvaluated, OthersTypeOK
  <1>8. ASSUME NEW w \in Workers, Complete(w) PROVE JobsKept
    BY <1>8 DEF Complete, Holds
  <1>9. ASSUME NEW w \in Workers, Evaluate(w) \/ RaiseError(w) \/ RejectSnapshot(w)
        PROVE  JobsKept
    BY <1>9 DEF Evaluate, RaiseError, RejectSnapshot, jobVars
  <1>10. ASSUME NEW w \in Workers, Fail(w) PROVE JobsKept
    BY <1>10 DEF Fail, SessionAfterFailure, Holds
  <1>11. ASSUME NEW w \in Workers, FailLost(w) \/ Heartbeat(w) \/ Crash(w) PROVE JobsKept
    BY <1>11 DEF FailLost, Heartbeat, Crash, jobVars
  <1>12. CASE Tick
    BY <1>12 DEF Tick
  <1>13. CASE UNCHANGED vars
    BY <1>13 DEF vars, jobVars
  <1> QED
    BY <1>1, <1>2, <1>3, <1>4, <1>5, <1>6, <1>7, <1>8, <1>9, <1>10, <1>11, <1>12,
       <1>13 DEF Next, WorkerStep

(* A thread at competency k has all results below k committed or pending,  *)
(* whatever other attempts of the same job do meanwhile.                   *)
LEMMA NextResultsSoFar ==
    TypeOK /\ BusyHoldsJob /\ ResultsSoFar /\ [Next]_vars => ResultsSoFar'
  <1> SUFFICES ASSUME JobsTypeOK, WorkersTypeOK, OthersTypeOK, BusyHoldsJob, ResultsSoFar,
                      [Next]_vars
               PROVE  ResultsSoFar'
    BY DEF TypeOK
  <1>0. JobsKept
    BY NextJobsKept DEF TypeOK
  <1> DEFINE OwnResults(w) ==
        saved[jobSession[held[w]]] \subseteq saved'[jobSession'[held[w]]]
  <1>1. \A w \in Workers : pc[w] \in Processing => OwnResults(w)
    BY <1>0 DEF JobsKept, BusyHoldsJob, Busy, JobsTypeOK
  (* A step that leaves a thread alone, or stops it, keeps its part. *)
  <1>2. ASSUME \A w \in Workers :
                  \/ UNCHANGED <<pc[w], step[w], held[w], pending[w]>>
                  \/ pc'[w] \notin Processing
        PROVE  ResultsSoFar'
    BY <1>1, <1>2 DEF ResultsSoFar, Processing
  <1>3. ASSUME NEW s \in Sessions, CompleteCases(s) PROVE ResultsSoFar'
    BY <1>2, <1>3 DEF CompleteCases, workVars
  <1>4. ASSUME NEW c \in Clients, NEW s \in Sessions, RequestRetry(c, s) \/ EnqueueRetry(c, s)
        PROVE  ResultsSoFar'
    BY <1>2, <1>4 DEF RequestRetry, EnqueueRetry, workVars
  <1>5. ASSUME NEW w \in Workers, SkipMaintenance(w) \/ RunMaintenance(w) \/ EmptyPoll(w)
        PROVE  ResultsSoFar'
    <2>1. pc'[w] \notin Processing
      BY <1>5 DEF SkipMaintenance, RunMaintenance, Recovered, EmptyPoll, WorkersTypeOK, Processing
    <2> QED
      BY <1>2, <1>5, <2>1 DEF SkipMaintenance, RunMaintenance, Recovered, EmptyPoll, WorkersTypeOK
  <1>6. ASSUME NEW w \in Workers, NEW j \in Jobs, Claim(w, j) PROVE ResultsSoFar'
    <2>1. step'[w] = 1 /\ pc'[w] = "evaluate"
      BY <1>6 DEF Claim, WorkersTypeOK
    <2>2. \A v \in Workers \ {w} : UNCHANGED <<pc[v], step[v], held[v], pending[v]>>
      BY <1>6 DEF Claim, WorkersTypeOK
    <2>3. 1..(1 - 1) = {}
      OBVIOUS
    <2> QED
      BY <1>1, <2>1, <2>2, <2>3 DEF ResultsSoFar, Processing
  <1>7. ASSUME NEW w \in Workers, SaveProgress(w) PROVE ResultsSoFar'
    <2>1. \A v \in Workers \ {w} : UNCHANGED <<pc[v], step[v], held[v], pending[v]>>
      BY <1>7 DEF SaveProgress, AllEvaluated, WorkersTypeOK
    <2>2. 1..(step[w] - 1) \subseteq saved'[jobSession'[held'[w]]]
      <3>1. held[w] \in Jobs /\ jobSession[held[w]] \in Sessions
        BY <1>7 DEF SaveProgress, AllEvaluated, BusyHoldsJob, Busy, Processing, JobsTypeOK
      <3>2. 1..(step[w] - 1) \subseteq saved[jobSession[held[w]]] \cup pending[w]
        BY <1>7 DEF SaveProgress, AllEvaluated, ResultsSoFar
      <3> QED
        BY <1>7, <3>1, <3>2 DEF SaveProgress, AllEvaluated, OthersTypeOK
    <2>3. UNCHANGED <<step, held>>
      BY <1>7 DEF SaveProgress, AllEvaluated
    <2>4. pc'[w] = "commit" => Competencies \subseteq 1..(step[w] - 1)
      BY <1>7, Constants DEF SaveProgress, AllEvaluated, WorkersTypeOK, Competencies
    <2> QED
      BY <1>1, <2>1, <2>2, <2>3, <2>4 DEF ResultsSoFar, Processing
  <1>8. ASSUME NEW w \in Workers, Evaluate(w) PROVE ResultsSoFar'
    <2>1. \A v \in Workers \ {w} : UNCHANGED <<pc[v], step[v], held[v], pending[v]>>
      BY <1>8 DEF Evaluate, WorkersTypeOK
    <2>2. /\ pc'[w] = "evaluate" /\ step'[w] = step[w] + 1 /\ held' = held
          /\ pending'[w] = pending[w] \cup {step[w]}
      BY <1>8 DEF Evaluate, WorkersTypeOK
    <2>3. 1..(step'[w] - 1) = 1..(step[w] - 1) \cup {step[w]}
      BY <2>2 DEF WorkersTypeOK
    <2>4. 1..(step[w] - 1) \subseteq saved[jobSession[held[w]]] \cup pending[w]
      BY <1>8 DEF Evaluate, ResultsSoFar
    <2>5. OwnResults(w)
      BY <1>1, <1>8 DEF Evaluate, Processing
    <2>6. 1..(step'[w] - 1) \subseteq saved'[jobSession'[held'[w]]] \cup pending'[w]
      BY <2>2, <2>3, <2>4, <2>5
    <2> QED
      BY <1>1, <2>1, <2>2, <2>6 DEF ResultsSoFar, Processing
  <1>9. ASSUME NEW w \in Workers, Complete(w) \/ Fail(w) \/ FailLost(w) \/ Crash(w)
        PROVE  ResultsSoFar'
    <2>1. BecomeIdle(w)
      BY <1>9 DEF Complete, Fail, SessionAfterFailure, FailLost, Crash
    <2> QED
      BY <1>2, <2>1 DEF BecomeIdle, WorkersTypeOK, Processing
  <1>10. ASSUME NEW w \in Workers, RaiseError(w) \/ RejectSnapshot(w) PROVE ResultsSoFar'
    <2>1. pc'[w] \notin Processing
      BY <1>10 DEF RaiseError, RejectSnapshot, WorkersTypeOK, Processing
    <2> QED
      BY <1>2, <1>10, <2>1 DEF RaiseError, RejectSnapshot, WorkersTypeOK
  <1>11. ASSUME NEW w \in Workers, Heartbeat(w) PROVE ResultsSoFar'
    BY <1>2, <1>11 DEF Heartbeat, workVars
  <1>12. CASE Tick
    BY <1>2, <1>12 DEF Tick, workVars
  <1>13. CASE UNCHANGED vars
    BY <1>2, <1>13 DEF vars, workVars
  <1> QED
    BY <1>3, <1>4, <1>5, <1>6, <1>7, <1>8, <1>9, <1>10, <1>11, <1>12, <1>13
    DEF Next, WorkerStep

(* Only the last transaction of a thread that passes the guard completes a *)
(* job or a session, and it completes both.                                *)
LEMMA OnlyCompleteCompletes ==
    ASSUME TypeOK, BusyHoldsJob, [Next]_vars, ~ \E w \in Workers : Complete(w)
    PROVE  /\ \A j \in Jobs : jobStatus'[j] = "completed" => jobStatus[j] = "completed"
           /\ \A s \in Sessions : session'[s] = "completed" => session[s] = "completed"
  <1> DEFINE Goal ==
        /\ \A j \in Jobs : jobStatus'[j] = "completed" => jobStatus[j] = "completed"
        /\ \A s \in Sessions : session'[s] = "completed" => session[s] = "completed"
  <1> USE DEF TypeOK, JobsTypeOK, OthersTypeOK
  <1>1. ASSUME NEW s \in Sessions, CompleteCases(s) PROVE Goal
    BY <1>1 DEF CompleteCases, InsertJob, jobVars
  <1>2. ASSUME NEW c \in Clients, NEW s \in Sessions, RequestRetry(c, s) PROVE Goal
    BY <1>2 DEF RequestRetry, jobVars
  <1>3. ASSUME NEW c \in Clients, NEW s \in Sessions, EnqueueRetry(c, s) PROVE Goal
    BY <1>3 DEF EnqueueRetry, InsertJob, jobVars
  <1>4. ASSUME NEW w \in Workers, SkipMaintenance(w) \/ EmptyPoll(w) PROVE Goal
    BY <1>4 DEF SkipMaintenance, EmptyPoll, jobVars
  <1>5. ASSUME NEW w \in Workers, RunMaintenance(w) PROVE Goal
    BY <1>5 DEF RunMaintenance, Recovered
  <1>6. ASSUME NEW w \in Workers, NEW j \in Jobs, Claim(w, j) PROVE Goal
    BY <1>6 DEF Claim
  <1>7. ASSUME NEW w \in Workers, SaveProgress(w) \/ Heartbeat(w) PROVE Goal
    BY <1>7 DEF SaveProgress, AllEvaluated, Heartbeat
  <1>8. ASSUME NEW w \in Workers, Evaluate(w) \/ RaiseError(w) \/ RejectSnapshot(w) PROVE Goal
    BY <1>8 DEF Evaluate, RaiseError, RejectSnapshot, jobVars
  <1>9. ASSUME NEW w \in Workers, Fail(w) PROVE Goal
    BY <1>9 DEF Fail, SessionAfterFailure
  <1>10. ASSUME NEW w \in Workers, FailLost(w) \/ Crash(w) PROVE Goal
    BY <1>10 DEF FailLost, Crash, jobVars
  <1>11. CASE Tick
    BY <1>11 DEF Tick
  <1>12. CASE UNCHANGED vars
    BY <1>12 DEF vars, jobVars
  <1> QED
    BY <1>1, <1>2, <1>3, <1>4, <1>5, <1>6, <1>7, <1>8, <1>9, <1>10, <1>11, <1>12
    DEF Next, WorkerStep

(* What the last transaction does: with nothing pending and every result   *)
(* committed it completes the job and its session together.                *)
LEMMA CompleteCompletesBoth ==
    ASSUME TypeOK, BusyHoldsJob, ResultsSoFar, NEW w \in Workers, Complete(w)
    PROVE  /\ held[w] \in Jobs
           /\ jobStatus' = [jobStatus EXCEPT ![held[w]] = "completed"]
           /\ session' = [session EXCEPT ![jobSession[held[w]]] = "completed"]
           /\ jobSession' = jobSession /\ saved' = saved
           /\ saved[jobSession[held[w]]] = Competencies
  <1>1. held[w] \in Jobs /\ jobSession[held[w]] \in Sessions
    BY DEF Complete, BusyHoldsJob, Busy, Processing, TypeOK, JobsTypeOK
  <1>2. saved[jobSession[held[w]]] = Competencies
    BY <1>1 DEF Complete, ResultsSoFar, TypeOK, OthersTypeOK
  <1> QED
    BY <1>1, <1>2 DEF Complete

(* A session that is ready has no job to claim, gets none without leaving  *)
(* that status, and _fail and the retry endpoint only take it out of it.   *)
LEMMA ReadyHasNoNewJob ==
    ASSUME TypeOK, BusyHoldsJob, [Next]_vars, ~ \E w \in Workers : Complete(w),
           NEW s \in Sessions, session[s] = "completed", session'[s] = "completed",
           ~HasActiveJob(s)
    PROVE  ~HasActiveJob(s)'
  <1> USE DEF TypeOK, JobsTypeOK, OthersTypeOK, HasActiveJob, Active
  <1>1. ASSUME NEW t \in Sessions, CompleteCases(t) PROVE ~HasActiveJob(s)'
    BY <1>1 DEF CompleteCases, InsertJob, jobVars
  <1>2. ASSUME NEW c \in Clients, NEW t \in Sessions, EnqueueRetry(c, t)
        PROVE  ~HasActiveJob(s)'
    BY <1>2 DEF EnqueueRetry, InsertJob, jobVars
  <1>3. ASSUME NEW w \in Workers, RunMaintenance(w) PROVE ~HasActiveJob(s)'
    BY <1>3 DEF RunMaintenance, Recovered, Expired
  <1>4. ASSUME NEW w \in Workers, NEW j \in Jobs, Claim(w, j) PROVE ~HasActiveJob(s)'
    BY <1>4 DEF Claim, Due
  <1>5. ASSUME NEW w \in Workers, Fail(w) PROVE ~HasActiveJob(s)'
    BY <1>5 DEF Fail, SessionAfterFailure, Holds
  <1>6. ASSUME UNCHANGED <<jobStatus, jobSession>> PROVE ~HasActiveJob(s)'
    BY <1>6
  <1>7. ASSUME \/ \E c \in Clients, t \in Sessions : RequestRetry(c, t)
               \/ \E w \in Workers :
                    \/ SkipMaintenance(w) \/ EmptyPoll(w) \/ SaveProgress(w) \/ Evaluate(w)
                    \/ RaiseError(w) \/ RejectSnapshot(w) \/ FailLost(w) \/ Heartbeat(w)
                    \/ Crash(w)
               \/ Tick \/ UNCHANGED vars
        PROVE  ~HasActiveJob(s)'
    BY <1>6, <1>7 DEF RequestRetry, SkipMaintenance, EmptyPoll, SaveProgress, AllEvaluated,
           Evaluate, RaiseError, RejectSnapshot, FailLost, Heartbeat, Crash, Tick, vars, jobVars
  <1> QED
    BY <1>1, <1>2, <1>3, <1>4, <1>5, <1>7 DEF Next, WorkerStep

(* Every step keeps the completed reports whole. *)
LEMMA NextReportInv == ReportInv /\ [Next]_vars => ReportInv'
  <1> SUFFICES ASSUME ReportInv, [Next]_vars PROVE ReportInv'
    OBVIOUS
  <1> USE DEF ReportInv
  <1>1. TypeOK /\ BusyHoldsJob /\ JobsKept
    BY NextJobsKept DEF IInv
  <1>2. TypeOK'
    BY NextTypeOK, <1>1
  <1>3. IInv'
    BY NextTypeOK, NextBusyHoldsJob, NextFencedClaim, NextOneActive, NextRetriesWithinLimit
    DEF IInv
  <1>4. ResultsSoFar'
    BY NextResultsSoFar, <1>1
  <1>5. ReportIsWhole' /\ ReadyReportIsSettled'
    <2>1. CASE ~ \E w \in Workers : Complete(w)
      <3>1. /\ \A j \in Jobs : jobStatus'[j] = "completed" => jobStatus[j] = "completed"
            /\ \A s \in Sessions : session'[s] = "completed" => session[s] = "completed"
        BY OnlyCompleteCompletes, <1>1, <2>1
      <3>2. ASSUME NEW j \in Jobs, jobStatus'[j] = "completed"
            PROVE  saved'[jobSession'[j]] = Competencies
        <4>1. jobStatus[j] = "completed" /\ jobSession'[j] = jobSession[j]
          BY <1>1, <3>1, <3>2 DEF JobsKept
        <4>2. jobSession[j] \in Sessions
          BY <1>1 DEF TypeOK, JobsTypeOK
        <4>3. saved[jobSession[j]] = Competencies
          BY <4>1 DEF ReportIsWhole
        <4>4. saved[jobSession[j]] \subseteq saved'[jobSession[j]]
          BY <1>1, <4>2 DEF JobsKept
        <4>5. saved'[jobSession[j]] \subseteq Competencies
          BY <1>2, <4>2 DEF TypeOK, OthersTypeOK
        <4> QED
          BY <4>1, <4>3, <4>4, <4>5
      <3>3. ReadyReportIsSettled'
        BY <1>1, <3>1, <2>1, ReadyHasNoNewJob
        DEF ReadyReportIsSettled, JobsKept
      <3> QED
        BY <3>2, <3>3 DEF ReportIsWhole
    <2>2. CASE \E w \in Workers : Complete(w)
      <3>1. PICK w \in Workers : Complete(w)
        BY <2>2
      <3>2. /\ held[w] \in Jobs
            /\ jobStatus' = [jobStatus EXCEPT ![held[w]] = "completed"]
            /\ session' = [session EXCEPT ![jobSession[held[w]]] = "completed"]
            /\ jobSession' = jobSession /\ saved' = saved
            /\ saved[jobSession[held[w]]] = Competencies
        BY CompleteCompletesBoth, <1>1, <3>1
      <3>3. ReportIsWhole'
        BY <3>2 DEF ReportIsWhole
      <3>4. ReadyReportIsSettled'
        <4>1. ASSUME NEW s \in Sessions, session'[s] = "completed"
              PROVE  /\ \E j \in Jobs : jobStatus'[j] = "completed" /\ jobSession'[j] = s
                     /\ ~HasActiveJob(s)'
          <5>1. CASE s = jobSession[held[w]]
            BY <1>1, <3>1, <3>2, <5>1
            DEF HasActiveJob, Active, IInv, OneActiveJobPerSession, Complete, Holds, TypeOK,
                JobsTypeOK
          <5>2. CASE s # jobSession[held[w]]
            BY <1>1, <3>2, <4>1, <5>2
            DEF ReadyReportIsSettled, HasActiveJob, Active, JobsKept, TypeOK, JobsTypeOK,
                OthersTypeOK
          <5> QED
            BY <5>1, <5>2
        <4> QED
          BY <4>1 DEF ReadyReportIsSettled
      <3> QED
        BY <3>3, <3>4
    <2> QED
      BY <2>1, <2>2
  <1> QED
    BY <1>3, <1>4, <1>5

(* No report exists at the start. *)
LEMMA InitReportInv == Init => ReportInv
  <1> SUFFICES ASSUME Init PROVE ReportInv
    OBVIOUS
  <1>1. ResultsSoFar
    BY DEF Init, ResultsSoFar
  <1>2. ReportIsWhole
    BY DEF Init, ReportIsWhole
  <1>3. ReadyReportIsSettled
    BY DEF Init, ReadyReportIsSettled
  <1> QED
    BY InitIInv, <1>1, <1>2, <1>3 DEF ReportInv

(* Every completed job stands on a complete set of results and every ready *)
(* session on a completed job, in every reachable state.                   *)
THEOREM ReportInvariance == Spec => []ReportInv
  BY InitReportInv, NextReportInv, PTL DEF Spec

(* A completed job has the results of every competency of its session. *)
THEOREM CompletedReportIsWhole == Spec => []ReportIsWhole
  BY ReportInvariance, PTL DEF ReportInv

(* A session is announced as ready only by a completed job of its own, and *)
(* while it is ready no other analysis of it waits or runs.                *)
THEOREM ReadyMeansSettled == Spec => []ReadyReportIsSettled
  BY ReportInvariance, PTL DEF ReportInv

-----------------------------------------------------------------------------
(* How a ready report is taken back.  ReadyReportStays is violated; these  *)
(* theorems say by what, and that nothing else does it.                    *)

(* Of all steps only two change the status of a ready session: the failure *)
(* of an attempt that lost its lease, and the second transaction of a      *)
(* retry request whose first one found the report not ready yet.           *)
TakenBackOnlyByThese ==
    [][\A s \in Sessions : session[s] = "completed" /\ session'[s] # "completed" =>
           \/ \E w \in Workers : Fail(w) /\ ~Holds(w) /\ jobSession[held[w]] = s
           \/ \E c \in Clients : EnqueueRetry(c, s)]_vars

LEMMA TakenBack ==
    ASSUME ReportInv, [Next]_vars, NEW s \in Sessions,
           session[s] = "completed", session'[s] # "completed"
    PROVE  \/ \E w \in Workers : Fail(w) /\ ~Holds(w) /\ jobSession[held[w]] = s
           \/ \E c \in Clients : EnqueueRetry(c, s)
  <1> DEFINE Goal == \/ \E w \in Workers : Fail(w) /\ ~Holds(w) /\ jobSession[held[w]] = s
                     \/ \E c \in Clients : EnqueueRetry(c, s)
  <1>0. TypeOK /\ BusyHoldsJob /\ ~HasActiveJob(s)
    BY DEF ReportInv, IInv, ReadyReportIsSettled
  <1> USE DEF TypeOK, JobsTypeOK, OthersTypeOK, HasActiveJob, Active
  <1>1. ASSUME NEW t \in Sessions, CompleteCases(t) PROVE Goal
    BY <1>1 DEF CompleteCases
  <1>2. ASSUME NEW c \in Clients, NEW t \in Sessions, EnqueueRetry(c, t) PROVE Goal
    <2>1. t = s
      BY <1>0, <1>2 DEF EnqueueRetry
    <2> QED
      BY <1>2, <2>1
  <1>3. ASSUME NEW w \in Workers, NEW j \in Jobs, Claim(w, j) PROVE Goal
    BY <1>0, <1>3 DEF Claim, Due
  <1>4. ASSUME NEW w \in Workers, Complete(w) PROVE Goal
    BY <1>4 DEF Complete
  <1>5. ASSUME NEW w \in Workers, Fail(w) PROVE Goal
    <2>1. jobSession[held[w]] = s /\ held[w] \in Jobs
      BY <1>0, <1>5 DEF Fail, SessionAfterFailure, BusyHoldsJob, Busy
    <2>2. ~Holds(w)
      BY <1>0, <2>1 DEF Holds
    <2> QED
      BY <1>5, <2>1, <2>2
  <1>6. ASSUME \/ \E c \in Clients, t \in Sessions : RequestRetry(c, t)
               \/ \E w \in Workers :
                    \/ SkipMaintenance(w) \/ RunMaintenance(w) \/ EmptyPoll(w)
                    \/ SaveProgress(w) \/ Evaluate(w) \/ RaiseError(w) \/ RejectSnapshot(w)
                    \/ FailLost(w) \/ Heartbeat(w) \/ Crash(w)
               \/ Tick \/ UNCHANGED vars
        PROVE  FALSE
    BY <1>6 DEF RequestRetry, SkipMaintenance, RunMaintenance, Recovered, EmptyPoll,
           SaveProgress, AllEvaluated, Evaluate, RaiseError, RejectSnapshot, FailLost, Heartbeat,
           Crash, Tick, vars
  <1> QED
    BY <1>1, <1>2, <1>3, <1>4, <1>5, <1>6 DEF Next, WorkerStep

(* Nothing but these two updates of user_sessions takes a ready report back *)
(* (_fail of assessment_analysis_queue.py; the retry endpoint of routes.py).*)
THEOREM ReportTakenBack == Spec => TakenBackOnlyByThese
  <1>1. ReportInv /\ [Next]_vars =>
          [\A s \in Sessions : session[s] = "completed" /\ session'[s] # "completed" =>
               \/ \E w \in Workers : Fail(w) /\ ~Holds(w) /\ jobSession[held[w]] = s
               \/ \E c \in Clients : EnqueueRetry(c, s)]_vars
    BY TakenBack
  <1> QED
    BY <1>1, ReportInvariance, PTL DEF Spec, TakenBackOnlyByThese

(* The two guards the code does not have: _fail writes the session under   *)
(* the guard it has for the job, and enqueueing looks at the session.      *)
GuardedSessions ==
    /\ \A w \in Workers : Fail(w) => Holds(w)
    /\ \A c \in Clients, s \in Sessions : EnqueueRetry(c, s) => session[s] # "completed"

(* In every behaviour whose steps respect them, a ready report stays ready, *)
(* late heartbeats and recovered leases included.                          *)
THEOREM GuardsKeepReports == Spec /\ [][GuardedSessions]_vars => ReadyReportStays
  <1>1. ReportInv /\ [Next]_vars /\ [GuardedSessions]_vars =>
          [\A s \in Sessions : session[s] = "completed" => session'[s] = "completed"]_vars
    BY TakenBack DEF GuardedSessions
  <1> QED
    BY <1>1, ReportInvariance, PTL DEF Spec, ReadyReportStays

-----------------------------------------------------------------------------
(* While no lease is lost. *)

(* Every living attempt is still the one its job's row names. *)
LeaseKept == \A w \in Workers : Busy(w) => Holds(w)

Held(j) == \E w \in Workers : Busy(w) /\ held[w] = j

(* With heartbeats in time the clock waits before it ends a lease.         *)
LeaseOK == \A w \in Workers : Busy(w) => Holds(w) /\ age[held[w]] <= LeaseTimeout

(* A job that may be claimed again has an attempt left, or a fault paid for *)
(* the one it lost.                                                        *)
BudgetOK == \A j \in Jobs :
    /\ attempts[j] <= MaxAttempts + faults
    /\ \/ jobStatus[j] \in {"absent", "queued"}
       \/ jobStatus[j] = "running" /\ ~Held(j)
       => attempts[j] < MaxAttempts + faults

(* Steps that neither claim nor settle a job, nor end an attempt or a lease. *)
QuietStep ==
    \/ \E s \in Sessions : CompleteCases(s)
    \/ \E c \in Clients, s \in Sessions : RequestRetry(c, s) \/ EnqueueRetry(c, s)
    \/ \E w \in Workers :
        \/ SkipMaintenance(w) \/ EmptyPoll(w) \/ SaveProgress(w) \/ Evaluate(w)
        \/ RaiseError(w) \/ RejectSnapshot(w) \/ Heartbeat(w)
    \/ UNCHANGED vars

LEMMA QuietStepsAre ==
    ASSUME JobsTypeOK, WorkersTypeOK, QuietStep
    PROVE  /\ UNCHANGED <<attempts, owner, held, faults>>
           /\ \A w \in Workers : Busy(w)' <=> Busy(w)
           /\ \A j \in Jobs : \/ jobStatus'[j] = jobStatus[j]
                              \/ jobStatus[j] = "absent" /\ jobStatus'[j] = "queued"
           /\ \A j \in Jobs : age'[j] = age[j] \/ age'[j] = 0
  <1>1. UNCHANGED <<attempts, owner, held, faults>>
    BY DEF QuietStep, CompleteCases, RequestRetry, EnqueueRetry, InsertJob, SkipMaintenance,
           EmptyPoll, SaveProgress, Evaluate, RaiseError, RejectSnapshot, Heartbeat, vars,
           jobVars, workVars
  <1>2. ASSUME NEW w \in Workers PROVE Busy(w)' <=> Busy(w)
    BY DEF QuietStep, CompleteCases, RequestRetry, EnqueueRetry, SkipMaintenance,
           EmptyPoll, SaveProgress, Evaluate, RaiseError, RejectSnapshot, Heartbeat, vars,
           workVars, WorkersTypeOK, Busy, Processing, Failing
  <1>3. \/ UNCHANGED jobStatus
        \/ \E j \in Jobs : /\ jobStatus[j] = "absent"
                           /\ jobStatus' = [jobStatus EXCEPT ![j] = "queued"]
    BY DEF QuietStep, CompleteCases, RequestRetry, EnqueueRetry, InsertJob, SkipMaintenance,
           EmptyPoll, SaveProgress, Evaluate, RaiseError, RejectSnapshot, Heartbeat, vars,
           jobVars
  <1>4. UNCHANGED age \/ \E w \in Workers : age' = [age EXCEPT ![held[w]] = 0]
    BY DEF QuietStep, CompleteCases, RequestRetry, EnqueueRetry, InsertJob, SkipMaintenance,
           EmptyPoll, SaveProgress, RefreshLock, Evaluate, RaiseError, RejectSnapshot,
           Heartbeat, vars, jobVars
  <1>5. \A j \in Jobs : \/ jobStatus'[j] = jobStatus[j]
                        \/ jobStatus[j] = "absent" /\ jobStatus'[j] = "queued"
    BY <1>3 DEF JobsTypeOK
  <1>6. \A j \in Jobs : age'[j] = age[j] \/ age'[j] = 0
    BY <1>4 DEF JobsTypeOK
  <1> QED
    BY <1>1, <1>2, <1>5, <1>6

(* What an attempt that ends leaves of its thread and of the others. *)
LEMMA IdleThread ==
    ASSUME WorkersTypeOK, NEW w \in Workers, BecomeIdle(w)
    PROVE  /\ ~(Busy(w)')
           /\ \A v \in Workers : v # w => /\ Busy(v)' <=> Busy(v)
                                          /\ held'[v] = held[v]
  BY DEF BecomeIdle, WorkersTypeOK, Busy, Processing, Failing

LEMMA NextLeaseOK ==
    IInv /\ PunctualHeartbeat /\ LeaseOK /\ [Next]_vars => LeaseOK'
  <1> SUFFICES ASSUME JobsTypeOK, WorkersTypeOK, BusyHoldsJob, PunctualHeartbeat, LeaseOK,
                      [Next]_vars, NEW v \in Workers, Busy(v)'
               PROVE  Holds(v)' /\ age'[held'[v]] <= LeaseTimeout
    BY DEF IInv, TypeOK, LeaseOK
  <1> DEFINE Keeps == Holds(v)' /\ age'[held'[v]] <= LeaseTimeout
  <1> USE DEF Holds
  <1>0. /\ LeaseTimeout \in Nat /\ 0 \notin Jobs
        /\ \A j \in Jobs : age[j] \in Nat
    BY Constants DEF Jobs, JobsTypeOK
  (* A step that leaves the thread and its row alone. *)
  <1>1. ASSUME Busy(v), held'[v] = held[v], jobStatus'[held[v]] = jobStatus[held[v]],
               owner'[held[v]] = owner[held[v]],
               age'[held[v]] = age[held[v]] \/ age'[held[v]] = 0
        PROVE  Keeps
    BY <1>0, <1>1 DEF LeaseOK
  <1> HIDE DEF Keeps
  <1>2. CASE QuietStep
    <2>1. Busy(v) /\ held[v] \in Jobs /\ jobStatus[held[v]] # "absent"
      BY <1>2, QuietStepsAre DEF BusyHoldsJob
    <2>2. /\ held'[v] = held[v] /\ owner'[held[v]] = owner[held[v]]
          /\ jobStatus'[held[v]] = jobStatus[held[v]]
      BY <1>2, <2>1, QuietStepsAre
    <2>3. age'[held[v]] = age[held[v]] \/ age'[held[v]] = 0
      BY <1>2, <2>1, QuietStepsAre
    <2> QED
      BY <1>1, <2>1, <2>2, <2>3 DEF Keeps
  <1>3. ASSUME NEW w \in Workers, RunMaintenance(w) PROVE Keeps
    <2>1. Busy(v) /\ held'[v] = held[v]
      BY <1>3 DEF RunMaintenance, WorkersTypeOK, Busy, Processing, Failing
    <2>2. held[v] \in Jobs /\ ~Expired(held[v])
      BY <1>0, <2>1 DEF BusyHoldsJob, LeaseOK, Expired
    <2> QED
      BY <1>1, <1>3, <2>1, <2>2 DEF RunMaintenance, Recovered
  <1>4. ASSUME NEW w \in Workers, NEW j \in Jobs, Claim(w, j) PROVE Keeps
    <2>1. CASE v = w
      BY <1>0, <1>4, <2>1 DEF Claim, JobsTypeOK, WorkersTypeOK, Keeps
    <2>2. CASE v # w
      <3>1. Busy(v) /\ held'[v] = held[v]
        BY <1>4, <2>2 DEF Claim, WorkersTypeOK, Busy, Processing, Failing
      <3>2. held[v] \in Jobs /\ held[v] # j
        BY <1>4, <3>1 DEF Claim, Due, BusyHoldsJob, LeaseOK
      <3> QED
        BY <1>1, <1>4, <3>1, <3>2 DEF Claim, JobsTypeOK
    <2> QED
      BY <2>1, <2>2
  <1>5. ASSUME NEW w \in Workers, Complete(w) \/ Fail(w) PROVE Keeps
    <2>1. BecomeIdle(w) /\ Busy(w)
      BY <1>5 DEF Complete, Fail, Busy, Processing
    <2>2. v # w /\ Busy(v) /\ held'[v] = held[v]
      BY <2>1, IdleThread
    <2>3. held[v] \in Jobs /\ held[w] \in Jobs /\ held[v] # held[w]
      BY <2>1, <2>2 DEF BusyHoldsJob, LeaseOK
    <2> QED
      BY <1>1, <1>5, <2>2, <2>3 DEF Complete, Fail, JobsTypeOK
  <1>6. ASSUME NEW w \in Workers, FailLost(w) \/ Crash(w) PROVE Keeps
    <2>1. Busy(v) /\ held'[v] = held[v]
      BY <1>6, IdleThread DEF FailLost, Crash
    <2> QED
      BY <1>1, <1>6, <2>1 DEF FailLost, Crash, jobVars
  <1>7. CASE Tick
    <2>1. Busy(v) /\ held'[v] = held[v] /\ held[v] \in Jobs
      BY <1>7 DEF Tick, workVars, Busy, BusyHoldsJob
    <2>2. age[held[v]] < LeaseTimeout
      BY <1>0, <1>7, <2>1 DEF Tick, HeartbeatDue, LeaseOK
    <2>3. age'[held[v]] \in {age[held[v]], age[held[v]] + 1}
      BY <1>7, <2>1 DEF Tick
    <2> QED
      BY <1>0, <1>7, <2>1, <2>2, <2>3 DEF Tick, LeaseOK, Keeps
  <1> QED
    BY <1>2, <1>3, <1>4, <1>5, <1>6, <1>7 DEF Next, WorkerStep, QuietStep, Keeps

LEMMA NextBudgetOK ==
    /\ IInv /\ LeaseKept /\ BudgetOK /\ [Next]_vars /\ LeaseKept'
    => BudgetOK'
  <1> SUFFICES ASSUME JobsTypeOK, WorkersTypeOK, BusyHoldsJob, FencedClaim, faults \in Nat,
                      LeaseKept, LeaseKept', BudgetOK, [Next]_vars, NEW j \in Jobs
               PROVE  /\ attempts'[j] <= MaxAttempts + faults'
                      /\ \/ jobStatus'[j] \in {"absent", "queued"}
                         \/ jobStatus'[j] = "running" /\ ~(Held(j)')
                         => attempts'[j] < MaxAttempts + faults'
    BY Constants DEF IInv, TypeOK, OthersTypeOK, BudgetOK
  <1> DEFINE Within ==
        /\ attempts'[j] <= MaxAttempts + faults'
        /\ \/ jobStatus'[j] \in {"absent", "queued"}
           \/ jobStatus'[j] = "running" /\ ~(Held(j)')
           => attempts'[j] < MaxAttempts + faults'
  <1>0. MaxAttempts \in Nat /\ attempts[j] \in Nat
    BY Constants DEF JobsTypeOK
  (* A step that leaves the row and its holder. *)
  <1>1. ASSUME UNCHANGED faults, attempts'[j] = attempts[j], jobStatus'[j] = jobStatus[j],
               Held(j) => Held(j)'
        PROVE  Within
    BY <1>1 DEF BudgetOK
  <1> HIDE DEF Within
  <1>2. CASE QuietStep
    <2>1. Held(j) <=> Held(j)'
      BY <1>2, QuietStepsAre DEF Held
    <2> QED
      BY <1>1, <1>2, <2>1, QuietStepsAre DEF BudgetOK, Within
  <1>3. ASSUME NEW w \in Workers, RunMaintenance(w) PROVE Within
    <2>1. UNCHANGED <<attempts, held, faults>> /\ (Held(j) <=> Held(j)')
      BY <1>3 DEF RunMaintenance, WorkersTypeOK, Held, Busy, Processing, Failing
    <2>2. CASE Expired(j)
      <3>1. jobStatus'[j] # "running"
        BY <1>3, <2>2 DEF RunMaintenance, Recovered
      <3>2. ~Held(j)
        BY <2>1, <3>1 DEF Held, LeaseKept, Holds
      <3> QED
        BY <1>0, <2>1, <2>2, <3>2 DEF BudgetOK, Expired, Within
    <2>3. CASE ~Expired(j)
      BY <1>1, <1>3, <2>1, <2>3 DEF RunMaintenance, Recovered
    <2> QED
      BY <2>2, <2>3
  <1>4. ASSUME NEW w \in Workers, NEW i \in Jobs, Claim(w, i) PROVE Within
    <2>1. UNCHANGED faults /\ held'[w] = i /\ Busy(w)' /\ ~Busy(w)
      BY <1>4 DEF Claim, WorkersTypeOK, Busy, Processing, Failing
    <2>2. CASE j = i
      <3>1. /\ attempts[j] < MaxAttempts + faults /\ attempts'[j] = attempts[j] + 1
            /\ jobStatus'[j] = "running"
        BY <1>4, <2>2 DEF Claim, Due, BudgetOK, JobsTypeOK
      <3>2. Held(j)'
        BY <2>1, <2>2 DEF Held
      <3> QED
        BY <1>0, <2>1, <3>1, <3>2 DEF Within
    <2>3. CASE j # i
      <3>1. ASSUME NEW v \in Workers, Busy(v), held[v] = j PROVE Busy(v)' /\ held'[v] = j
        BY <1>4, <2>1, <3>1 DEF Claim, WorkersTypeOK, Busy
      <3>2. Held(j) => Held(j)'
        BY <3>1 DEF Held
      <3> QED
        BY <1>1, <1>4, <2>1, <2>3, <3>2 DEF Claim, JobsTypeOK
    <2> QED
      BY <2>2, <2>3
  <1>5. ASSUME NEW w \in Workers, Complete(w) \/ Fail(w) PROVE Within
    <2>1. /\ UNCHANGED <<attempts, faults>> /\ BecomeIdle(w) /\ Busy(w)
          /\ held[w] \in Jobs /\ Holds(w) /\ attempts[held[w]] = claim[w]
      BY <1>5 DEF Complete, Fail, Busy, Processing, BusyHoldsJob, LeaseKept, FencedClaim
    <2>2. CASE j = held[w]
      <3>1. \/ jobStatus'[j] \in {"completed", "failed"}
            \/ jobStatus'[j] = "queued" /\ attempts[j] < MaxAttempts
        BY <1>5, <2>1, <2>2 DEF Complete, Fail, Retries, JobsTypeOK
      <3> QED
        BY <1>0, <2>1, <3>1 DEF BudgetOK, Within
    <2>3. CASE j # held[w]
      <3>1. Held(j) => Held(j)'
        BY <2>1, <2>3, IdleThread DEF Held
      <3> QED
        BY <1>1, <1>5, <2>1, <2>3, <3>1 DEF Complete, Fail, JobsTypeOK
    <2> QED
      BY <2>2, <2>3
  <1>6. ASSUME NEW w \in Workers, FailLost(w) \/ Crash(w) PROVE Within
    <2>1. UNCHANGED <<attempts, jobStatus>> /\ faults' = faults + 1
      BY <1>6 DEF FailLost, Crash, jobVars
    <2> QED
      BY <1>0, <2>1 DEF BudgetOK, Within
  <1>7. CASE Tick
    <2>1. UNCHANGED <<attempts, jobStatus, faults>> /\ (Held(j) <=> Held(j)')
      BY <1>7 DEF Tick, workVars, Held, Busy
    <2>2. attempts'[j] = attempts[j] /\ jobStatus'[j] = jobStatus[j] /\ UNCHANGED faults
      BY <2>1
    <2> QED
      BY <1>1, <2>1, <2>2 DEF Within
  <1> QED
    BY <1>2, <1>3, <1>4, <1>5, <1>6, <1>7 DEF Next, WorkerStep, QuietStep, Within

LEMMA InitKept == Init => LeaseOK /\ BudgetOK
  <1> SUFFICES ASSUME Init PROVE LeaseOK /\ BudgetOK
    OBVIOUS
  <1>1. LeaseOK
    BY DEF Init, LeaseOK, Busy, Processing, Failing
  <1>2. BudgetOK
    BY Constants DEF Init, BudgetOK
  <1> QED
    BY <1>1, <1>2

(* As long as no attempt outlives its lease, however late its heartbeats    *)
(* come, a job is claimed once for each of its attempts and once more for   *)
(* every crash and every failure that could not be written                  *)
(* (_run_maintenance_if_due, _fail).                                        *)
THEOREM KeptLeasesBoundClaims == Spec /\ []LeaseKept => []ClaimsBounded
  <1>1. Init => IInv /\ BudgetOK
    BY InitIInv, InitKept
  <1>2. IInv /\ BudgetOK /\ LeaseKept /\ [Next]_vars /\ LeaseKept' => (IInv /\ BudgetOK)'
    BY NextTypeOK, NextBusyHoldsJob, NextFencedClaim, NextOneActive, NextRetriesWithinLimit,
       NextBudgetOK
    DEF IInv
  <1>3. IInv /\ BudgetOK => ClaimsBounded
    BY DEF BudgetOK, ClaimsBounded
  <1> QED
    BY <1>1, <1>2, <1>3, PTL DEF Spec

(* With heartbeats in time no attempt outlives its lease: the heartbeat     *)
(* thread refreshes locked_at before the maintenance may take the job back. *)
THEOREM PunctualKeepsLeases == PunctualHeartbeat => (Spec => []LeaseKept)
  <1> SUFFICES ASSUME PunctualHeartbeat PROVE Spec => []LeaseKept
    OBVIOUS
  <1>1. Init => IInv /\ LeaseOK
    BY InitIInv, InitKept
  <1>2. IInv /\ LeaseOK /\ [Next]_vars => (IInv /\ LeaseOK)'
    BY NextTypeOK, NextBusyHoldsJob, NextFencedClaim, NextOneActive, NextRetriesWithinLimit,
       NextLeaseOK
    DEF IInv
  <1>3. IInv /\ LeaseOK => LeaseKept
    BY DEF LeaseOK, LeaseKept
  <1> QED
    BY <1>1, <1>2, <1>3, PTL DEF Spec

(* So with heartbeats in time the claims of a job are bounded.              *)
THEOREM ClaimsAreBounded == Spec => [](PunctualHeartbeat => ClaimsBounded)
  <1>1. CASE PunctualHeartbeat
    BY <1>1, PunctualKeepsLeases, KeptLeasesBoundClaims, PTL
  <1>2. CASE ~PunctualHeartbeat
    <2>1. PunctualHeartbeat => ClaimsBounded
      BY <1>2
    <2> QED
      BY <2>1, PTL
  <1> QED
    BY <1>1, <1>2

-----------------------------------------------------------------------------
(* The refinement of FencedQueue. *)

(* A thread without a job has forgotten its claim. *)
IdleHasNoClaim == \A w \in Workers : ~Busy(w) => held[w] = 0 /\ claim[w] = 0

(* A thread leaves the busy states only through BecomeIdle, which forgets  *)
(* the job and the attempt.                                                *)
LEMMA NextIdleHasNoClaim == TypeOK /\ IdleHasNoClaim /\ [Next]_vars => IdleHasNoClaim'
  <1> SUFFICES ASSUME WorkersTypeOK, IdleHasNoClaim, [Next]_vars
               PROVE  IdleHasNoClaim'
    BY DEF TypeOK
  <1> USE DEF IdleHasNoClaim, Busy, WorkersTypeOK
  <1>1. ASSUME UNCHANGED workVars PROVE IdleHasNoClaim'
    BY <1>1 DEF workVars
  <1>2. ASSUME NEW w \in Workers,
               SkipMaintenance(w) \/ RunMaintenance(w) \/ EmptyPoll(w)
        PROVE  IdleHasNoClaim'
    BY <1>2 DEF SkipMaintenance, RunMaintenance, Recovered, EmptyPoll, Processing, Failing
  <1>3. ASSUME NEW w \in Workers, NEW j \in Jobs, Claim(w, j) PROVE IdleHasNoClaim'
    BY <1>3 DEF Claim, Processing
  <1>4. ASSUME NEW w \in Workers,
               SaveProgress(w) \/ Evaluate(w) \/ RaiseError(w) \/ RejectSnapshot(w)
        PROVE  IdleHasNoClaim'
    BY <1>4 DEF SaveProgress, AllEvaluated, Evaluate, RaiseError, RejectSnapshot, Processing, Failing
  <1>5. ASSUME NEW w \in Workers, Complete(w) \/ Fail(w) \/ FailLost(w) \/ Crash(w)
        PROVE  IdleHasNoClaim'
    <2>1. BecomeIdle(w)
      BY <1>5 DEF Complete, Fail, SessionAfterFailure, FailLost, Crash
    <2> QED
      BY <2>1 DEF BecomeIdle
  <1> QED
    BY <1>1, <1>2, <1>3, <1>4, <1>5
    DEF Next, WorkerStep, CompleteCases, RequestRetry, EnqueueRetry, Heartbeat, Tick, vars

RefinementInv == IInv /\ IdleHasNoClaim

(* The initial state maps to the initial state of the abstract queue. *)
LEMMA InitQueue == Init => Queue!Init
  BY DEF Init, Queue!Init, Queue!NoClaim, QueueStatus

-----------------------------------------------------------------------------
(* The abstract variables of a step. *)

QStatus == [j \in Jobs |-> QueueStatus(j)]
QClaim == [w \in Workers |-> [job |-> held[w], epoch |-> claim[w]]]

(* Both ways of inserting a job are the abstract Submit. *)
LEMMA SubmitStep ==
    ASSUME JobsTypeOK, NEW s \in Sessions, InsertJob(s), UNCHANGED workVars
    PROVE  Queue!Next
  <1>1. PICK j \in Jobs :
          /\ jobStatus[j] = "absent"
          /\ jobStatus' = [jobStatus EXCEPT ![j] = "queued"]
          /\ attempts' = attempts
    BY DEF InsertJob
  <1>2. QStatus' = [QStatus EXCEPT ![j] = "waiting"] /\ QStatus[j] = "none"
    BY <1>1 DEF QStatus, QueueStatus, JobsTypeOK
  <1>3. QClaim' = QClaim
    BY DEF QClaim, workVars
  <1> QED
    BY <1>1, <1>2, <1>3 DEF Queue!Next, Queue!Submit, QStatus, QClaim

(* A step that changes no row of the jobs and no thread but w, which        *)
(* either keeps its claim or drops it.                                      *)
LEMMA DropStep ==
    ASSUME WorkersTypeOK, NEW w \in Workers, BecomeIdle(w), UNCHANGED <<jobStatus, attempts>>
    PROVE  Queue!Next
  <1>1. QClaim' = [QClaim EXCEPT ![w] = Queue!NoClaim]
    BY DEF QClaim, BecomeIdle, WorkersTypeOK, Queue!NoClaim
  <1>2. QStatus' = QStatus
    BY DEF QStatus, QueueStatus
  <1> QED
    BY <1>1, <1>2 DEF Queue!Next, Queue!Drop, QStatus, QClaim

(* A step that leaves statuses, attempts and claims alone is a stutter. *)
LEMMA StutterStep ==
    ASSUME UNCHANGED <<jobStatus, attempts, held, claim>>
    PROVE  UNCHANGED Queue!vars
  BY DEF Queue!vars, QueueStatus

(* A guarded update of the job's status is the abstract Settle: by         *)
(* FencedClaim the guard admits only the latest claim.                     *)
LEMMA SettleStep ==
    ASSUME TypeOK, BusyHoldsJob, FencedClaim,
           NEW w \in Workers, Busy(w), Holds(w), BecomeIdle(w),
           NEW outcome \in {"queued", "completed", "failed"},
           jobStatus' = [jobStatus EXCEPT ![held[w]] = outcome], attempts' = attempts
    PROVE  Queue!Next
  <1>1. held[w] \in Jobs /\ attempts[held[w]] = claim[w]
    BY DEF BusyHoldsJob, FencedClaim
  <1>2. QClaim' = [QClaim EXCEPT ![w] = Queue!NoClaim]
    BY DEF QClaim, BecomeIdle, TypeOK, WorkersTypeOK, Queue!NoClaim
  <1>3. PICK result \in {"waiting", "done", "failed"} :
          QStatus' = [QStatus EXCEPT ![held[w]] = result]
    <2>1. CASE outcome = "queued"
      BY <1>1, <2>1 DEF QStatus, QueueStatus, TypeOK, JobsTypeOK
    <2>2. CASE outcome = "completed"
      BY <1>1, <2>2 DEF QStatus, QueueStatus, TypeOK, JobsTypeOK
    <2>3. CASE outcome = "failed"
      BY <1>1, <2>3 DEF QStatus, QueueStatus, TypeOK, JobsTypeOK
    <2> QED
      BY <2>1, <2>2, <2>3
  <1>4. QClaim[w].job = held[w] /\ QClaim[w].epoch = claim[w] /\ QStatus[held[w]] = "taken"
    BY <1>1 DEF QClaim, QStatus, QueueStatus, Holds
  <1>5. Queue!Settle(w, result)
    BY <1>1, <1>2, <1>3, <1>4 DEF Queue!Settle, Queue!Current, QClaim, QStatus
  <1> QED
    BY <1>5, <1>3 DEF Queue!Next, Queue!Settled

(* Claiming a due job is the abstract Take of a thread without a claim. *)
LEMMA TakeStep ==
    ASSUME TypeOK, IdleHasNoClaim, NEW w \in Workers, NEW j \in Jobs, Claim(w, j)
    PROVE  Queue!Next
  <1>1. QClaim[w] = Queue!NoClaim
    BY DEF Claim, IdleHasNoClaim, Busy, Processing, Failing, QClaim, Queue!NoClaim
  <1>2. /\ QStatus[j] = "waiting"
        /\ QStatus' = [i \in Jobs |-> IF i = j THEN "taken" ELSE QStatus[i]]
    BY DEF Claim, Due, QStatus, QueueStatus, TypeOK, JobsTypeOK
  <1>3. QClaim' = [QClaim EXCEPT ![w] = [job |-> j, epoch |-> attempts[j] + 1]]
    BY DEF Claim, QClaim, TypeOK, WorkersTypeOK
  <1>4. attempts' = [attempts EXCEPT ![j] = @ + 1]
    BY DEF Claim
  <1>5. Queue!Take(w, j, {})
    BY <1>1, <1>2, <1>3, <1>4 DEF Queue!Take, QClaim, QStatus
  <1> QED
    BY <1>5 DEF Queue!Next

(* Lease recovery is the abstract Maintain that takes the expired jobs     *)
(* back and deletes none.                                                  *)
LEMMA MaintainStep ==
    ASSUME TypeOK, NEW w \in Workers, RunMaintenance(w)
    PROVE  Queue!Next
  <1> DEFINE S == {j \in Jobs : Expired(j)}
  <1>1. \A j \in S : QStatus[j] = "taken"
    BY DEF QStatus, QueueStatus, Expired
  <1>2. QStatus' = [j \in Jobs |-> IF j \in S THEN "waiting" ELSE QStatus[j]]
    BY DEF RunMaintenance, Recovered, QStatus, QueueStatus, TypeOK, JobsTypeOK
  <1>3. QClaim' = QClaim /\ attempts' = attempts
    BY DEF RunMaintenance, Recovered, QClaim
  <1>4. Queue!Maintain(S, {})
    BY <1>1, <1>2, <1>3 DEF Queue!Maintain, QStatus, QClaim
  <1> QED
    BY <1>4 DEF Queue!Next

(* Every step of the analysis queue is a step of the abstract queue or a   *)
(* stutter.                                                                *)
LEMMA NextQueue == RefinementInv /\ [Next]_vars => [Queue!Next]_(Queue!vars)
  <1> SUFFICES ASSUME TypeOK, BusyHoldsJob, FencedClaim, IdleHasNoClaim, [Next]_vars
               PROVE  Queue!Next \/ UNCHANGED Queue!vars
    BY DEF RefinementInv, IInv
  <1>1. ASSUME NEW s \in Sessions, CompleteCases(s)
        PROVE  Queue!Next \/ UNCHANGED Queue!vars
    BY <1>1, SubmitStep, StutterStep DEF CompleteCases, TypeOK, jobVars, workVars
  <1>2. ASSUME NEW c \in Clients, NEW s \in Sessions, EnqueueRetry(c, s)
        PROVE  Queue!Next \/ UNCHANGED Queue!vars
    BY <1>2, SubmitStep, StutterStep DEF EnqueueRetry, TypeOK, jobVars, workVars
  <1>3. ASSUME NEW w \in Workers, RunMaintenance(w) PROVE Queue!Next
    BY <1>3, MaintainStep
  <1>4. ASSUME NEW w \in Workers, NEW j \in Jobs, Claim(w, j) PROVE Queue!Next
    BY <1>4, TakeStep
  <1>5. ASSUME NEW w \in Workers, Complete(w) PROVE Queue!Next
    BY <1>5, SettleStep DEF Complete, Busy, Processing
  <1>6. ASSUME NEW w \in Workers, Fail(w) PROVE Queue!Next
    <2>1. CASE Holds(w)
      <3>1. PICK outcome \in {"queued", "failed"} :
              jobStatus' = [jobStatus EXCEPT ![held[w]] = outcome]
        BY <1>6, <2>1 DEF Fail, SessionAfterFailure
      <3> QED
        BY <1>6, <2>1, <3>1, SettleStep DEF Fail, SessionAfterFailure, Busy
    <2>2. CASE ~Holds(w)
      BY <1>6, <2>2, DropStep DEF Fail, SessionAfterFailure, TypeOK
    <2> QED
      BY <2>1, <2>2
  <1>7. ASSUME NEW w \in Workers, FailLost(w) \/ Crash(w) PROVE Queue!Next
    BY <1>7, DropStep DEF FailLost, Crash, TypeOK, jobVars
  <1>8. ASSUME UNCHANGED <<jobStatus, attempts, held, claim>>
        PROVE  UNCHANGED Queue!vars
    BY <1>8, StutterStep
  <1>9. ASSUME NEW w \in Workers,
               \/ SkipMaintenance(w) \/ EmptyPoll(w) \/ SaveProgress(w) \/ Evaluate(w)
               \/ RaiseError(w) \/ RejectSnapshot(w) \/ Heartbeat(w)
        PROVE  UNCHANGED Queue!vars
    BY <1>8, <1>9 DEF SkipMaintenance, EmptyPoll, SaveProgress, AllEvaluated, Evaluate, RaiseError,
                      RejectSnapshot, Heartbeat, jobVars, workVars
  <1>10. ASSUME NEW c \in Clients, NEW s \in Sessions, RequestRetry(c, s)
         PROVE  UNCHANGED Queue!vars
    BY <1>8, <1>10 DEF RequestRetry, jobVars, workVars
  <1>11. ASSUME Tick \/ UNCHANGED vars PROVE UNCHANGED Queue!vars
    BY <1>8, <1>11 DEF Tick, vars, jobVars, workVars
  <1> QED
    BY <1>1, <1>2, <1>3, <1>4, <1>5, <1>6, <1>7, <1>9, <1>10, <1>11 DEF Next, WorkerStep

(* The refinement rests on the inductive invariant of the proofs and on    *)
(* idle threads without a claim.                                           *)
LEMMA RefinementInvariance == Spec => []RefinementInv
  <1>1. Init => IdleHasNoClaim
    BY DEF Init, IdleHasNoClaim
  <1>2. IInv => TypeOK
    BY DEF IInv
  <1> QED
    BY <1>1, <1>2, Invariance, NextIdleHasNoClaim, PTL DEF Spec, RefinementInv

(* Every behaviour of the queue is one of the abstract queue: a worker      *)
(* without the latest claim settles nothing, and what is settled stays so.  *)
THEOREM Refinement == Spec => ImplementsFencedQueue
  BY InitQueue, NextQueue, RefinementInvariance, PTL DEF Spec, ImplementsFencedQueue, Queue!Spec

-----------------------------------------------------------------------------
(* What the queue inherits from FencedQueue. *)

Laws == INSTANCE FencedQueueProofs WITH
    status <- [j \in Jobs |-> QueueStatus(j)],
    epoch <- attempts,
    claim <- [w \in Workers |-> [job |-> held[w], epoch |-> claim[w]]]

(* The theorems are about the queue that is implemented. *)
LEMMA SameQueue == Queue!Spec => Laws!Spec
  <1>1. Queue!Init => Laws!Init
    BY DEF Queue!Init, Laws!Init, Queue!NoClaim, Laws!NoClaim
  <1>2. [Queue!Next]_(Queue!vars) => [Laws!Next]_(Laws!vars)
    BY DEF Queue!Next, Queue!Submit, Queue!Take, Queue!Maintain, Queue!Settle, Queue!Drop,
           Queue!Current, Queue!NoClaim, Queue!Settled, Queue!vars,
           Laws!Next, Laws!Submit, Laws!Take, Laws!Maintain, Laws!Settle, Laws!Drop,
           Laws!Current, Laws!NoClaim, Laws!Settled, Laws!vars
  <1> QED
    BY <1>1, <1>2, PTL DEF Queue!Spec, Laws!Spec

(* A completed or failed analysis keeps its status: no late attempt, no    *)
(* lease recovery and no retry touches the row again.                      *)
SettledJobStays ==
    [][\A j \in Jobs : jobStatus[j] \in {"completed", "failed"} => jobStatus'[j] = jobStatus[j]]_vars

(* By the refinement it is a theorem of the abstract queue, whose updates   *)
(* of a settled row are none.                                               *)
THEOREM SettledJobs == Spec => SettledJobStays
  <1>1. TypeOK /\ TypeOK' /\ [Laws!SettledStays]_(Laws!vars) =>
          [\A j \in Jobs : jobStatus[j] \in {"completed", "failed"} =>
               jobStatus'[j] = jobStatus[j]]_vars
    <2> SUFFICES ASSUME TypeOK, TypeOK', [Laws!SettledStays]_(Laws!vars),
                        NEW j \in Jobs, jobStatus[j] \in {"completed", "failed"}
                 PROVE  jobStatus'[j] = jobStatus[j]
      OBVIOUS
    <2>1. /\ QueueStatus(j) \in {"done", "failed"}
          /\ QueueStatus(j)' \in {QueueStatus(j), "gone"}
      BY DEF Laws!SettledStays, Laws!Settled, Laws!vars, QueueStatus
    <2> QED
      BY <2>1 DEF QueueStatus, TypeOK, JobsTypeOK
  <1> QED
    BY <1>1, SameQueue, Refinement, TypeCorrect, Laws!SettledJobStays, PTL
    DEF ImplementsFencedQueue, SettledJobStays

(* An attempt that has lost its lease, however it goes on, never passes    *)
(* the guard of its updates again.                                         *)
LostLeaseStaysLost ==
    [][\A w \in Workers : Busy(w) /\ ~Holds(w) /\ held'[w] = held[w] /\ claim'[w] = claim[w]
           => ~Holds(w)']_vars

(* The abstract queue has it for claims; here the guard is the worker_id,   *)
(* which the thread uses again for the next job (_complete, _fail).         *)
THEOREM LostLeases == Spec => LostLeaseStaysLost
  <1>1. RefinementInv /\ RefinementInv' /\ [Laws!LostStaysLost]_(Laws!vars) =>
          [\A w \in Workers : Busy(w) /\ ~Holds(w) /\ held'[w] = held[w] /\ claim'[w] = claim[w]
               => ~Holds(w)']_vars
    <2> SUFFICES ASSUME RefinementInv, RefinementInv', [Laws!LostStaysLost]_(Laws!vars),
                        NEW w \in Workers, Busy(w), held'[w] = held[w], claim'[w] = claim[w],
                        Holds(w)'
                 PROVE  Holds(w)
      OBVIOUS
    <2>1. Busy(w)' /\ held[w] \in Jobs
      BY DEF RefinementInv, IInv, IdleHasNoClaim, BusyHoldsJob, Holds
    <2>2. jobStatus'[held[w]] = "running" /\ attempts'[held[w]] = claim[w]
      BY <2>1 DEF RefinementInv, IInv, FencedClaim, Holds
    <2>3. Laws!Current(w)'
      BY <2>1, <2>2 DEF Laws!Current, QueueStatus
    <2>4. Laws!Current(w)
      BY <2>3 DEF Laws!LostStaysLost, Laws!Current, Laws!vars
    <2>5. jobStatus[held[w]] = "running" /\ attempts[held[w]] = claim[w]
      BY <2>1, <2>4 DEF Laws!Current, QueueStatus, RefinementInv, IInv, TypeOK, JobsTypeOK
    <2> QED
      BY <2>5 DEF RefinementInv, IInv, FencedClaim
  <1> QED
    BY <1>1, SameQueue, Refinement, RefinementInvariance, Laws!LostClaimStaysLost, PTL
    DEF ImplementsFencedQueue, LostLeaseStaysLost
=============================================================================
