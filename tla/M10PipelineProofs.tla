--------------------------- MODULE M10PipelineProofs ---------------------------
(* Theorems about the processing of a cycle, for every set of situations,   *)
(* of recovery keys and of threads, and for every bound.                    *)
EXTENDS M10Pipeline, M6RequestsProofs

-----------------------------------------------------------------------------
(* The types of the pipeline's own state. *)

(* The material that a situation can hand over. *)
LEMMA MaterialOK ==
    ASSUME NEW s \in Situations, NEW b \in Boundaries
    PROVE  Evidence(s, b) \in Requests /\ Assessment(s, b) \in Requests
  BY MaterialAssumption

LEMMA BoundaryIsNat ==
    Boundaries \subseteq Nat /\ Final \in Boundaries /\ Interim \subseteq Boundaries
  BY MaterialAssumption DEF Boundaries, Final, Interim

(* The boundaries up to the last one are there. *)
LEMMA BoundaryOK ==
    ASSUME NEW s \in Situations, NEW b \in Nat, b <= LastBoundary[s]
    PROVE  b \in Boundaries
  <1>1. LastBoundary[s] \in Nat
    BY MaterialAssumption
  <1>2. CASE b = 0
    BY <1>2 DEF Boundaries, Final
  <1>3. CASE b # 0
    <2>1. b \in 1..LastBoundary[s]
      BY <1>1, <1>3
    <2> QED
      BY <2>1 DEF Boundaries, Interim
  <1> QED
    BY <1>2, <1>3

LEMMA InitPipelineTypeOK == Init => PipelineTypeOK
  <1> SUFFICES ASSUME Init PROVE PipelineTypeOK
    OBVIOUS
  <1>1. 0 \in Boundaries /\ 0 \in 0..MaxReplays
    BY BoundAssumption, BoundaryIsNat DEF Final
  <1>2. step \in Steps
    BY DEF Init, Steps
  <1> QED
    BY <1>1, <1>2 DEF Init, PipelineTypeOK

(* The participant's commands: where the newest handoff ends. *)
LEMMA ParticipantTypes ==
    ASSUME PipelineTypeOK, Participant PROVE PipelineTypeOK'
  <1>1. ASSUME NEW s \in Situations, PresentNext(s) PROVE PipelineTypeOK'
    BY <1>1 DEF PresentNext, PipelineTypeOK, sideVars
  <1>2. CASE PauseCycle \/ ResumeCycle
    BY <1>2 DEF PauseCycle, ResumeCycle, PipelineTypeOK, materialVars, sideVars
  <1>3. CASE CloseCycle
    BY <1>3 DEF CloseCycle, PipelineTypeOK, sideVars
  <1>4. ASSUME NEW s \in Situations, EndScenario(s) PROVE PipelineTypeOK'
    <2>1. 1 \in Boundaries
      BY <1>4, BoundaryOK DEF EndScenario
    <2> QED
      BY <1>4, <2>1 DEF EndScenario, HandOver, PipelineTypeOK, sideVars
  <1>5. ASSUME NEW s \in Situations, RepeatEndScenario(s) PROVE PipelineTypeOK'
    <2>1. PICK b \in {boundary[s], boundary[s] + 1} :
             b <= LastBoundary[s] /\ boundary' = [boundary EXCEPT ![s] = b]
      BY <1>5 DEF RepeatEndScenario
    <2>2. b \in Nat
      <3>1. boundary[s] \in Nat
        BY BoundaryIsNat DEF PipelineTypeOK
      <3> QED
        BY <2>1, <3>1
    <2>3. b \in Boundaries
      BY <2>1, <2>2, BoundaryOK
    <2>4. replays' \in 0..MaxReplays
      BY <1>5, BoundAssumption DEF RepeatEndScenario, PipelineTypeOK
    <2> QED
      BY <1>5, <2>1, <2>3, <2>4 DEF RepeatEndScenario, HandOver, PipelineTypeOK
  <1>6. ASSUME NEW s \in Situations, NEW b \in Interim, Answer(s, b) PROVE PipelineTypeOK'
    <2>1. boundary[s] \in Nat /\ LastBoundary[s] \in Nat
      BY BoundaryIsNat, MaterialAssumption DEF PipelineTypeOK
    <2>2. boundary[s] + 1 \in Boundaries
      BY <1>6, <2>1, BoundaryOK DEF Answer
    <2> QED
      BY <1>6, <2>2 DEF Answer, HandOver, PipelineTypeOK, sideVars
  <1>7. ASSUME NEW s \in Situations, NEW b \in Interim, RepeatAnswer(s, b)
        PROVE  PipelineTypeOK'
    <2>1. replays' \in 0..MaxReplays
      BY <1>7, BoundAssumption DEF RepeatAnswer, PipelineTypeOK
    <2> QED
      BY <1>7, <2>1 DEF RepeatAnswer, PipelineTypeOK, materialVars
  <1>8. ASSUME NEW s \in Situations, NEW b \in Interim, Decline(s, b) PROVE PipelineTypeOK'
    BY <1>8 DEF Decline, PipelineTypeOK, sideVars
  <1>9. ASSUME NEW s \in Situations, FinishSituation(s) PROVE PipelineTypeOK'
    BY <1>9 DEF FinishSituation, HandOver, PipelineTypeOK, sideVars
  <1>10. ASSUME NEW s \in Situations, CloseScenario(s) PROVE PipelineTypeOK'
    BY <1>10 DEF CloseScenario, PipelineTypeOK, sideVars
  <1>11. CASE LimitInTurn
    BY <1>11 DEF LimitInTurn, PipelineTypeOK, materialVars, sideVars
  <1>12. ASSUME NEW s \in Situations, RepeatFinish(s) PROVE PipelineTypeOK'
    <2>1. replays' \in 0..MaxReplays
      BY <1>12, BoundAssumption DEF RepeatFinish, PipelineTypeOK
    <2> QED
      BY <1>12, <2>1 DEF RepeatFinish, HandOver, PipelineTypeOK, materialVars
  <1> QED
    BY <1>1, <1>2, <1>3, <1>4, <1>5, <1>6, <1>7, <1>8, <1>9, <1>10, <1>11, <1>12
    DEF Participant

(* What the thread is doing, by the stage it is at. *)
LEMMA StepFields ==
    ASSUME PipelineTypeOK
    PROVE  /\ step.at \in {"deciding", "presenting"} =>
                  step.situation \in Situations /\ step.boundary \in Interim
           /\ step.at \in {"recalculating", "reporting again"} => step.key \in Keys
  <1>1. step \in Steps
    BY DEF PipelineTypeOK
  <1>2. CASE step = Idling
    BY <1>2 DEF Idling
  <1>3. CASE step \in [at : {"deciding"}, situation : Situations, boundary : Interim,
                       found : {"absent", "active", "scenario_ended", "closed"},
                       open : BOOLEAN]
    BY <1>3
  <1>4. CASE step \in [at : {"presenting"}, situation : Situations, boundary : Interim]
    BY <1>4
  <1>5. CASE step \in [at : {"calculating"}]
    BY <1>5
  <1>6. CASE step \in [at : {"reporting"}, outcome : {"ok", "failed"}]
    BY <1>6
  <1>7. CASE step \in [at : {"recalculating"}, key : Keys]
    BY <1>7
  <1>8. CASE step \in [at : {"reporting again"}, key : Keys, outcome : {"ok", "failed"}]
    BY <1>8
  <1> QED
    BY <1>1, <1>2, <1>3, <1>4, <1>5, <1>6, <1>7, <1>8 DEF Steps

LEMMA OrchestratorTypes ==
    ASSUME PipelineTypeOK, Orchestrator \/ Restart PROVE PipelineTypeOK'
  <1>1. CASE PropagateFailure
    BY <1>1 DEF PropagateFailure, Failures, PipelineTypeOK, materialVars, sideVars
  <1>2. ASSUME NEW s \in Situations, QueueOutbox(s) PROVE PipelineTypeOK'
    BY <1>2 DEF QueueOutbox, HandOver, PipelineTypeOK, sideVars
  <1>3. ASSUME NEW s \in Situations, NEW b \in Boundaries, QueueAssessment(s, b)
        PROVE  PipelineTypeOK'
    BY <1>3 DEF QueueAssessment, PipelineTypeOK, materialVars, sideVars
  <1>4. ASSUME NEW s \in Situations, NEW b \in Interim, StartDecision(s, b)
        PROVE  PipelineTypeOK'
    <2>1. situation[s] \in {"absent", "active", "scenario_ended", "closed"}
      BY DEF PipelineTypeOK
    <2>2. step' \in Steps
      BY <1>4, <2>1 DEF StartDecision, Goes, Steps
    <2> QED
      BY <1>4, <2>2 DEF StartDecision, PipelineTypeOK, materialVars, sideVars
  <1>5. ASSUME NEW outcome \in {"resolved", "ask", "technical"}, SaveDecision(outcome)
        PROVE  PipelineTypeOK'
    <2>1. step.situation \in Situations /\ step.boundary \in Interim
      BY <1>5, StepFields DEF SaveDecision, At
    <2>2. step' \in Steps
      BY <1>5, <2>1 DEF SaveDecision, Goes, Steps
    <2> QED
      BY <1>5, <2>1, <2>2, BoundaryIsNat DEF SaveDecision, PipelineTypeOK, sideVars
  <1>6. Idling \in Steps
    BY DEF Steps
  <1>7. CASE DropDecision \/ RefusePresentation
    BY <1>6, <1>7
    DEF DropDecision, RefusePresentation, Goes, PipelineTypeOK, materialVars, sideVars
  <1>8. CASE PresentQuestion
    <2>1. step.situation \in Situations /\ step.boundary \in Interim
      BY <1>8, StepFields DEF PresentQuestion, At
    <2> QED
      BY <1>6, <1>8, <2>1 DEF PresentQuestion, Goes, PipelineTypeOK, sideVars
  <1>9. CASE NoteDecision
    BY <1>6, <1>9 DEF NoteDecision, Goes, Failures, PipelineTypeOK, materialVars, sideVars
  <1>10. CASE StartCalculation
    <2>1. step' \in Steps
      BY <1>10 DEF StartCalculation, Goes, Steps
    <2> QED
      BY <1>10, <2>1 DEF StartCalculation, PipelineTypeOK, materialVars, sideVars
  <1>11. ASSUME NEW outcome \in {"ok", "failed"}, SaveCalculation(outcome)
         PROVE  PipelineTypeOK'
    <2>1. step' \in Steps
      BY <1>11 DEF SaveCalculation, Goes, Steps
    <2> QED
      BY <1>11, <2>1 DEF SaveCalculation, PipelineTypeOK, materialVars, sideVars
  <1>12. CASE SaveReport
    BY <1>6, <1>12
    DEF SaveReport, Goes, Failures, Reports, PipelineTypeOK, materialVars, sideVars
  <1>13. ASSUME NEW k \in Keys, StartRecovery(k) PROVE PipelineTypeOK'
    <2>1. step' \in Steps
      BY <1>13 DEF StartRecovery, Goes, Steps
    <2> QED
      BY <1>13, <2>1 DEF StartRecovery, PipelineTypeOK, materialVars, sideVars
  <1>14. ASSUME NEW outcome \in {"ok", "failed"}, SaveRecalculation(outcome)
         PROVE  PipelineTypeOK'
    <2>1. step.key \in Keys
      BY <1>14, StepFields DEF SaveRecalculation, At
    <2>2. step' \in Steps
      BY <1>14, <2>1 DEF SaveRecalculation, Goes, Steps
    <2> QED
      BY <1>14, <2>2 DEF SaveRecalculation, PipelineTypeOK, materialVars, sideVars
  <1>15. ASSUME NEW outcome \in {"succeeded", "failed"}, RecoveryEnds(outcome)
         PROVE  PipelineTypeOK'
    BY <1>6, <1>15
    DEF RecoveryEnds, Goes, Failures, Reports, PipelineTypeOK, materialVars, sideVars
  <1>16. CASE FinishRecovery \/ FailRecovery
    BY <1>15, <1>16 DEF FinishRecovery, FailRecovery
  <1>17. CASE Restart
    BY <1>6, <1>17 DEF Restart, Goes, PipelineTypeOK, materialVars, sideVars
  <1> QED
    BY <1>1, <1>2, <1>3, <1>4, <1>5, <1>7, <1>8, <1>9, <1>10, <1>11, <1>12, <1>13, <1>14,
       <1>16, <1>17 DEF Orchestrator

LEMMA NextPipelineTypeOK == PipelineTypeOK /\ [Next]_vars => PipelineTypeOK'
  <1> SUFFICES ASSUME PipelineTypeOK, [Next]_vars PROVE PipelineTypeOK'
    OBVIOUS
  <1>1. CASE UNCHANGED pipelineVars
    BY <1>1 DEF PipelineTypeOK, pipelineVars, materialVars, sideVars
  <1>2. CASE Administrator
    BY <1>2 DEF Administrator, CheckRecovery, InsertRecovery, PipelineTypeOK, materialVars,
                sideVars
  <1>3. CASE HeadChanges
    BY <1>3 DEF HeadChanges, PipelineTypeOK, materialVars
  <1> QED
    BY <1>1, <1>2, <1>3, ParticipantTypes, OrchestratorTypes DEF Next, vars

(* The types of the pipeline's own tables and of the thread's step.         *)
THEOREM PipelineTypeCorrect == Spec => []PipelineTypeOK
  BY InitPipelineTypeOK, NextPipelineTypeOK, PTL DEF Spec

-----------------------------------------------------------------------------
(* The pipeline composes with the requests: it only enqueues them. *)

(* A step that enqueues one request, or finds it there, is the requests'.  *)
LEMMA EnqueuedStep ==
    ASSUME NEW r \in Requests, Enqueued(r),
           UNCHANGED <<begun, attempt, token, live, accepted, saved, job>>
    PROVE  [RequestsNext]_requestVars
  <1>1. CASE status[r] = "absent"
    BY <1>1 DEF Enqueue, RequestsNext
  <1>2. CASE status[r] # "absent"
    BY <1>2 DEF Enqueued, requestVars, rowVars
  <1> QED
    BY <1>1, <1>2

LEMMA HandOverStep ==
    ASSUME NEW s \in Situations, NEW b \in Boundaries, HandOver(s, b)
    PROVE  [RequestsNext]_requestVars
  <1>1. PICK r \in Requests : r = Evidence(s, b)
    BY MaterialOK
  <1> QED
    BY <1>1, EnqueuedStep DEF HandOver

LEMMA NextRequests ==
    ASSUME PipelineTypeOK, [Next]_vars PROVE [RequestsNext]_requestVars
  <1>1. CASE RequestsStep
    BY <1>1 DEF RequestsNext
  <1>2. CASE UNCHANGED requestVars
    BY <1>2
  <1>3. ASSUME NEW s \in Situations, EndScenario(s) PROVE [RequestsNext]_requestVars
    <2>1. 1 \in Boundaries
      BY <1>3, BoundaryOK DEF EndScenario
    <2> QED
      BY <1>3, <2>1, HandOverStep DEF EndScenario
  <1>4. ASSUME NEW s \in Situations, RepeatEndScenario(s)
        PROVE  [RequestsNext]_requestVars
    <2>1. boundary[s] \in Nat
      BY BoundaryIsNat DEF PipelineTypeOK
    <2>2. PICK b \in {boundary[s], boundary[s] + 1} : b <= LastBoundary[s] /\ HandOver(s, b)
      BY <1>4 DEF RepeatEndScenario
    <2>3. b \in Boundaries
      BY <2>1, <2>2, BoundaryOK
    <2> QED
      BY <2>2, <2>3, HandOverStep
  <1>5. ASSUME NEW s \in Situations, NEW b \in Interim, Answer(s, b)
        PROVE  [RequestsNext]_requestVars
    <2>1. boundary[s] \in Nat /\ LastBoundary[s] \in Nat
      BY BoundaryIsNat, MaterialAssumption DEF PipelineTypeOK
    <2>2. PICK n \in Boundaries : n = boundary[s] + 1
      BY <1>5, <2>1, BoundaryOK DEF Answer
    <2> QED
      BY <1>5, <2>2, HandOverStep DEF Answer
  <1>6. ASSUME NEW s \in Situations, FinishSituation(s) \/ RepeatFinish(s) \/ QueueOutbox(s)
        PROVE  [RequestsNext]_requestVars
    BY <1>6, BoundaryIsNat, HandOverStep DEF FinishSituation, RepeatFinish, QueueOutbox
  <1>7. ASSUME NEW s \in Situations, NEW b \in Boundaries, QueueAssessment(s, b)
        PROVE  [RequestsNext]_requestVars
    <2>1. PICK r \in Requests : r = Assessment(s, b)
      BY MaterialOK
    <2> QED
      BY <1>7, <2>1, EnqueuedStep DEF QueueAssessment
  <1>8. CASE UNCHANGED vars
    BY <1>8 DEF vars
  <1>9. CASE Participant
    BY <1>2, <1>3, <1>4, <1>5, <1>6, <1>9
    DEF Participant, PresentNext, PauseCycle, ResumeCycle, CloseScenario, CloseCycle,
        LimitInTurn, RepeatAnswer, Decline
  <1>10. CASE Orchestrator
    BY <1>2, <1>6, <1>7, <1>10
    DEF Orchestrator, PropagateFailure, StartDecision, SaveDecision, DropDecision,
        PresentQuestion, RefusePresentation, NoteDecision, StartCalculation, SaveReport,
        SaveCalculation, SaveRecalculation, StartRecovery, FinishRecovery, FailRecovery,
        RecoveryEnds
  <1>11. CASE Administrator \/ Restart \/ HeadChanges
    BY <1>2, <1>11 DEF Administrator, CheckRecovery, InsertRecovery, Restart, HeadChanges
  <1> QED
    BY <1>1, <1>8, <1>9, <1>10, <1>11 DEF Next

(* What the pipeline does to the requests is what M6Requests describes      *)
(* (m10_product_queue.enqueue_evidence and enqueue_assessment), so every    *)
(* theorem about them holds of it.                                          *)
THEOREM PipelineRunsRequests == Spec => RequestsSpec
  <1>1. Init => RequestsInit
    BY DEF Init
  <1>2. PipelineTypeOK /\ [Next]_vars => [RequestsNext]_requestVars
    BY NextRequests
  <1> QED
    BY <1>1, <1>2, PipelineTypeCorrect, PTL DEF Spec, RequestsSpec

(* Both parts of the state have their types (m10_orchestration.py,          *)
(* ensure_schema).                                                          *)
THEOREM AllTypesCorrect == Spec => []TypeOK
  BY PipelineTypeCorrect, PipelineRunsRequests, TypeCorrect, PTL DEF TypeOK

-----------------------------------------------------------------------------
(* The report. *)

(* A request that has succeeded stays so. *)
LEMMA SucceededStays ==
    ASSUME IInv, [RequestsNext]_requestVars, NEW r \in Requests, status[r] = "succeeded"
    PROVE  status'[r] = "succeeded"
  <1>1. ASSUME NEW w \in Workers, Claim(w) PROVE status'[r] = "succeeded"
    <2>1. job[w].request \in Requests /\ status[job[w].request] # "succeeded"
      BY <1>1, JobTypes DEF Claim, Claimable, Expired
    <2> QED
      BY <1>1, <2>1 DEF Claim, IInv, RequestsTypeOK
  <1>2. ASSUME NEW w \in Workers, FinishSucceeded(w) \/ FinishFailed(w)
        PROVE  status'[r] = "succeeded"
    <2>1. PICK outcome : Settled(w, outcome)
      BY <1>2 DEF FinishSucceeded, FinishFailed
    <2>2. job[w].request \in Requests /\ status[job[w].request] = "running"
      BY <2>1, SettlesNewest
    <2> QED
      BY <2>1, <2>2 DEF Settled, IInv, RequestsTypeOK
  <1>3. ASSUME NEW q \in Requests, Enqueue(q) PROVE status'[r] = "succeeded"
    BY <1>3 DEF Enqueue, Enqueued, IInv, RequestsTypeOK
  <1>4. CASE UNCHANGED status
    BY <1>4
  <1> QED
    BY <1>1, <1>2, <1>3, <1>4
    DEF RequestsNext, RequestsStep, WorkerStep, Workers, Pick, Dispatch, RefuseClaim,
        FinishLate, Crash, Lapse, requestVars, rowVars

(* The composition is saved with the end of the collection, which closes    *)
(* what was presented; a turn at a limit saves none (LimitInTurn).          *)
ClosingOK == c46 =>
    /\ cycle \in {"collection_closed", "calculated"}
    /\ \A s \in Situations : situation[s] \in {"absent", "closed"}

(* A calculation, and all that follows it, starts from processed material.  *)
CalculatedOK ==
    /\ step.at = "calculating" =>
           cycle = "collection_closed" /\ c46 /\ \A s \in Situations : Processed(s)
    /\ cycle = "calculated" => c46 /\ \A s \in Situations : Processed(s)
    /\ step.at \in {"reporting", "recalculating", "reporting again"} => cycle = "calculated"
    /\ pipeline \in Reports \cup {"admission_processing_failed", "recovery_failed"} =>
           cycle = "calculated"
    /\ \A k \in Keys : recovery[k] # "absent" => cycle = "calculated"

(* A question may only be saved for a situation that was found open. *)
DecidingOK == step.at = "deciding" /\ step.open => step.found = "scenario_ended"

PipelineInv == IInv /\ PipelineTypeOK /\ ClosingOK /\ CalculatedOK /\ DecidingOK

LEMMA InitPipelineInv == Init => PipelineInv
  <1> SUFFICES ASSUME Init PROVE PipelineInv
    OBVIOUS
  <1>1. IInv /\ PipelineTypeOK
    BY InitIInv, InitPipelineTypeOK DEF Init
  <1>2. ClosingOK /\ CalculatedOK /\ DecidingOK
    BY DEF Init, Idling, Reports, ClosingOK, CalculatedOK, DecidingOK
  <1> QED
    BY <1>1, <1>2 DEF PipelineInv

LEMMA NextClosingOK ==
    ASSUME PipelineTypeOK, ClosingOK, [Next]_vars PROVE ClosingOK'
  <1>1. CASE UNCHANGED <<c46, cycle, situation>>
    BY <1>1 DEF ClosingOK
  <1>2. ASSUME NEW s \in Situations,
               PresentNext(s) \/ EndScenario(s) \/ FinishSituation(s) \/ CloseScenario(s)
        PROVE  ClosingOK'
    BY <1>2 DEF PresentNext, EndScenario, FinishSituation, CloseScenario, sideVars,
                ClosingOK, PipelineTypeOK
  <1>3. CASE PauseCycle \/ ResumeCycle \/ LimitInTurn
    BY <1>3 DEF PauseCycle, ResumeCycle, LimitInTurn, materialVars, sideVars, ClosingOK
  <1>4. CASE CloseCycle
    BY <1>4 DEF CloseCycle, ClosingOK, PipelineTypeOK
  <1>5. CASE \E outcome \in {"ok", "failed"} : SaveCalculation(outcome)
    BY <1>5 DEF SaveCalculation, materialVars, sideVars, ClosingOK
  <1> QED
    BY <1>1, <1>2, <1>3, <1>4, <1>5
    DEF Next, Participant, Orchestrator, Administrator, vars, pipelineVars, materialVars,
        sideVars, RepeatEndScenario, RepeatFinish, Answer, RepeatAnswer, Decline,
        PropagateFailure, QueueOutbox, QueueAssessment,
        StartDecision, SaveDecision, DropDecision, PresentQuestion, RefusePresentation,
        NoteDecision, StartCalculation, SaveReport, SaveRecalculation, StartRecovery,
        FinishRecovery, FailRecovery, RecoveryEnds, CheckRecovery, InsertRecovery, Restart,
        HeadChanges

(* Only the end of the collection saves the composition, and for good. *)
LEMMA CompositionStays ==
    ASSUME [Next]_vars PROVE (c46 => c46') /\ (c46' # c46 => CloseCycle)
  <1>1. CASE UNCHANGED c46
    BY <1>1
  <1>2. CASE CloseCycle
    BY <1>2 DEF CloseCycle
  <1> QED
    BY <1>1, <1>2
    DEF Next, Participant, Orchestrator, Administrator, vars, pipelineVars, sideVars,
        PresentNext, PauseCycle, ResumeCycle, LimitInTurn, EndScenario, RepeatEndScenario,
        RepeatFinish, CloseScenario, Answer, RepeatAnswer, Decline, FinishSituation,
        PropagateFailure, QueueOutbox, QueueAssessment, StartDecision, SaveDecision,
        DropDecision, PresentQuestion, RefusePresentation, NoteDecision, StartCalculation,
        SaveCalculation, SaveReport, SaveRecalculation, StartRecovery, FinishRecovery,
        FailRecovery, RecoveryEnds, CheckRecovery, InsertRecovery, Restart, HeadChanges

(* Material that was processed stays so once the composition is saved. *)
LEMMA ProcessedStays ==
    ASSUME IInv, PipelineTypeOK, ClosingOK, [Next]_vars, c46,
           NEW s \in Situations, Processed(s)
    PROVE  Processed(s)'
  <1>1. cycle \in {"collection_closed", "calculated"}
    BY DEF ClosingOK
  <1>2. PICK r \in Requests : r = Assessment(s, Final)
    BY MaterialOK, BoundaryIsNat
  <1>3. status[r] = "succeeded" => status'[r] = "succeeded"
    BY NextRequests, SucceededStays
  <1>4. outbox'[s] = outbox[s]
    <2>1. CASE UNCHANGED outbox
      BY <2>1
    <2>2. ASSUME NEW q \in Situations, FinishSituation(q) PROVE FALSE
      BY <1>1, <2>2 DEF FinishSituation
    <2>3. ASSUME NEW q \in Situations, QueueOutbox(q) PROVE outbox'[s] = outbox[s]
      BY <2>3 DEF QueueOutbox, Waiting, Processed, PipelineTypeOK
    <2>4. ~CloseCycle
      BY <1>1 DEF CloseCycle
    <2> QED
      BY <2>1, <2>2, <2>3, <2>4
      DEF Next, Participant, Orchestrator, Administrator, vars, pipelineVars, materialVars,
          PresentNext, PauseCycle, ResumeCycle, LimitInTurn, EndScenario, RepeatEndScenario,
          RepeatFinish, CloseScenario, Answer, RepeatAnswer, Decline, PropagateFailure,
          QueueAssessment, StartDecision,
          SaveDecision, DropDecision, PresentQuestion, RefusePresentation, NoteDecision,
          StartCalculation, SaveCalculation, SaveReport, SaveRecalculation, StartRecovery,
          FinishRecovery, FailRecovery, RecoveryEnds, CheckRecovery, InsertRecovery, Restart,
          HeadChanges
  <1> QED
    BY <1>2, <1>3, <1>4 DEF Processed

(* A cycle that is closed stays closed, and a calculated one calculated.   *)
LEMMA CycleStays ==
    ASSUME PipelineTypeOK, CalculatedOK, [Next]_vars
    PROVE  /\ cycle = "calculated" => cycle' = "calculated"
           /\ cycle = "collection_closed" => cycle' \in {"collection_closed", "calculated"}
           /\ cycle' = "calculated" /\ cycle # "calculated" => step.at = "calculating"
           /\ step.at = "calculating" /\ cycle' # cycle =>
                  cycle' = "calculated" /\ step'.at = "reporting"
  <1>1. CASE UNCHANGED cycle
    BY <1>1
  <1>2. ASSUME NEW s \in Situations, PresentNext(s) \/ FinishSituation(s)
        PROVE  /\ cycle \notin {"calculated", "collection_closed"}
               /\ cycle' \in {"active", "paused"}
    BY <1>2 DEF PresentNext, FinishSituation
  <1>3. CASE PauseCycle \/ ResumeCycle \/ CloseCycle \/ LimitInTurn
    BY <1>3 DEF PauseCycle, ResumeCycle, CloseCycle, LimitInTurn, CalculatedOK
  <1>4. ASSUME NEW outcome, SaveCalculation(outcome)
        PROVE  step.at = "calculating" /\ cycle' = "calculated" /\ step'.at = "reporting"
    BY <1>4 DEF SaveCalculation, At, Goes
  <1>5. \/ UNCHANGED cycle
        \/ PauseCycle \/ ResumeCycle \/ CloseCycle \/ LimitInTurn
        \/ \E s \in Situations : PresentNext(s) \/ FinishSituation(s)
        \/ \E outcome \in {"ok", "failed"} : SaveCalculation(outcome)
    BY DEF Next, Participant, Orchestrator, Administrator, vars, pipelineVars,
           EndScenario, RepeatEndScenario, RepeatFinish, CloseScenario, Answer, RepeatAnswer,
           Decline, PropagateFailure, QueueOutbox, QueueAssessment, StartDecision,
           SaveDecision, DropDecision,
           PresentQuestion, RefusePresentation, NoteDecision, StartCalculation, SaveReport,
           SaveRecalculation, StartRecovery, FinishRecovery, FailRecovery, RecoveryEnds,
           CheckRecovery, InsertRecovery, Restart, HeadChanges
  <1> QED
    BY <1>1, <1>2, <1>3, <1>4, <1>5 DEF CalculatedOK

(* Where the thread goes, and from where.                                   *)
LEMMA StageOrder ==
    ASSUME CalculatedOK, [Next]_vars
    PROVE  /\ step'.at = "calculating" => step.at = "calculating" \/ StartCalculation
           /\ step'.at \in {"reporting", "recalculating", "reporting again"} =>
                  cycle = "calculated" \/ cycle' = "calculated"
           /\ step'.at = "deciding" =>
                  step' = step \/ (step'.open => step'.found = "scenario_ended")
  <1>1. CASE UNCHANGED step
    BY <1>1 DEF CalculatedOK
  <1>2. CASE Goes(Idling)
    BY <1>2 DEF Goes, Idling
  <1>3. ASSUME NEW s \in Situations, NEW b \in Interim, StartDecision(s, b)
        PROVE  step'.at = "deciding" /\ (step'.open => step'.found = "scenario_ended")
    BY <1>3 DEF StartDecision, Goes
  <1>4. ASSUME NEW outcome, SaveDecision(outcome) PROVE step'.at = "presenting"
    BY <1>4 DEF SaveDecision, Goes
  <1>5. CASE StartCalculation
    BY <1>5 DEF StartCalculation, Goes
  <1>6. ASSUME NEW outcome, SaveCalculation(outcome)
        PROVE  step'.at = "reporting" /\ cycle' = "calculated"
    BY <1>6 DEF SaveCalculation, Goes
  <1>7. ASSUME NEW k \in Keys, StartRecovery(k)
        PROVE  step'.at = "recalculating" /\ cycle = "calculated"
    BY <1>7 DEF StartRecovery, Goes, CalculatedOK
  <1>8. ASSUME NEW outcome, SaveRecalculation(outcome)
        PROVE  step'.at = "reporting again" /\ cycle = "calculated"
    BY <1>8 DEF SaveRecalculation, At, Goes, CalculatedOK
  <1>9. \/ UNCHANGED step \/ Goes(Idling) \/ StartCalculation
        \/ \E s \in Situations, b \in Interim : StartDecision(s, b)
        \/ \E outcome \in {"resolved", "ask", "technical"} : SaveDecision(outcome)
        \/ \E outcome \in {"ok", "failed"} :
              SaveCalculation(outcome) \/ SaveRecalculation(outcome)
        \/ \E k \in Keys : StartRecovery(k)
    BY DEF Next, Participant, Orchestrator, Administrator, vars, pipelineVars, PresentNext,
           PauseCycle, ResumeCycle, CloseCycle, LimitInTurn, EndScenario, RepeatEndScenario,
           RepeatFinish, CloseScenario, HeadChanges, Answer, RepeatAnswer, Decline,
           FinishSituation, PropagateFailure, QueueOutbox,
           QueueAssessment, DropDecision, PresentQuestion, RefusePresentation,
           NoteDecision, SaveReport, FinishRecovery, FailRecovery, RecoveryEnds,
           CheckRecovery, InsertRecovery, Restart
  <1> QED
    BY <1>1, <1>2, <1>3, <1>4, <1>5, <1>6, <1>7, <1>8, <1>9

(* The pipeline speaks of a calculation only of a calculated cycle.         *)
LEMMA OutcomesOK ==
    ASSUME CalculatedOK, [Next]_vars
    PROVE  /\ pipeline' \in Reports \cup {"admission_processing_failed", "recovery_failed"} =>
                  cycle = "calculated"
           /\ \A k \in Keys : recovery'[k] # "absent" => cycle = "calculated"
  <1> DEFINE Told == Reports \cup {"admission_processing_failed", "recovery_failed"}
             Here == /\ pipeline' \in Told => cycle = "calculated"
                     /\ \A k \in Keys : recovery'[k] # "absent" => cycle = "calculated"
  <1> SUFFICES Here
    OBVIOUS
  <1>1. ASSUME UNCHANGED recovery,
               \/ UNCHANGED pipeline
               \/ pipeline' \in {"evidence_queued", "processing_failed", "assessment_queued",
                                 "clarification_waiting", "clarification_failed",
                                 "clarification_resolved"}
        PROVE  Here
    BY <1>1 DEF CalculatedOK, Reports
  <1>2. CASE SaveReport \/ FinishRecovery \/ FailRecovery
    <2>1. cycle = "calculated"
      BY <1>2 DEF SaveReport, FinishRecovery, FailRecovery, At, CalculatedOK
    <2> QED
      BY <2>1
  <1>3. ASSUME NEW k \in Keys, CheckRecovery(k) \/ InsertRecovery(k) \/ StartRecovery(k)
        PROVE  Here
    <2>1. cycle = "calculated"
      BY <1>3 DEF CheckRecovery, InsertRecovery, StartRecovery, CalculatedOK
    <2> QED
      BY <2>1
  <1> HIDE DEF Here
  <1>4. ASSUME NEW s \in Situations, NEW b, HandOver(s, b)
        PROVE  pipeline' = "evidence_queued"
    BY <1>4 DEF HandOver
  <1>5. CASE Participant
    BY <1>1, <1>4, <1>5
    DEF Participant, PresentNext, PauseCycle, ResumeCycle, CloseCycle, LimitInTurn,
        EndScenario, RepeatEndScenario, RepeatFinish, CloseScenario, Answer, RepeatAnswer,
        Decline, FinishSituation
  <1>6. CASE Orchestrator
    BY <1>1, <1>2, <1>3, <1>4, <1>6
    DEF Orchestrator, PropagateFailure, QueueOutbox, QueueAssessment, StartDecision,
        SaveDecision, DropDecision, PresentQuestion, RefusePresentation, NoteDecision,
        StartCalculation, SaveCalculation, SaveRecalculation
  <1> QED
    BY <1>1, <1>3, <1>5, <1>6
    DEF Next, Administrator, Restart, HeadChanges, vars, pipelineVars

LEMMA NextCalculatedOK ==
    ASSUME IInv, PipelineTypeOK, ClosingOK, CalculatedOK, [Next]_vars PROVE CalculatedOK'
  <1>1. ASSUME step'.at = "calculating"
        PROVE  cycle' = "collection_closed" /\ c46' /\ \A s \in Situations : Processed(s)'
    <2>1. CASE step.at = "calculating"
      <3>1. cycle = "collection_closed" /\ c46 /\ \A s \in Situations : Processed(s)
        BY <2>1 DEF CalculatedOK
      <3>2. cycle' = "collection_closed"
        BY <1>1, <2>1, <3>1, CycleStays
      <3> QED
        BY <3>1, <3>2, CompositionStays, ProcessedStays
    <2>2. CASE StartCalculation
      <3>1. cycle = "collection_closed" /\ c46 /\ \A s \in Situations : Processed(s)
        BY <2>2 DEF StartCalculation
      <3>2. cycle' = cycle
        BY <2>2 DEF StartCalculation
      <3> QED
        BY <3>1, <3>2, CompositionStays, ProcessedStays
    <2> QED
      BY <1>1, <2>1, <2>2, StageOrder
  <1>2. ASSUME cycle' = "calculated" PROVE c46' /\ \A s \in Situations : Processed(s)'
    <2>1. c46 /\ \A s \in Situations : Processed(s)
      BY <1>2, CycleStays DEF CalculatedOK
    <2> QED
      BY <2>1, CompositionStays, ProcessedStays
  <1>3. step'.at \in {"reporting", "recalculating", "reporting again"} => cycle' = "calculated"
    BY StageOrder, CycleStays
  <1>4. /\ pipeline' \in Reports \cup {"admission_processing_failed", "recovery_failed"} =>
               cycle' = "calculated"
        /\ \A k \in Keys : recovery'[k] # "absent" => cycle' = "calculated"
    BY OutcomesOK, CycleStays
  <1> QED
    BY <1>1, <1>2, <1>3, <1>4 DEF CalculatedOK, Reports

LEMMA NextPipelineInv == PipelineInv /\ [Next]_vars => PipelineInv'
  <1> SUFFICES ASSUME PipelineInv, [Next]_vars PROVE PipelineInv'
    OBVIOUS
  <1>1. PipelineTypeOK'
    BY NextPipelineTypeOK DEF PipelineInv
  <1>2. IInv'
    BY NextRequests, NextIInv DEF PipelineInv
  <1>3. ClosingOK' /\ CalculatedOK'
    BY NextClosingOK, NextCalculatedOK DEF PipelineInv
  <1>4. DecidingOK'
    BY StageOrder DEF PipelineInv, DecidingOK
  <1> QED
    BY <1>1, <1>2, <1>3, <1>4 DEF PipelineInv

(* The inductive invariant holds of every reachable state. *)
THEOREM PipelineInvHolds == Spec => []PipelineInv
  BY InitPipelineInv, NextPipelineInv, PTL DEF Spec

(* What a report is made of: material that was handed over is assessed. *)
LEMMA HandedIsAssessed ==
    ASSUME PipelineInv, pipeline \in Reports, NEW s \in Situations, outbox[s] # "none"
    PROVE  outbox[s] = "queued" /\ accepted[Assessment(s, Final)] # 0
  <1>1. cycle = "calculated"
    BY DEF PipelineInv, CalculatedOK
  <1>2. outbox[s] = "queued" /\ status[Assessment(s, Final)] = "succeeded"
    BY <1>1 DEF PipelineInv, CalculatedOK, Processed
  <1>3. Assessment(s, Final) \in Requests
    BY MaterialOK, BoundaryIsNat
  <1> QED
    BY <1>2, <1>3 DEF PipelineInv, IInv, RowOK

(* A report that is announced is the report of a calculated cycle, whose    *)
(* situations are closed and whose final material is assessed               *)
(* (m10_orchestration._finalize_cycle, _process_recovery).                  *)
THEOREM ReportIsComplete == Spec => []ReadyReportIsComplete
  <1>1. PipelineInv => ReadyReportIsComplete
    BY HandedIsAssessed DEF ReadyReportIsComplete, PipelineInv, ClosingOK, CalculatedOK
  <1> QED
    BY <1>1, PipelineInvHolds, PTL

(* A collection that a turn closed at a limit (assert_collecting) never     *)
(* gets its composition, nor a calculation: _finalize_cycle finds no C-46   *)
(* in any pass.  So ClosedCycleIsCalculated has to except it.               *)
THEOREM TurnClosedStaysUncalculated ==
    Spec => [][cycle = "collection_closed" /\ ~c46 =>
                  cycle' = "collection_closed" /\ ~c46']_vars
  <1>1. PipelineInv /\ [Next]_vars =>
            [cycle = "collection_closed" /\ ~c46 =>
                cycle' = "collection_closed" /\ ~c46']_vars
    <2> SUFFICES ASSUME PipelineInv, [Next]_vars, cycle = "collection_closed", ~c46
                 PROVE  cycle' = "collection_closed" /\ ~c46'
      OBVIOUS
    <2>1. cycle' \in {"collection_closed", "calculated"}
      BY CycleStays DEF PipelineInv
    <2>2. cycle' # "calculated"
      BY CycleStays DEF PipelineInv, CalculatedOK
    <2>3. ~CloseCycle
      BY DEF CloseCycle
    <2> QED
      BY <2>1, <2>2, <2>3, CompositionStays
  <1> QED
    BY <1>1, PipelineInvHolds, PTL DEF Spec

(* What is closed was handed over: the single transitions were not used.    *)
ClosedIsHanded == \A s \in Situations : situation[s] = "closed" => outbox[s] # "none"

LEMMA NextClosedIsHanded ==
    ASSUME PipelineTypeOK, ClosedIsHanded, [Next]_vars,
           [\A s \in Situations : ~CloseScenario(s)]_vars
    PROVE  ClosedIsHanded'
  <1>1. CASE UNCHANGED <<situation, outbox>>
    BY <1>1 DEF ClosedIsHanded
  <1>2. CASE UNCHANGED vars
    BY <1>1, <1>2 DEF vars, pipelineVars, materialVars
  <1>3. ASSUME NEW s \in Situations,
               PresentNext(s) \/ EndScenario(s) \/ FinishSituation(s) \/ QueueOutbox(s)
        PROVE  ClosedIsHanded'
    BY <1>3 DEF PresentNext, EndScenario, FinishSituation, QueueOutbox, ClosedIsHanded,
                PipelineTypeOK
  <1>4. CASE CloseCycle
    BY <1>4 DEF CloseCycle, ClosedIsHanded, PipelineTypeOK
  <1>5. ASSUME NEW s \in Situations, CloseScenario(s) PROVE ClosedIsHanded'
    BY <1>2, <1>5
  <1> QED
    BY <1>1, <1>2, <1>3, <1>4, <1>5
    DEF Next, Participant, Orchestrator, Administrator, vars, pipelineVars, materialVars,
        PauseCycle, ResumeCycle, LimitInTurn, RepeatEndScenario, RepeatFinish, HeadChanges,
        Answer, RepeatAnswer, Decline, PropagateFailure, QueueAssessment, StartDecision,
        SaveDecision, DropDecision,
        PresentQuestion, RefusePresentation, NoteDecision, StartCalculation, SaveCalculation,
        SaveReport, SaveRecalculation, StartRecovery, FinishRecovery, FailRecovery,
        RecoveryEnds, CheckRecovery, InsertRecovery, Restart

(* Where the participant uses the commands of the page, which closes a      *)
(* situation only with its final handoff (finish_current_situation,         *)
(* complete), a report covers every situation that was presented.           *)
THEOREM EverySituationIsReported ==
    Spec /\ [][\A s \in Situations : ~CloseScenario(s)]_vars
        => [](pipeline \in Reports =>
                \A s \in Situations : situation[s] # "absent" =>
                    outbox[s] = "queued" /\ accepted[Assessment(s, Final)] # 0)
  <1>1. Init => ClosedIsHanded
    BY DEF Init, ClosedIsHanded
  <1>2. PipelineTypeOK /\ ClosedIsHanded /\ [Next]_vars
            /\ [\A s \in Situations : ~CloseScenario(s)]_vars => ClosedIsHanded'
    BY NextClosedIsHanded
  <1>3. PipelineInv /\ ClosedIsHanded =>
            (pipeline \in Reports =>
                \A s \in Situations : situation[s] # "absent" =>
                    outbox[s] = "queued" /\ accepted[Assessment(s, Final)] # 0)
    <2> SUFFICES ASSUME PipelineInv, ClosedIsHanded, pipeline \in Reports,
                        NEW s \in Situations, situation[s] # "absent"
                 PROVE  outbox[s] = "queued" /\ accepted[Assessment(s, Final)] # 0
      OBVIOUS
    <2>1. situation[s] = "closed"
      BY DEF PipelineInv, ClosingOK, CalculatedOK
    <2> QED
      BY <2>1, HandedIsAssessed DEF ClosedIsHanded
  <1> QED
    BY <1>1, <1>2, <1>3, PipelineInvHolds, PipelineTypeCorrect, PTL DEF Spec

(* A closed situation is not asked about. *)
LEMMA NotAskedStep ==
    ASSUME PipelineInv, [Next]_vars, NEW s \in Situations, NEW b \in Interim,
           situation[s] = "closed"
    PROVE  clarification'[s][b] = clarification[s][b] \/ clarification'[s][b] = "resolved"
  <1> DEFINE Kept == \/ clarification'[s][b] = clarification[s][b]
                     \/ clarification'[s][b] = "resolved"
  <1> SUFFICES Kept
    OBVIOUS
  <1>0. /\ clarification \in [Situations -> [Interim ->
               {"none", "resolved", "technical", "ask", "presented", "answered", "declined"}]]
        /\ step.at \in {"deciding", "presenting"} =>
              step.situation \in Situations /\ step.boundary \in Interim
    BY StepFields DEF PipelineInv, PipelineTypeOK
  <1>1. CASE UNCHANGED clarification
    BY <1>1
  <1>2. ASSUME NEW q \in Situations, NEW c \in Interim, Answer(q, c) \/ Decline(q, c)
        PROVE  Kept
    <2>1. q # s
      BY <1>2 DEF Answer, Decline
    <2> QED
      BY <1>0, <1>2, <2>1 DEF Answer, Decline
  <1>3. ASSUME NEW outcome, SaveDecision(outcome) PROVE Kept
    <2>1. CASE step.situation = s
      <3>1. outcome = "resolved"
        BY <1>3, <2>1 DEF SaveDecision, At, Unchanged, PipelineInv, DecidingOK
      <3> QED
        BY <1>0, <1>3, <3>1 DEF SaveDecision, At
    <2>2. CASE step.situation # s
      BY <1>0, <1>3, <2>2 DEF SaveDecision, At
    <2> QED
      BY <2>1, <2>2
  <1>4. CASE PresentQuestion
    <2>1. step.situation # s
      BY <1>4 DEF PresentQuestion, Presentable
    <2> QED
      BY <1>0, <1>4, <2>1 DEF PresentQuestion, At
  <1> HIDE DEF Kept
  <1> QED
    BY <1>1, <1>2, <1>3, <1>4
    DEF Next, Participant, Orchestrator, Administrator, vars, pipelineVars, materialVars,
        PresentNext, PauseCycle, ResumeCycle, CloseCycle, LimitInTurn, EndScenario,
        RepeatEndScenario, RepeatFinish, CloseScenario, RepeatAnswer, FinishSituation,
        PropagateFailure, QueueOutbox, QueueAssessment, StartDecision, DropDecision,
        RefusePresentation, NoteDecision, StartCalculation, HeadChanges,
        SaveCalculation, SaveReport, SaveRecalculation, StartRecovery, FinishRecovery,
        FailRecovery, RecoveryEnds, CheckRecovery, InsertRecovery, Restart

(* The answer of a provider that comes after a situation was closed puts no *)
(* question any more (m7_clarification.decide_detached, present).           *)
THEOREM ClosedIsNotAsked == Spec => ClosedSituationIsNotAsked
  <1>1. PipelineInv /\ [Next]_vars =>
            [\A s \in Situations, b \in Interim : situation[s] = "closed" =>
                 \/ clarification'[s][b] = clarification[s][b]
                 \/ clarification'[s][b] = "resolved"]_vars
    BY NotAskedStep
  <1> QED
    BY <1>1, PipelineInvHolds, PTL DEF Spec, ClosedSituationIsNotAsked

-----------------------------------------------------------------------------
(* The question that is waited for and was never put. *)

(* The thread is about to put the question of this situation. *)
Putting(s) == step.at = "presenting" /\ step.situation = s /\ step.boundary = decision[s]

(* A question was decided on, is not put and will not be. *)
QuestionLost(s) ==
    decision[s] # 0 /\ clarification[s][decision[s]] = "ask" /\ ~Putting(s)

LEMMA LostStep ==
    ASSUME PipelineTypeOK, [Next]_vars, NEW s \in Situations, ~QuestionLost(s),
           QuestionLost(s)'
    PROVE  RefusePresentation \/ Restart
  <1>0. /\ clarification \in [Situations -> [Interim ->
               {"none", "resolved", "technical", "ask", "presented", "answered", "declined"}]]
        /\ decision \in [Situations -> Boundaries]
        /\ step.at \in {"deciding", "presenting"} =>
              step.situation \in Situations /\ step.boundary \in Interim
    BY StepFields DEF PipelineTypeOK
  <1>1. CASE UNCHANGED <<clarification, decision, step>>
    BY <1>1 DEF QuestionLost, Putting
  (* Elsewhere, a question that is not lost is not asked. *)
  <1>2. CASE step.at # "presenting" /\ UNCHANGED <<clarification, decision>>
    BY <1>2 DEF QuestionLost, Putting
  <1>3. ASSUME NEW q \in Situations, NEW c \in Interim, Answer(q, c) \/ Decline(q, c)
        PROVE  FALSE
    <2>1. PICK said \in {"answered", "declined"} :
             clarification' = [clarification EXCEPT ![q][c] = said]
      BY <1>3 DEF Answer, Decline
    <2>2. UNCHANGED <<decision, step>>
      BY <1>3 DEF Answer, Decline
    <2>3. clarification'[s][decision[s]] = "ask" => clarification[s][decision[s]] = "ask"
      BY <1>0, <2>1
    <2> QED
      BY <2>2, <2>3 DEF QuestionLost, Putting
  <1>4. ASSUME NEW outcome, SaveDecision(outcome) PROVE FALSE
    <2>1. CASE step.situation = s
      <3>1. Putting(s)'
        BY <1>0, <1>4, <2>1 DEF SaveDecision, At, Goes, Putting
      <3> QED
        BY <3>1 DEF QuestionLost
    <2>2. CASE step.situation # s
      <3>1. decision'[s] = decision[s] /\ clarification'[s] = clarification[s]
        BY <1>0, <1>4, <2>2 DEF SaveDecision, At
      <3> QED
        BY <1>4, <3>1 DEF SaveDecision, At, QuestionLost, Putting
    <2> QED
      BY <2>1, <2>2
  <1>5. CASE PresentQuestion
    <2>1. step.at = "presenting" /\ decision' = decision
      BY <1>5 DEF PresentQuestion, At
    <2>2. clarification' =
              [clarification EXCEPT ![step.situation][step.boundary] = "presented"]
      BY <1>5 DEF PresentQuestion
    <2>3. CASE Putting(s)
      BY <1>0, <2>1, <2>2, <2>3 DEF Putting, QuestionLost
    <2>4. CASE ~Putting(s)
      BY <1>0, <2>1, <2>2, <2>4 DEF Putting, QuestionLost
    <2> QED
      BY <2>3, <2>4
  <1>6. CASE NoteDecision
    <2>1. UNCHANGED <<clarification, decision>>
      BY <1>6 DEF NoteDecision, materialVars
    <2>2. Putting(s)
      BY <2>1 DEF QuestionLost
    <2> QED
      BY <1>6, <2>1, <2>2 DEF NoteDecision, Putting, QuestionLost
  <1>7. CASE Participant
    BY <1>1, <1>3, <1>7
    DEF Participant, PresentNext, PauseCycle, ResumeCycle, CloseCycle, LimitInTurn,
        CloseScenario, EndScenario, RepeatEndScenario, RepeatFinish, RepeatAnswer,
        FinishSituation, materialVars
  <1>8. CASE Orchestrator
    BY <1>1, <1>2, <1>4, <1>5, <1>6, <1>8
    DEF Orchestrator, PropagateFailure, QueueOutbox, QueueAssessment, StartDecision,
        DropDecision, StartCalculation, SaveCalculation, SaveReport, SaveRecalculation,
        StartRecovery, FinishRecovery, FailRecovery, RecoveryEnds, materialVars, Reached, At
  <1> QED
    BY <1>1, <1>7, <1>8
    DEF Next, Administrator, CheckRecovery, InsertRecovery, HeadChanges, vars, pipelineVars,
        materialVars

(* A question that was decided on is lost in two ways only: its             *)
(* presentation is refused, because the participant paused or closed        *)
(* meanwhile or newer material was assessed, or the process stops between   *)
(* the two transactions (m10_orchestration._clarify_interim).               *)
THEOREM QuestionIsLostByThese ==
    Spec => [][\A s \in Situations : ~QuestionLost(s) /\ QuestionLost(s)' =>
                  RefusePresentation \/ Restart]_vars
  <1>1. PipelineTypeOK /\ [Next]_vars =>
            [\A s \in Situations : ~QuestionLost(s) /\ QuestionLost(s)' =>
                RefusePresentation \/ Restart]_vars
    BY LostStep
  <1> QED
    BY <1>1, PipelineTypeCorrect, PTL DEF Spec

(* So if neither happens, every question that is waited for is about to be  *)
(* put, as the page supposes (web/js/screens/interview.js).                 *)
THEOREM KeptQuestionIsPut ==
    Spec /\ [][~RefusePresentation /\ ~Restart]_vars => []WaitingQuestionIsPut
  <1> DEFINE NoneLost == \A s \in Situations : ~QuestionLost(s)
  <1>1. Init => NoneLost
    BY DEF Init, QuestionLost
  <1>2. PipelineTypeOK /\ NoneLost /\ [Next]_vars /\ [~RefusePresentation /\ ~Restart]_vars
            => NoneLost'
    <2> SUFFICES ASSUME PipelineTypeOK, NoneLost, [Next]_vars,
                        [~RefusePresentation /\ ~Restart]_vars
                 PROVE  NoneLost'
      OBVIOUS
    <2>1. CASE UNCHANGED vars
      BY <2>1 DEF vars, pipelineVars, materialVars, QuestionLost, Putting
    <2>2. CASE ~UNCHANGED vars
      BY <2>2, LostStep
    <2> QED
      BY <2>1, <2>2
  <1>3. NoneLost => WaitingQuestionIsPut
    BY DEF QuestionLost, Putting, WaitingQuestionIsPut, At
  <1> HIDE DEF NoneLost
  <1> QED
    BY <1>1, <1>2, <1>3, PipelineTypeCorrect, PTL DEF Spec
=============================================================================
