----------------------------- MODULE M10Pipeline -----------------------------
(***************************************************************************)
(* The processing of one assessment cycle: how the material of its         *)
(* situations is handed over, analysed and asked about, and how the closed *)
(* cycle becomes a report.  The orchestration thread of                    *)
(* Api/m10_orchestration.py, the clarifying question of                    *)
(* m7_clarification.py and the calculation of                              *)
(* m6_cycle_aggregation_repository.py, over the requests of M6Requests.    *)
(*                                                                         *)
(* A situation hands over interim material, bounded by the sequence number *)
(* of its last turn or event (boundaries 1, 2, ...), and once, when it is  *)
(* closed, its final material (boundary 0).  A call to a provider runs     *)
(* outside of any transaction: "step" is where the thread is meanwhile.    *)
(*                                                                         *)
(* The thread tries its stages in a fixed order, but all except the first  *)
(* pass over a cycle whose row is locked: any of them may come first.      *)
(* Each takes the oldest row of ALL cycles, and an exception ends the      *)
(* pass: "raises" is what the other cycles are to this one.                *)
(* Left out: the time limits, as far as they refuse a question (README).   *)
(***************************************************************************)
EXTENDS M6Requests

CONSTANTS
    Situations,
    LastBoundary,   \* bounds the interim boundaries of a situation
    Keys,           \* the idempotency keys of recovery requests
    MaxReplays,     \* bounds the repeated deliveries of a command
    RaisingStages,  \* the stages at which a pass may be ended by an exception
    MayRestart      \* whether processes are lost

Final == 0
Interim == UNION {1..LastBoundary[s] : s \in Situations}
Boundaries == {Final} \cup Interim

Evidence(s, b) == [kind |-> "evidence", situation |-> s, boundary |-> b]
Assessment(s, b) == [kind |-> "assessment", situation |-> s, boundary |-> b]

ASSUME MaterialAssumption ==
    /\ LastBoundary \in [Situations -> Nat]
    /\ EvidenceRequests = {Evidence(s, b) : s \in Situations, b \in Boundaries}
    /\ Requests = EvidenceRequests
           \cup {Assessment(s, b) : s \in Situations, b \in Boundaries}

ASSUME BoundAssumption == MaxReplays \in Nat

(* advance_once: the order of the stages of a pass. *)
Place == [failure |-> 1, recovery |-> 2, outbox |-> 3, assessment |-> 4,
          clarification |-> 5, calculation |-> 6, none |-> 7]

ASSUME FaultAssumption ==
    /\ RaisingStages \subseteq {"recovery", "outbox", "assessment", "clarification",
                                "calculation"}
    /\ MayRestart \in BOOLEAN

VARIABLES
    cycle,          \* status of the row of m5_cycles
    situation,      \* situation -> its status
    boundary,       \* situation -> boundary of its newest interim handoff
    outbox,         \* situation -> its row of m7_finalization_outbox
    clarification,  \* situation -> boundary -> decision, delivery and response
    decision,       \* situation -> boundary of its newest decision, or 0
    pipeline,       \* stage of the row of m10_pipeline_runs
    recovery,       \* key -> the recovery request of that key
    step,           \* what the orchestration thread is doing
    c46,            \* whether the composition of the closed cycle is saved
    raises,         \* the stage at which an exception ends every pass, or "none"
    replays

materialVars == <<situation, boundary, outbox, clarification, decision>>
sideVars == <<c46, raises, replays>>
pipelineVars == <<cycle, materialVars, pipeline, recovery, step, sideVars>>
vars == <<requestVars, pipelineVars>>

Failures == {"clarification_failed", "processing_failed",
             "admission_processing_failed", "recovery_failed"}
Reports == {"report_ready", "recovered_report_ready"}

Idling == [at |-> "idle"]
Steps ==
    {Idling}
    \cup [at : {"deciding"}, situation : Situations, boundary : Interim,
          found : {"absent", "active", "scenario_ended", "closed"}, open : BOOLEAN]
    \cup [at : {"presenting"}, situation : Situations, boundary : Interim]
    \cup [at : {"calculating"}]
    \cup [at : {"reporting"}, outcome : {"ok", "failed"}]
    \cup [at : {"recalculating"}, key : Keys]
    \cup [at : {"reporting again"}, key : Keys, outcome : {"ok", "failed"}]

PipelineTypeOK ==
    /\ cycle \in {"active", "paused", "collection_closed", "calculated"}
    /\ situation \in [Situations -> {"absent", "active", "scenario_ended", "closed"}]
    /\ boundary \in [Situations -> Boundaries]
    /\ outbox \in [Situations -> {"none", "pending", "queued"}]
    /\ clarification \in [Situations -> [Interim ->
           {"none", "resolved", "technical", "ask", "presented", "answered", "declined"}]]
    /\ decision \in [Situations -> Boundaries]
    /\ pipeline \in Failures \cup Reports \cup
           {"none", "evidence_queued", "assessment_queued", "clarification_waiting",
            "clarification_resolved", "recovery_queued"}
    /\ recovery \in [Keys -> {"absent", "checked", "queued", "running",
                              "succeeded", "failed"}]
    /\ step \in Steps
    /\ c46 \in BOOLEAN
    /\ raises \in RaisingStages \cup {"none"}
    /\ replays \in 0..MaxReplays

TypeOK == RequestsTypeOK /\ PipelineTypeOK

Init ==
    /\ RequestsInit
    /\ cycle = "active"
    /\ situation = [s \in Situations |-> "absent"]
    /\ boundary = [s \in Situations |-> 0]
    /\ outbox = [s \in Situations |-> "none"]
    /\ clarification = [s \in Situations |-> [b \in Interim |-> "none"]]
    /\ decision = [s \in Situations |-> 0]
    /\ pipeline = "none"
    /\ recovery = [k \in Keys |-> "absent"]
    /\ step = Idling
    /\ c46 = FALSE /\ raises = "none" /\ replays = 0

-----------------------------------------------------------------------------
(* The participant and the sweep of the time limits, as far as this part   *)
(* of the system sees them: CycleConversation has the rest.                *)

(* enqueue_handoff: the request of the handoff, and the pipeline's state.  *)
HandOver(s, b) ==
    /\ Enqueued(Evidence(s, b))
    /\ pipeline' = "evidence_queued"
    /\ UNCHANGED <<begun, attempt, token, live, accepted, saved, job>>

PresentNext(s) ==
    /\ cycle \in {"active", "paused"}
    /\ situation[s] = "absent"
    /\ \A q \in Situations : situation[q] \in {"absent", "closed"}
    /\ cycle' = "active"
    /\ situation' = [situation EXCEPT ![s] = "active"]
    /\ UNCHANGED <<requestVars, boundary, outbox, clarification, decision, pipeline,
                   recovery, step, sideVars>>

(* A situation is paused and resumed with its cycle. *)
PauseCycle ==
    /\ cycle = "active" /\ cycle' = "paused"
    /\ UNCHANGED <<requestVars, materialVars, pipeline, recovery, step, sideVars>>

ResumeCycle ==
    /\ cycle = "paused" /\ cycle' = "active"
    /\ UNCHANGED <<requestVars, materialVars, pipeline, recovery, step, sideVars>>

(* The transition looks at the situation alone; it is open in a collection *)
(* that is closed only after LimitInTurn.                                  *)
EndScenario(s) ==
    /\ cycle # "paused" /\ situation[s] = "active" /\ 1 <= LastBoundary[s]
    /\ situation' = [situation EXCEPT ![s] = "scenario_ended"]
    /\ boundary' = [boundary EXCEPT ![s] = 1]
    /\ HandOver(s, 1)
    /\ UNCHANGED <<cycle, outbox, clarification, decision, recovery, step, sideVars>>

(* The same command once more: the transition is not repeated, but the     *)
(* material is handed over as it is by now.  A delivered question is a new *)
(* turn, so it moves the boundary.                                         *)
RepeatEndScenario(s) ==
    LET said == boundary[s] \in Interim
                /\ clarification[s][boundary[s]] \in {"presented", "declined"}
        b == IF said THEN boundary[s] + 1 ELSE boundary[s]
    IN  /\ replays < MaxReplays /\ replays' = replays + 1
        /\ situation[s] = "scenario_ended" /\ b <= LastBoundary[s]
        /\ boundary' = [boundary EXCEPT ![s] = b]
        /\ HandOver(s, b)
        /\ UNCHANGED <<cycle, situation, outbox, clarification, decision, recovery,
                       step, c46, raises>>

Answer(s, b) ==
    /\ clarification[s][b] = "presented"
    /\ situation[s] = "scenario_ended" /\ cycle = "active"
    /\ boundary[s] < LastBoundary[s]
    /\ clarification' = [clarification EXCEPT ![s][b] = "answered"]
    /\ boundary' = [boundary EXCEPT ![s] = @ + 1]
    /\ HandOver(s, boundary[s] + 1)
    /\ UNCHANGED <<cycle, situation, outbox, decision, recovery, step, sideVars>>

(* The saved response is returned with its handoff, in whatever state the  *)
(* cycle is by now, and the handoff is enqueued as if it were new.         *)
RepeatAnswer(s, b) ==
    /\ replays < MaxReplays /\ replays' = replays + 1
    /\ clarification[s][b] = "answered"
    /\ pipeline' = "evidence_queued"
    /\ UNCHANGED <<requestVars, cycle, materialVars, recovery, step, c46, raises>>

Decline(s, b) ==
    /\ clarification[s][b] = "presented" /\ situation[s] = "scenario_ended"
    /\ clarification' = [clarification EXCEPT ![s][b] = "declined"]
    /\ UNCHANGED <<requestVars, cycle, situation, boundary, outbox, decision, pipeline,
                   recovery, step, sideVars>>

Unanswered(s) ==
    decision[s] # 0 /\ clarification[s][decision[s]] \in {"ask", "presented"}

FinishSituation(s) ==
    /\ cycle = "active" /\ situation[s] = "scenario_ended"
    /\ ~Unanswered(s)
    /\ situation' = [situation EXCEPT ![s] = "closed"]
    /\ outbox' = [outbox EXCEPT ![s] = "pending"]
    /\ HandOver(s, Final)
    /\ cycle' = "paused"
    /\ UNCHANGED <<boundary, clarification, decision, recovery, step, sideVars>>

(* The same command once more, before the next situation is chosen and the *)
(* collection is completed: the final handoff is enqueued as if it were    *)
(* new.  Which of the closed situations is the last one makes no           *)
(* difference: each has its request already.                               *)
RepeatFinish(s) ==
    /\ replays < MaxReplays /\ replays' = replays + 1
    /\ situation[s] = "closed" /\ outbox[s] # "none" /\ ~c46
    /\ \A q \in Situations : situation[q] \in {"absent", "closed"}
    /\ HandOver(s, Final)
    /\ UNCHANGED <<cycle, materialVars, recovery, step, c46, raises>>

(* The single transitions that the page does not use: the situation is     *)
(* closed, after its scenario ended or was terminated, and nothing handed  *)
(* over.  One that is paused or terminated counts as active here.          *)
CloseScenario(s) ==
    /\ situation[s] \in {"active", "scenario_ended"}
    /\ situation' = [situation EXCEPT ![s] = "closed"]
    /\ UNCHANGED <<requestVars, cycle, boundary, outbox, clarification, decision, pipeline,
                   recovery, step, sideVars>>

(* complete, final_refusal and the sweep of the limits: what was presented *)
(* is closed with the cycle, and the composition saved (_create_c46).      *)
CloseCycle ==
    LET open == {s \in Situations : situation[s] \in {"active", "scenario_ended"}}
    IN  /\ cycle \in {"active", "paused"}
        /\ cycle' = "collection_closed"
        /\ situation' = [s \in Situations |-> IF s \in open THEN "closed" ELSE situation[s]]
        /\ outbox' = [s \in Situations |-> IF s \in open THEN "pending" ELSE outbox[s]]
        /\ c46' = TRUE
        /\ UNCHANGED <<requestVars, boundary, clarification, decision, pipeline, recovery,
                       step, raises, replays>>

(* The limit that the answer of a turn meets (assert_collecting): its own  *)
(* transaction closes the collection, and neither the situation nor the    *)
(* composition; the completion that follows finds the cycle closed.  The   *)
(* answer may be one to an earlier situation.                              *)
LimitInTurn ==
    /\ cycle = "active" /\ \E s \in Situations : situation[s] # "absent"
    /\ cycle' = "collection_closed"
    /\ UNCHANGED <<requestVars, materialVars, pipeline, recovery, step, sideVars>>

-----------------------------------------------------------------------------
(* The orchestration thread: advance_once and its stages.                  *)

At(stage) == step.at = stage
Goes(next) == step' = next

(* The thread gets to a stage in a pass that no earlier stage has ended.   *)
Reached(stage) == At("idle") /\ Place[stage] < Place[raises]

(* The oldest row of a stage is one that the stage refuses, in this pass   *)
(* and in those to come, or no longer: stale evidence of another cycle     *)
(* (build_input), a cycle without a C-46 (read_c46), a handoff whose       *)
(* mechanism does not load (_queue_outbox notes the failure and rolls the  *)
(* note back), a provider or a file that is not there.  A row is passed    *)
(* over while its cycle is locked.                                         *)
HeadChanges ==
    /\ raises' \in (RaisingStages \cup {"none"}) \ {raises}
    /\ UNCHANGED <<requestVars, cycle, materialVars, pipeline, recovery, step, c46, replays>>

(* Faulty: evidence without a revision is lost in the joins. *)
AssessmentFailed(r) == r \notin EvidenceRequests /\ status[r] = "failed"

Failed(r) == status[r] = "failed"

PropagateFailure ==
    /\ Reached("failure") /\ pipeline \notin Failures
    /\ \E r \in Requests : Failed(r)
    /\ pipeline' = "processing_failed"
    /\ UNCHANGED <<requestVars, cycle, materialVars, recovery, step, sideVars>>

(* Faulty: material that was enqueued directly is passed over. *)
NotYetEnqueued(s) == outbox[s] = "pending" /\ status[Evidence(s, Final)] = "absent"

Waiting(s) == outbox[s] = "pending"

QueueOutbox(s) ==
    /\ Reached("outbox") /\ Waiting(s)
    /\ outbox' = [outbox EXCEPT ![s] = "queued"]
    /\ HandOver(s, Final)
    /\ UNCHANGED <<cycle, situation, boundary, clarification, decision, recovery, step,
                   sideVars>>

Unassessed == {m \in Situations \X Boundaries :
    saved[Evidence(m[1], m[2])] # 0 /\ status[Assessment(m[1], m[2])] = "absent"}

(* The oldest revision of evidence that has no assessment request. *)
Oldest(s, b) ==
    /\ <<s, b>> \in Unassessed
    /\ \A m \in Unassessed : saved[Evidence(s, b)] <= saved[Evidence(m[1], m[2])]

(* build_input: newer material has been handed over since. *)
Stale(s, b) == b # Final /\ b # boundary[s]

(* This cycle's evidence is one of the rows that raise.                     *)
Blocked == \E s \in Situations, b \in Interim : Oldest(s, b) /\ Stale(s, b)

QueueAssessment(s, b) ==
    /\ Reached("assessment") /\ Oldest(s, b) /\ ~Stale(s, b)
    /\ Enqueued(Assessment(s, b))
    /\ pipeline' = "assessment_queued"
    /\ UNCHANGED <<begun, attempt, token, live, accepted, saved, job, cycle, materialVars,
                   recovery, step, sideVars>>

-----------------------------------------------------------------------------
(* The clarifying question: _clarify_interim.                               *)

(* The last C-54 of the situation's interim material. *)
Newest(s, b) ==
    /\ saved[Assessment(s, b)] # 0
    /\ \A c \in Interim : saved[Assessment(s, c)] <= saved[Assessment(s, b)]

StartDecision(s, b) ==
    /\ Reached("clarification")
    /\ Newest(s, b) /\ clarification[s][b] = "none"
    /\ Goes([at |-> "deciding", situation |-> s, boundary |-> b,
             found |-> situation[s],
             open |-> situation[s] = "scenario_ended" /\ cycle \in {"active", "paused"}])
    /\ UNCHANGED <<requestVars, cycle, materialVars, pipeline, recovery, sideVars>>

(* Faulty: the decision is saved on what was read before the provider's call. *)
Unfenced(s, b, found) == Newest(s, b)

Unchanged(s, b, found) == Newest(s, b) /\ situation[s] = found

(* Without a question ("resolved": NO_QUESTION, NEW_AS or STOP), with one, *)
(* or with the provider's failure (WAIT_TECHNICAL).                        *)
SaveDecision(outcome) ==
    LET s == step.situation
        b == step.boundary
    IN  /\ At("deciding") /\ Unchanged(s, b, step.found)
        /\ outcome = "resolved" \/ step.open
        /\ clarification' = [clarification EXCEPT ![s][b] = outcome]
        /\ decision' = [decision EXCEPT ![s] = b]
        /\ Goes([at |-> "presenting", situation |-> s, boundary |-> b])
        /\ UNCHANGED <<requestVars, cycle, situation, boundary, outbox, pipeline, recovery,
                       sideVars>>

(* M7_STALE_C54 or M7_CLARIFICATION_STATE_CHANGED: the answer is dropped. *)
DropDecision ==
    /\ At("deciding") /\ ~Unchanged(step.situation, step.boundary, step.found)
    /\ Goes(Idling)
    /\ UNCHANGED <<requestVars, cycle, materialVars, pipeline, recovery, sideVars>>

Presentable(s, b) ==
    situation[s] = "scenario_ended" /\ Newest(s, b) /\ cycle = "active"

PresentQuestion ==
    LET s == step.situation
        b == step.boundary
    IN  /\ At("presenting") /\ clarification[s][b] = "ask" /\ Presentable(s, b)
        /\ clarification' = [clarification EXCEPT ![s][b] = "presented"]
        /\ pipeline' = "clarification_waiting"
        /\ Goes(Idling)
        /\ UNCHANGED <<requestVars, cycle, situation, boundary, outbox, decision, recovery,
                       sideVars>>

(* present raises and the pass is rolled back; the decision was saved in a *)
(* transaction of its own, and is not taken up again.                      *)
RefusePresentation ==
    LET s == step.situation
        b == step.boundary
    IN  /\ At("presenting") /\ clarification[s][b] = "ask" /\ ~Presentable(s, b)
        /\ Goes(Idling)
        /\ UNCHANGED <<requestVars, cycle, materialVars, pipeline, recovery, sideVars>>

NoteDecision ==
    LET outcome == clarification[step.situation][step.boundary]
    IN  /\ At("presenting") /\ outcome \in {"resolved", "technical"}
        /\ pipeline' = IF outcome = "technical" THEN "clarification_failed"
                       ELSE "clarification_resolved"
        /\ Goes(Idling)
        /\ UNCHANGED <<requestVars, cycle, materialVars, recovery, sideVars>>

-----------------------------------------------------------------------------
(* The calculation and the report: _finalize_cycle.                         *)

(* Faulty: a situation whose final material was never analysed is passed over. *)
NotFailing(s) == outbox[s] = "none" \/ status[Assessment(s, Final)] \in {"absent", "succeeded"}

(* The request that the outbox names, its revision and its assessment. *)
Processed(s) ==
    \/ outbox[s] = "none"
    \/ outbox[s] = "queued" /\ status[Assessment(s, Final)] = "succeeded"

(* Without a C-46 the stage raises, in every pass (read_c46). *)
StartCalculation ==
    /\ Reached("calculation")
    /\ cycle = "collection_closed" /\ \A s \in Situations : Processed(s)
    /\ c46
    /\ Goes([at |-> "calculating"])
    /\ UNCHANGED <<requestVars, cycle, materialVars, pipeline, recovery, sideVars>>

(* The admission of an indicator may have failed in the calculation. *)
SaveCalculation(outcome) ==
    /\ At("calculating")
    /\ cycle' = "calculated"
    /\ Goes([at |-> "reporting", outcome |-> outcome])
    /\ UNCHANGED <<requestVars, materialVars, pipeline, recovery, sideVars>>

SaveReport ==
    /\ At("reporting")
    /\ pipeline' = IF step.outcome = "ok" THEN "report_ready"
                   ELSE "admission_processing_failed"
    /\ Goes(Idling)
    /\ UNCHANGED <<requestVars, cycle, materialVars, recovery, sideVars>>

-----------------------------------------------------------------------------
(* Recovery: an administrator asks for the calculation to be repeated.      *)

(* The SELECT: the row of the cycle is locked, the joined revision is read *)
(* as it was before the wait for that lock.                                *)
CheckRecovery(k) ==
    /\ recovery[k] = "absent"
    /\ pipeline \in {"admission_processing_failed", "recovery_failed"}
    /\ recovery' = [recovery EXCEPT ![k] = "checked"]
    /\ UNCHANGED <<requestVars, cycle, materialVars, pipeline, step, sideVars>>

InsertRecovery(k) ==
    /\ recovery[k] = "checked"
    /\ recovery' = [recovery EXCEPT ![k] = "queued"]
    /\ pipeline' = "recovery_queued"
    /\ UNCHANGED <<requestVars, cycle, materialVars, step, sideVars>>

StartRecovery(k) ==
    /\ Reached("recovery") /\ recovery[k] = "queued"
    /\ recovery' = [recovery EXCEPT ![k] = "running"]
    /\ Goes([at |-> "recalculating", key |-> k])
    /\ UNCHANGED <<requestVars, cycle, materialVars, pipeline, sideVars>>

SaveRecalculation(outcome) ==
    /\ At("recalculating")
    /\ Goes([at |-> "reporting again", key |-> step.key, outcome |-> outcome])
    /\ UNCHANGED <<requestVars, cycle, materialVars, pipeline, recovery, sideVars>>

(* Faulty: the request's status is written for the stage. *)
SameEnd(outcome) ==
    /\ recovery' = [recovery EXCEPT ![step.key] = outcome]
    /\ pipeline' = outcome
    /\ Goes(Idling)
    /\ UNCHANGED <<requestVars, cycle, materialVars, sideVars>>

RecoveryEnds(outcome) ==
    /\ recovery' = [recovery EXCEPT ![step.key] = outcome]
    /\ pipeline' = IF outcome = "succeeded" THEN "recovered_report_ready"
                   ELSE "recovery_failed"
    /\ Goes(Idling)
    /\ UNCHANGED <<requestVars, cycle, materialVars, sideVars>>

FinishRecovery ==
    /\ At("reporting again")
    /\ RecoveryEnds(IF step.outcome = "ok" THEN "succeeded" ELSE "failed")

(* An exception in between is caught: the recovery has failed. *)
FailRecovery ==
    /\ step.at \in {"recalculating", "reporting again"}
    /\ RecoveryEnds("failed")

(* The process is lost, or a stage raises after its first commit, any      *)
(* number of times: the open transaction is rolled back, and what was      *)
(* committed before it stays.                                              *)
Restart ==
    /\ MayRestart /\ ~At("idle")
    /\ Goes(Idling)
    /\ UNCHANGED <<requestVars, cycle, materialVars, pipeline, recovery, sideVars>>

-----------------------------------------------------------------------------
Participant ==
    \/ PauseCycle \/ ResumeCycle \/ CloseCycle \/ LimitInTurn
    \/ \E s \in Situations :
          \/ PresentNext(s) \/ EndScenario(s) \/ FinishSituation(s)
          \/ RepeatEndScenario(s) \/ RepeatFinish(s) \/ CloseScenario(s)
          \/ \E b \in Interim : Answer(s, b) \/ RepeatAnswer(s, b) \/ Decline(s, b)

Orchestrator ==
    \/ PropagateFailure
    \/ \E s \in Situations :
          \/ QueueOutbox(s)
          \/ \E b \in Boundaries : QueueAssessment(s, b)
          \/ \E b \in Interim : StartDecision(s, b)
    \/ \E outcome \in {"resolved", "ask", "technical"} : SaveDecision(outcome)
    \/ DropDecision \/ PresentQuestion \/ RefusePresentation \/ NoteDecision
    \/ StartCalculation \/ SaveReport
    \/ \E outcome \in {"ok", "failed"} :
          SaveCalculation(outcome) \/ SaveRecalculation(outcome)
    \/ \E k \in Keys : StartRecovery(k)
    \/ FinishRecovery \/ FailRecovery

Administrator == \E k \in Keys : CheckRecovery(k) \/ InsertRecovery(k)

Next ==
    \/ RequestsStep /\ UNCHANGED pipelineVars
    \/ Participant \/ Orchestrator \/ Administrator \/ Restart \/ HeadChanges

Spec == Init /\ [][Next]_vars

(* The two threads poll for ever, and leases end.  The orchestration       *)
(* thread is fair to this cycle as far as its passes get (Reached), the    *)
(* rows of other cycles before it being finitely many.  The first stage    *)
(* passes over nothing and has none before it: it does its work whatever   *)
(* the others do.                                                          *)
FairSpec ==
    /\ Spec
    /\ WF_vars(Orchestrator)
    /\ SF_vars(PropagateFailure)
    /\ \A w \in Pollers : WF_vars(WorkerStep(w) /\ UNCHANGED pipelineVars)
    /\ WF_vars((\E r \in Requests : Lapse(r)) /\ UNCHANGED pipelineVars)

-----------------------------------------------------------------------------
(* What the participant is told is a report is one of a calculated cycle:  *)
(* its situations are closed, and the final material that was handed over  *)
(* is assessed, none of it left in the outbox, on the way or failed        *)
(* (_finalize_cycle).                                                      *)
ReadyReportIsComplete == pipeline \in Reports =>
    /\ cycle = "calculated"
    /\ \A s \in Situations : situation[s] \in {"absent", "closed"}
    /\ \A s \in Situations : outbox[s] # "none" =>
           outbox[s] = "queued" /\ accepted[Assessment(s, Final)] # 0

(* The final material is what was said: after a situation was closed, no   *)
(* question is decided on or put, and no answer taken, although the        *)
(* provider was asked for one before (m7_clarification.decide_detached,    *)
(* present, answer).                                                       *)
ClosedSituationIsNotAsked == [][
    \A s \in Situations, b \in Interim : situation[s] = "closed" =>
        \/ clarification'[s][b] = clarification[s][b]
        \/ clarification'[s][b] = "resolved"
    ]_vars

(* No stage ends the passes: neither the oldest row of another cycle, nor  *)
(* this cycle's own stale evidence.                                        *)
Unhindered == raises = "none" /\ ~Blocked

(* A cycle that is closed with its composition is calculated, or the       *)
(* pipeline says that it has failed.  Excepted are: a cycle that a turn    *)
(* closed at a limit, which has no C-46; an oldest row, of whatever cycle, *)
(* that raises again and again at a stage (advance_once retries it first   *)
(* in every pass, and nothing behind it is reached); and a process that is *)
(* lost, or a stage that raises, again and again in the midst of its work. *)
ClosedCycleIsCalculated ==
    <>[]Unhindered /\ <>[][~Restart]_vars =>
        (cycle = "collection_closed" /\ c46
            ~> cycle = "calculated" \/ pipeline \in Failures)

(* A request that has failed for good is not covered up for good by what   *)
(* goes on beside it: the pipeline says so in the end, whichever stages    *)
(* raise and however often processes are lost.                             *)
FailureIsNotHidden ==
    <>[](\E r \in Requests : status[r] = "failed") => <>[](pipeline \in Failures)

(* A question that the participant is asked to answer has been put         *)
(* (web/js/screens/interview.js shows it as soon as it was decided on).    *)
WaitingQuestionIsPut == \A s \in Situations :
    /\ cycle = "active" /\ situation[s] = "scenario_ended"
    /\ decision[s] # 0 /\ clarification[s][decision[s]] = "ask"
    => At("presenting")
=============================================================================
