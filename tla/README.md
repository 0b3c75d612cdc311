# Agent4K in TLA+

Agent4K (`src/`) is a web service that assesses people: a participant talks through
generated cases with an LLM, background workers evaluate the answers, and a report is
built from the evaluations. It is a FastAPI application with a PostgreSQL database and a
plain JavaScript front end. Several API processes may run at once; each starts its own
worker threads, and all of them share one database. Everything hard about the program is
there: durable jobs that threads of different processes claim, lose and retry, calls to an
LLM that take longer than a lease, sessions whose status several transactions write, and
results that must be complete before a report is announced.

The modules in this directory model that part of the program, TLC checks them on small
instances, and TLAPS proves the main properties for every size.

## The system

| component | state | operations | what is hard |
|---|---|---|---|
| analysis queue (`assessment_analysis_queue.py`) | `assessment_analysis_jobs`, `user_sessions.status`, result rows | enqueue (last case, retry endpoint), claim, heartbeat, progress, complete, fail, lease recovery | stale threads after a lost lease, several transactions per attempt, retry endpoint racing completion |
| preparation queue (`assessment_preparation_queue.py`) | `assessment_preparation_jobs`, stage runs, `user_sessions` | enqueue, claim, heartbeat, profile preparation, session creation, complete, fail, lease recovery, retention | the session is created by code that does not know the lease; two attempts of one job overlap |
| product cycle queue (`product_cycle_preparation_queue.py`, with `m10_product_flow.py` and `m7_cycle_planner.py`) | `product_cycle_preparation_operations`, `m5_cycles.status`, `m7_route_decisions`, `m7_route_positions`, `m5_assessment_situations` | enqueue with the answer of an earlier operation, claim with a fresh `attempt_token`, heartbeat, choose, generate, attach, present, complete, fail | the choice and the presentation are committed without a look at the token; the participant acts at the same time |
| assessment runtime (`assessment_runtime.py`) | `assessment_stage_runs`, execution snapshots | start, complete, fail a stage run; verify the snapshot | the failing record is written in the transaction that is rolled back |
| connection pool (`database.py` 44-135) | pooled connections, open transactions | borrow, return, `pause_for_external_io` | the connection is held during LLM calls |
| operation progress (`progress_service.py`) | a row per operation | begin, advance, complete, fail | several threads update one row, under `FOR UPDATE`; nothing decides on it |
| M6 evidence and assessment (`m6_repository.py`, `m6_assessment_repository.py`, `m6_worker_v2.py`, ...) | durable requests with lease tokens, their attempts, immutable revisions | enqueue, claim, finish, fail, recover | a late answer after the lease or after another attempt; a background task and a polling thread on one request |
| M10 orchestration (`m10_orchestration.py`, `m10_product_queue.py`, `m10_product_flow.py`) | outbox, state of the pipeline, recovery requests | queue evidence, queue assessment, clarify, finalize, recover, propagate failures | a provider's answer outside of a transaction; a stage that raises holds up those behind it |
| M5 cycles and scenarios (`m5_cycle_runtime.py`, `m5_scenario_runtime.py`) | cycles, sessions, time intervals, scenario states, turn operations | begin a turn, apply its answer, pause, resume, transitions | two attempts of one turn; an answer that comes after the situation was closed; one open interval that four parties end |
| M7 planning and completion (`m7_completion.py`, `m7_cycle_planner.py`, `m7_return_integration.py`, `m7_clarification.py`, `m7_route_replacement.py`, ...) | completions, routes, absence and return, clarifications | plan, finish, interrupt, complete, continue, clarify, replace a route, sweep the limits | a limit that passes during a turn; an absence beside another wait; a question decided on and not put |
| M6/M8 aggregation and results (`m6_cycle_aggregation*.py`, `m8_results.py`, `m8_report_access.py`) | aggregates, published reports | aggregate, publish, grant access | publishing twice, comparing with a moving base |
| LLM gateway (`llm/deepseek_gateway.py`) | semaphore, key chain | wait for a slot, call, change the key, release | a slot must come back on every path |
| interview (`assessment_service.py`, `agent.py`) | session, session cases, messages, timers | start a case, turn, finish a case, next case | a timeout racing the last answer |
| authentication (`auth_service.py`, `web_session_service.py`, `organization_invitation_service.py`) | one-time codes, web sessions, invitations | request and verify a code, create, touch, revoke | attempt counters, one-time use |
| assignments (`assessment_assignment_cancellation.py`, `deletion_ledger.py`) | assignments, ledger of deletions | cancel, delete, replay after a restore | cancelling what a worker prepares |
| definitions (`assessment_methodology_publication.py`, `assessment_authoring_service.py`, `snapshot_integrity.py`, `cycle_execution_manifest.py`) | versions draft - ready_for_review - published - retired; content hashes | submit, publish, retire, freeze, verify | editing what a session was frozen on |
| acquaintance (`acquaintance.py`, `acquaintance_state_store.py`) | profile draft, dialogue state | turn, confirm | optimistic state versions |
| shadow evaluation (`assessment_shadow_*.py`) | shadow results | run beside the official evaluator | must not disturb the official result |
| HTTP API (`routes.py`) | none of its own | the endpoints | check in one transaction, act in another |
| front end (`web/js`) | polling state | poll a job's status, retry | polling that ends early |
| prompts, case generation, schema bootstrap, PDF rendering, scripts | | | pure data and I/O |

### How they interact

Assigning an assessment enqueues a preparation job; a worker of the preparation queue
prepares the profile and creates the session with its cases (stage runs of the assessment
runtime trace each step). The interview service moves the session through its cases; the
last case puts the session to `cases_completed` and inserts an analysis job in the same
transaction. A worker of the analysis queue evaluates the competencies one by one,
committing after each, then completes the job and the session together.

The product cycle (M5 to M10) is a second, newer pipeline. Its own queue prepares the next
situation of a cycle. While the participant works on it, the conversation moves scenario,
position, session, cycle and the account of time. What is said is handed over, as interim
material at the end of the scenario and as final material when the situation is closed (an
outbox row). The orchestration thread makes an evidence request of it, then an assessment
request of the evidence, and decides on a clarifying question; M6 workers run the requests
under lease tokens. A closed cycle whose material is assessed is calculated and reported.

Threads never talk to each other directly. They meet in rows of the database, and what
keeps them apart is always one of: `FOR UPDATE SKIP LOCKED`, an advisory lock, a partial
unique index, or a guarded `UPDATE ... WHERE status = ... AND worker_id/attempt_token = ...`
whose row count is, or is not, looked at.


### What makes each part correct

- **A queue**: a job is worked on under one claim at a time as far as its row is concerned;
  only the latest claim settles it; what is settled stays settled; every job settles,
  through exceptions, lost workers and lost failure reports, and is not retried without end.
- **The analysis**: a ready report stands on the results of every competency and on a
  completed job, whichever attempt wrote what; a ready report stays ready.
- **The preparation**: a user has one open session; a session that is active, or that a
  start was answered with, has all its prompts; nobody archives it afterwards; a finished
  session is not opened again; a failed job leaves no stage run that seems to run.
- **The product cycle**: one situation at a time; no case twice; a completed operation left
  its situation attached, and presented when it was a `next`; a pause holds; a closed
  situation stays closed; the page can always go on.
- **The conversation**: session and cycle move together; only the time of an active cycle is
  on the account of collecting; one attempt of a turn takes effect, and none after the
  dialogue was handed over; what is closed stays closed; every collection is closed in the
  end, whatever the participant does.
- **The requests**: at most the newest attempt counts, an accepted answer is the last word,
  and a request whose worker died is taken up again.
- **The pipeline**: a report is announced only over all the final material; a closed
  situation is not asked about; a closed cycle with its composition gets its calculation, or a
  failure that is announced, unless a stage raises for ever; no failure stays hidden.

The list of hazards in `PROJECT.json` names the lines these properties are about.

## The modules

| module | models | lines of code behind it |
|---|---|---|
| `FencedQueue` | what a background queue promises: the abstract specification | none of its own |
| `AnalysisQueue` | `AssessmentAnalysisQueue`, the retry endpoint, the end of the interview | `assessment_analysis_queue.py`, `routes.py` 8900-8940, `assessment_service.py` |
| `PreparationQueue` | `AssessmentPreparationQueue`, session creation and repair, one stage run per attempt | `assessment_preparation_queue.py`, `assessment_service.py` 476-977, 1050-1204 |
| `ProductCycleQueue` | `ProductCyclePreparationQueue`, the cycle, its route and situations, the participant | `product_cycle_preparation_queue.py`, `m10_product_flow.py`, `m7_cycle_planner.py`, `m7_completion.py` |
| `MC...` | instances for TLC (symmetry of the threads, the requests of the situations) | |
| `CycleConversation` | sessions, time intervals, turns, closing, absence and return of one cycle | `m5_cycle_runtime.py`, `m5_scenario_runtime.py`, `m7_completion.py`, `m7_return_integration.py` |
| `AttemptLedger` | what the requests of M6 promise: the abstract specification | none of its own |
| `M6Requests` | evidence and assessment requests with their attempts, polling threads, background tasks | `m6_repository.py`, `m6_assessment_repository.py`, `m6_worker_v2.py` |
| `M10Pipeline` | extends `M6Requests`: handoffs, outbox, clarifying question, calculation, report, recovery | `m10_orchestration.py`, `m7_clarification.py`, `m6_cycle_aggregation_repository.py` |
| `FencedQueueProofs` | what `FencedQueue` promises, for all that implement it | |
| `AnalysisQueueProofs` | types and safety of `AnalysisQueue`, which implements `FencedQueue` | |
| `PreparationQueueProofs` | types of `PreparationQueue`, which implements `FencedQueue` | |
| `PreparationLeaseProofs` | the safety of `PreparationQueue` where attempts keep their leases, or look at them | |
| `ProductCycleQueueProofs` | types and safety of `ProductCycleQueue`, which implements `FencedQueue` | |
| `CycleConversationProofs` | types and safety of `CycleConversation` | |
| `M6RequestsProofs` | types and safety of `M6Requests`, which implements `AttemptLedger` | |
| `M10PipelineProofs` | types and safety of `M10Pipeline`, which composes the requests | |

The `map` of `PROJECT.json` gives the lines of every definition.

### Conventions

- An action is one committed transaction, a read whose result a later transaction uses, or
  an exception; an exception rolls the open transaction back, so it changes no row.
- `pc[w]` says where in its loop the queue thread `w` is, `held[w]` which row it works on, and
  `claim[w]` which claim of that row (the value of `attempts` at the claim). The code does not
  store `claim`; in the first two queues it recognises a claim by `worker_id`, in the third by
  `attempt_token`. That the guard `status = 'running' AND worker_id = ...` admits the latest
  claim of a running job, and no other, is a property (`FencedClaim`), not an assumption:
  `worker_id` is fixed when the queue object is made and a thread claims the next job only
  after it has left the last one. In the product cycle `Holds` compares claim numbers, because
  every claim draws a new `uuid4`.
- The queue threads are those of all API processes: one per process unless
  `ASSESSMENT_QUEUE_WORKER_THREADS` or `ASSESSMENT_ANALYSIS_WORKER_THREADS` says otherwise
  (the product cycle always has one). `Crash` returns the thread to its loop with
  nothing; that the new process has a new `worker_id` gives an old attempt no rights, and
  the model, which reuses the identifier, allows the thread more than the code does.
- `Age`, `Tick` and `EndBackoff` are the clock. `AnalysisQueue` counts time, because its
  backoff and its maintenance interval interact with the lease; the other two only know
  that a lock is older than the lease or not.
- `PunctualHeartbeat` chooses between the usual case, in which the heartbeat thread of a
  living attempt renews the lock before the lease expires, and the case in which it does
  not (a suspended process, a database that refuses connections for longer than the
  lease). Every claim about two attempts of one job that overlap is checked in the second.
- A definition marked "Faulty" is a plausible mistake in the definition that follows it; no
  specification uses it. `PROJECT.json` pairs it with the property that detects it.

### FencedQueue

A job is submitted, taken (which starts a new epoch), may be taken back, is settled, and may
be deleted long after. `Settle` requires the claim to be the latest one. Three modules
implement it with the same mapping: the status of the row, `attempts` as the epoch, and
`(held, claim)` as the claim. `Take` has the set of jobs whose leases are recovered in the
same step, as the product cycle queue recovers and claims in one transaction; the other two
recover in `Maintain`.

### AnalysisQueue

`CompleteCases` is the end of the interview (session and job in one transaction).
`RequestRetry` and `EnqueueRetry` are the two transactions of the retry endpoint. A thread
polls (`SkipMaintenance`, `RunMaintenance`, `EmptyPoll`, `Claim`), then for each competency
commits progress (`SaveProgress`), calls the evaluator and commits its results
(`Evaluate`), and completes job and session together (`Complete`). `RaiseError` and
`RejectSnapshot` are what may go wrong; `Fail` writes it, `FailLost` is the case in which
that fails too. `saved[s]` is the set of competencies with committed results.

### PreparationQueue

`Enqueue` answers with the user's active job when there is one. An attempt goes through
`PrepareProfile`, `FindSession`, then `RepairSession` or `CreateSession`, then
`PersonalizeCase` for each case and `ActivateSession`, and at last `Complete`. The session
is committed before its prompts, so that the next attempt finds it. `PersonalizationFails`
archives it. `RunMaintenance` recovers leases and deletes settled jobs together with their
stage runs.

### ProductCycleQueue

One participant with one functional cycle, who uses the commands of the page (the single
transitions of a situation are in `CycleConversation` and `M10Pipeline`). An attempt commits
the choice of a case (`Choose`: `prepare` or `choose_next`), looks at its token
(`CheckAttempt`), generates, attaches the situation under a lock on the row of the operation
(`Attach`), presents it when the operation is a `next` (`Present`), and completes (`Complete`),
again under that lock. `decision[o]` is the route decision saved under the idempotency key of
operation `o`, and a route position names the operation whose decision it was attached to.
Which cases still contribute and whether there is time is left open (`Choices` may always
decline).

The participant enqueues (`prepare` or `next`), starts the prepared situation, closes it,
pauses, resumes and completes. `m7_completion.control` pauses the situation together with
the cycle; an expired attempt that presents an open situation therefore meets status
`paused`, is refused, and its resumption of the cycle is rolled back with it. That is why
`PausedSituationInPausedCycle` holds although nothing there looks at the token: the time does
not run for a paused situation, unless another one is presented beside it.

### CycleConversation

One cycle from the moment its first situation is presented. An API thread admits a request
(`RequestTurn`), begins the turn in one transaction (`BeginTurn`: the operation is `pending`
with an attempt token, and the wait of the turn replaces the interval of collecting), and
applies or rejects what the provider made of it in another (`ApplyTurn`, `FailTurn`);
`DropTurn` is the attempt whose token was replaced, `LoseTurn` the dead process. A `pending`
operation may be begun again after two minutes (`TurnAges`), so attempts overlap. `Operation`
keeps of the revisions only whether the scenario's state still has the input revision.

`open` is the kind of the one open interval: collecting, a pause, the wait of an absence, or
the thread whose turn is waited for. `AfterWait` is `end_blocking_wait`. Transitions of the
scenario, pausing, resuming, finishing, interrupting with an additional session, completing
and the sweep (`Expire`) are the other transactions. A presence lease may lapse
(`LeaseLapses`); the next poll or command recognizes the absence, and only `Continue` goes on.
The budget of the cycle and its calendar window are one flag, `late`. Choosing a situation
and attaching it are one step here, as `ProductCycleQueue` has them apart.

### M6Requests

A polling thread picks the oldest pending request in a transaction that only reads (`Pick`),
claims it in a second one (`Claim` or `RefuseClaim`), and settles it in a third
(`FinishSucceeded`, `FinishFailed`, `FinishLate`). A background task claims the request that
a repeated call of an endpoint names, a failed one included (`Dispatch`). The code's lease
token is a `uuid4`, here the number of the attempt. A lease is never prolonged (`Lapse`).
`AttemptLedger` is what is left when rows, tokens and clocks are taken away.

### M10Pipeline

Extends `M6Requests` with two kinds of requests for every situation and boundary. `step` is
what the orchestration thread does outside of a transaction: it waits for a decision on a
question, it holds one that is to be put, it waits for a calculation or a report. The
participant ends scenarios, answers, declines, finishes, pauses and closes; each handoff is
enqueued with the state of the pipeline. `CloseScenario` is the exception: the single
transition of a situation (`routes.py` 7338, `m5_scenario_runtime.py` 838) closes it and hands
nothing over. `ReadyReportIsComplete` therefore says of an announced report that it covers all
the final material there is, and `EverySituationIsReported` (below) when that is all there was.
`StartDecision` .. `NoteDecision` are `_clarify_interim`, `StartCalculation` .. `SaveReport`
are `_finalize_cycle`, and the recovery requests run from `CheckRecovery` to `FinishRecovery`
or `FailRecovery`. `Restart` is a process that is lost, or a stage that raises after its first
commit, any number of times.

A collection is closed in two ways. `CloseCycle` (a command, or the sweep) closes what was
presented with it and saves the composition, the C-46 (`c46`). `LimitInTurn` is the turn whose
answer meets a limit (`m5_cycle_runtime.py` 366-379): only the cycle's status changes, so a
scenario can still be ended and handed over, but nothing calculates such a cycle
(`StartCalculation` needs the C-46; `TurnClosedStaysUncalculated` is the theorem).
A repeated `scenario_end`, answer or finish (`RepeatEndScenario`, `RepeatAnswer`,
`RepeatFinish`) hands over once more and puts the pipeline's state back.

`advance_once` tries its stages in a fixed order, but each except the first selects with `FOR
UPDATE SKIP LOCKED`, so that a cycle which a request has locked is passed over: any stage may
come first, and the model lets it. What the order does matter for is a stage that raises. It
takes the oldest row of all cycles, takes the same row again in the next pass, and no stage
behind it is reached. The module has one cycle, so the rows of the others are a variable:
`raises` is the stage at which every pass ends, `HeadChanges` changes it at any time, and an
action that begins at a stage needs `Reached`. This cycle's own row that raises is its stale
evidence (`Blocked`), which `_queue_assessment` cannot take; since that row is passed over
while the cycle is locked, the stages behind it stay possible. That `WF(Orchestrator)` would
also demand them then is more than the code promises, and nothing rests on it:
`ClosedCycleIsCalculated` excepts such a cycle, and `FailureIsNotHidden` needs the first stage.

## The runs

| run | configuration | result |
|---|---|---|
| `analysis_safety` | 1 session, 2 threads, 1 client of the retry endpoint, 2 competencies, 2 jobs, 3 claims, 1 fault, late heartbeats | 6 properties hold (172,620 states) |
| `analysis_progress` | the same with punctual heartbeats, a lease of 2 ticks, fairness | `ClaimsBounded`, `JobSettles`, `SessionSettles` hold (43,568) |
| `analysis_stale_fail` | 2 threads, no client | `ReadyReportStays` is violated |
| `preparation_late` | 1 job, 2 sessions, 2 cases, 2 threads, 3 claims, 1 fault, late heartbeats, fairness | `TypeOK`, `ImplementsFencedQueue`, `JobSettles` hold (249,852) |
| `preparation_punctual` | 2 jobs, 3 sessions, punctual heartbeats | 5 properties hold (744,158) |
| `cycle_queue` | 2 operations of 2 claims, 2 threads, 2 cases | 7 properties hold (103,168) |
| `conversation` | 2 situations, 1 turn request each, 2 API threads, fairness | 7 properties hold (about 850,000) |
| `conversation_limit` | 1 situation, 1 thread | `LimitClosesSituations` is violated |
| `conversation_return` | 1 situation, 1 thread | `AbsenceCanBeContinued` is violated |
| `requests` | 1 evidence and 1 assessment request, 1 polling thread, 1 background task, 3 attempts, fairness | 4 properties hold (20,540) |
| `pipeline` | 2 situations, one with two interim boundaries, 1 worker, 1 recovery key, 1 repeated command, any number of lost processes, rows that raise at the assessment, fairness | 5 properties hold (219,276) |
| `pipeline_question` | 1 situation with 1 boundary, no faults | `WaitingQuestionIsPut` is violated |

### What the code does differently from what it says

1. `analysis_stale_fail`: `_fail` guards the job and not the session. A thread whose lease
   was recovered puts a session whose report is ready back to `analyzing` or `failed`.
2. `conversation_limit`: when the answer of a turn comes after the limit, the turn's own
   transaction closes the collection, without the situation. The completion that the route
   calls afterwards finds it closed and does nothing. The situation stays `active`, there is
   no final handoff and no C-46, and the orchestration thread stumbles over the cycle in every
   pass. `M10Pipeline` goes on from there (`LimitInTurn`): such a cycle is never calculated.
3. `conversation_return`: an absence recognized while a turn or a pause is open gets no wait,
   and the `Continue` that everything then asks for fails on that.
4. `pipeline_question`: between the decision to ask and its presentation the participant may
   pause. The presentation is refused, the question is not selected again, and the situation
   can be neither answered nor finished until a limit closes the cycle.

### Observations

Met while modelling, not the subject of a run:

- The retry endpoint refuses a ready report, but looks in one transaction and enqueues in
  another (`routes.py` 8926): a report that became ready in between is evaluated again.
- A start that joins a running `prepare_only` job gets an operation that completes without a
  result (`assessment_preparation_queue.py` 106); the page takes that for a failure.
- An attempt without a lease can archive the session its successor delivered
  (`assessment_service.py` 949): `DeliveredSessionIsUsable` and `FinishedSessionIsNotReopened`
  hold with punctual heartbeats. The creation and repair of sessions relies on the lease
  without looking at it.
- `choose_next` completes the closed position before the next situation exists
  (`m7_cycle_planner.py` 194). When its generation fails, the page offers no next step.
- A late attempt of a failed `prepare` saves a decision of its own
  (`product_cycle_preparation_queue.py` 351); an attempt after a lost one takes it up and
  attaches a second situation for the same case. `OneSituationPresented` is therefore
  stated for histories without a lost attempt.
- An expired attempt of a failed `next` may present its situation while the next one, which a
  repeated `prepare` attached, is paused (`present_prepared_next`, `m10_product_flow.py` 51-79,
  looks at the situation and not at the token): the cycle is resumed. It takes four
  operations, three claims of one of them and three threads, more than `cycle_queue` has; it
  is why `PausedSituationInPausedCycle` admits a second presented situation.
- Interim evidence that is no longer the newest of its situation makes `build_input` raise
  (`m6_assessment_repository.py` 98-101); `_queue_assessment` selects the same row first in
  every pass, and the stages behind it are not reached, those of other cycles included. So it is
  with every stage: each takes the oldest row over all cycles, and a row that raises is the
  oldest again. A cycle that a turn closed at a limit (`read_c46`, `m10_orchestration.py` 230)
  keeps the younger ones from their calculation. `ClosedCycleIsCalculated` excepts this, by
  name (`Unhindered`).
- When a handoff cannot be enqueued, `_queue_outbox` notes the failure and raises again, and
  `advance_once` rolls the note back with the pass (`m10_orchestration.py` 141, 365): the row
  stays `pending`, first in every pass, and nothing says that it failed.
- A crash between the commit of a calculation and the pipeline's state leaves the cycle
  `calculated`, which no stage selects again; a recovery that dies stays `running`.
- A repeated `scenario_end` (`routes.py` 7347) makes a new handoff; a repeated answer
  (`routes.py` 7546) and a repeated finish (`routes.py` 7473) put the state of the pipeline
  back, the answer even that of one that is ready.
- A situation closed by the single transition has no final handoff. Nothing waits for it
  (`m10_orchestration.py` 219), and the aggregation counts it as `not_presented`
  (`m6_cycle_aggregation_repository.py` 56). The page does not use this transition.
- A failed interim request marks the pipeline as failed even when the report is ready.

### Why the bounds are enough

- Two threads are needed for every race of the queues (an old attempt and its successor);
  the rows do not distinguish a third. The proofs of the three queues hold for any number.
- `MaxClaims` is `MaxAttempts` plus one recovered lease: all attempts used, and one more
  after a crash. In the product cycle an operation fails at its first error, so a second
  claim is always a recovered lease. In both the last claim runs undisturbed (`LastClaim`: no
  `Age`, no crash, no lost report), as otherwise the bound would look like a job that never
  settles.
- Two jobs of a session or user: the one that failed or completed and the one after it.
  Two competencies or cases: a first one and a last one.
- `MaxFaults` bounds crashes and lost failure reports together; one is enough to leave a row
  behind, and later ones start from a state that is already covered.
- Two operations of the product cycle give `prepare` with `next`, `next` with `next`, and a
  failed `prepare` with its repetition. A third makes a route of three positions, which no
  guard tells from two. The proofs of its invariants hold for any number of operations and claims.
- In the conversation a turn is submitted again by the same or another thread: two threads
  and one request give every overlap of two attempts. Two situations give the closed one and
  the one after it. The proofs of its invariants hold for any number of each.
- Three attempts of a request are an expired one, a failed one and the last, which is neither
  lost nor late (`MaxAttempts`; the code has no limit). An evidence and an assessment
  request are the two kinds `First` tells apart.
- In the pipeline each request has one attempt (how attempts overlap is the subject of
  `requests`, and the proofs cover the composition). Two interim boundaries make one handoff
  obsolete, and a situation without any shows the final material alone. One replay is
  enough to leave a step behind, and processes are lost without a bound. One key gives a
  recovery that fails or dies; another would begin where the first one did. Rows of other
  cycles raise at the assessment: stages before it are reached, and those behind it are not.
  Evidence of this cycle that is stale before it is assessed (`Blocked`) needs a third boundary,
  when an answer overtakes a repeated `scenario_end`. It then stays in the way for good, which
  `ClosedCycleIsCalculated` excepts, and to `FailureIsNotHidden` it is what `raises` is.
  (With one situation of three boundaries both hold too, and without `~Blocked` in its
  condition the first one does not.)
- Deadlock is not checked in `cycle_queue` and in the runs of `CycleConversation`,
  `M6Requests` and `M10Pipeline`: with all settled and the cycle closed there is nothing left
  to do.

### Fairness

`FairSpec` has weak fairness for each thread's loop: `_run_worker` and `_run` catch every
exception and go on, and calls to the LLM, to the database pool and to locks end with an
answer or a timeout. It has weak fairness for the clock, for the heartbeat thread of
`AnalysisQueue` (which counts time, so a heartbeat must come before the lease is over), and
for the ageing of locks. `PreparationQueue` needs strong fairness for maintenance by
some thread (`SkipMaintenance` is the poll within its interval of 60 seconds): a poll begins
with maintenance when the interval has passed, so it happens again and again; its `JobSettles`
holds with late heartbeats too. `ProductCycleQueue` lets only an
abandoned operation grow old by fairness.

`CycleConversation` assumes only that the limits are reached and that the sweep, which a
thread of its own runs every 30 seconds, closes what it may (`WF(LimitReached)`,
`WF(Expire)`). `M6Requests` assumes that the polling threads go on and that leases end;
`M10Pipeline` that, and two things of the orchestration thread, which runs a pass every two
seconds and catches every exception. `WF(Orchestrator)` holds as far as the passes get: its
actions need `Reached`, and the rows of other cycles that come first are finitely many and each
is taken once, unless it raises, which is what `raises` stands for. `SF(PropagateFailure)` is
due to the first stage: it locks nothing, so it passes over nothing, and nothing comes before it.

Nothing is assumed of the participant, of
retries or of success: every call may fail every time. One property needs more, and says so:
`ClosedCycleIsCalculated` has the conditions that from some point on no stage raises
(`<>[]Unhindered`: no oldest row of another cycle, no stale evidence of its own) and that
no process is lost or stage interrupted in the midst of its work (`<>[][~Restart]_vars`), and it
speaks of cycles with a C-46. `FailureIsNotHidden` has none of these conditions.

## The proofs

There are three kinds of theorems: the properties of the runs for all values of the
constants, the refinements with what follows from them, and, where a property fails or holds
only under a condition, theorems of the form `Spec /\ [][Guarded]_vars => P`, which name the
very transaction whose guard is missing and say that with it nothing else goes wrong.

`FencedQueueProofs` proves of the abstract queue that at most one thread works under a job's
current claim (`ClaimIsExclusive`), that a claim which is not current never becomes so again
(`LostClaimStaysLost`), and that a settled job keeps its outcome (`SettledJobStays`). The
invariant is that a thread's claim is at most the job's epoch, and that no two threads have
the same one. The queues inherit the last two: each instantiates the proofs (`Laws`), a lemma
(`SameQueue`) says that this is the queue it refines, and `Refinement` gives
`SettledJobs` and `LostLeases` (`SettledOperations` and `LostTokens` in the product cycle).

`AnalysisQueueProofs` proves, for all values of the constants, from `WorkerAssumption`,
`SessionAssumption` and `BoundAssumption`:

- `TypeCorrect`: `Spec => []TypeOK`. The type invariant is not inductive by itself: a busy
  thread indexes the rows by the job it holds, so it must hold one. `BusyHoldsJob` says so,
  and that its claim number is at most the row's `attempts`.
- `ClaimsAreFenced`, `ActiveJobIsUnique`, `RetriesAreBounded`: with
  `IInv == TypeOK /\ BusyHoldsJob /\ FencedClaim /\ OneActiveJobPerSession /\
  RetriesWithinLimit`, `Init => IInv` and `IInv /\ [Next]_vars => IInv'`, one lemma per
  conjunct, one step per action. The argument for fencing: only `Claim` raises `attempts` or
  names an owner, and it names the claiming thread, which was idle; every older holder
  fails the guard from then on, and the latest passes it as long as the job runs.
- `CompletedReportIsWhole`, `ReadyMeansSettled`: by `ResultsSoFar`, a thread at
  competency `k` has the results below `k` committed. It survives other attempts, because
  results are only ever added and a row never changes its session (`JobsKept`); with the
  guard at the end it gives a whole report.
- `ReportTakenBack`: a ready session is taken back in no other way than by the failure of an
  attempt that does not hold its job, or by a retry request that looked before the
  report was ready. `GuardsKeepReports`: where both are guarded (`GuardedSessions`), a ready
  report stays ready, late heartbeats included.
- `KeptLeasesBoundClaims`: `ClaimsBounded` in every behaviour in which no living attempt's lease
  lapses (`LeaseKept`), whatever the lease, the backoff and the maintenance interval are. What
  maintenance recovers was then orphaned by a fault, and `BudgetOK` counts: a job that may be
  claimed again has an attempt left, or a fault paid for it. `PunctualKeepsLeases`: the clock
  stops for a heartbeat that is due, so punctual heartbeats keep the leases; hence
  `ClaimsAreBounded`.
- `Refinement`: `Spec => ImplementsFencedQueue`. `Init` maps to `Init`, and every step to a
  step of `FencedQueue` or a stutter, given `IInv` and that an idle thread has no claim. A
  guarded update is `Settle` by `FencedClaim`.

`PreparationQueueProofs` proves, from `WorkerAssumption` and `BoundAssumption` and for late as
for punctual heartbeats: `TypeCorrect`, `ClaimsAreFenced` (the guard passes for the latest
claim of a running job and for no other) and `Refinement`, with what follows from it.
`ThreadKnowsJob` is the strengthening: a thread within an attempt holds an inserted row, and its
case counter is within the session. The argument for fencing is that of the analysis queue.

`PreparationLeaseProofs` proves the rest. An attempt writes sessions and stage runs without a
look at its lease. `GuardsKeepSessions`: in every behaviour in which it does so only while it
holds its job (`GuardedWrites`), one session is open, a delivered session is usable, and a
failed job leaves no running stage run; `GuardsKeepClosed`: and none is opened again.
The argument has two levels. With `OneActiveJob` at most one thread holds a job, hence what
the holder read of the sessions is still so when it writes them (`PlanOK`, one conjunct per
label): before `CreateSession` no session is open, before `ActivateSession` the planned one is
as it was created and nobody was answered with it. `KeptLeasesBoundClaims` counts as in the
analysis queue. What `preparation_punctual` checks follows as `Spec => [](PunctualHeartbeat =>
P)`: `PunctualKeepsLeases` says that a living attempt keeps its lease, for only an
orphan's lock grows old, so it holds its job whenever it writes.

`ProductCycleQueueProofs` proves, from `DecisionAssumption` and `BoundAssumption`, all the
invariants and action properties of `cycle_queue`. `TypeCorrect` needs that a thread within an
attempt has an operation and, once it has chosen, one with a decision (`ThreadKnowsOp`,
`LatestKnown`); `Refinement` needs no more, as the guard compares claims itself. `RouteGrows`
says of every step that positions keep their decision, and that a situation never leaves
`closed` nor returns to `admitted`; `ClosedStays` is a part of it, and `PausedWhilePaused` follows
from what each step does to the cycle. `CompletedIsUsable` rests on `PlanInv`: at most one
operation is active, what a thread is about to attach or present names a case (`ChoiceOK`),
and a holder about to complete has `Served` its operation. The token counts only there:
a claim that is lost stays lost (`HoldsStays`), so whoever holds the operation at the end did
when it attached. The hard case is a `prepare` that a second attempt repeats: it takes the
last decision instead of its own unless the route is empty (`RepeatOK`).

`GuardKeepsOneSituation` says what the missing look at the token costs: where the choice, and
only the choice, is made under the current token (`GuardedChoice`), there is one open
position for ever, a paused situation has its cycle paused, and no case is worked on twice, through
any loss of attempts. Presenting needs no guard of its own. The induction is over
`ChoiceInv`: whoever is between a choice and its attachment works on the last decision
(`LastDecision`), no situation is open meanwhile (`OneOpen`), and no case has two positions
(`CaseOnce`). `OneAtATime`, which `cycle_queue` checks, follows: until an attempt is lost
every choice is guarded.

`CycleConversationProofs` proves, for any number of threads, turn requests and situations, from
`ThreadAssumption` and `RouteAssumption`: `TypeCorrect`, `SessionFollows`, `TimeFollows`,
`EffectiveWaits`, and as action properties `ClosedStays` and `HandedFrozen`. The inductive
invariant adds that a thread within a turn has a task (`TaskOK`), that situations beyond the
current one are absent (`RouteOK`), and that a situation with a final handoff is closed
(`HandedIsClosed`). The argument for `HandedFrozen`: whatever applies a turn looks at the
situation's status in the same transaction, and `ClosedStays` keeps it closed. `EffectiveWaits`
rests on `WaitInv`: an operation whose state has not moved belongs to the current situation,
and the open interval is the wait of its token; whatever ends the wait of somebody else's turn
gives the state a new revision, and no other turn begins within a wait.

Of its two findings: `OnlyATurnLeavesSituations` says that only the transaction of a turn that
meets the limit closes the collection over an open situation, and `SweepClosesSituations` that
without such a turn a closed collection has closed every situation. `ReturnsCanBeEnded` says
that a return wait always has its absence; it is the absence that may lack its wait.

`M6RequestsProofs` proves from `RequestAssumption` and `AttemptAssumption`: `TypeCorrect`,
`NewestRuns`, `LastIsAccepted`, `SettledStays`, and `RequestsImplementLedger`, the refinement
of `AttemptLedger`. `RowOK` says how the columns of one row belong together; it is inductive
because each transaction changes the row and its attempts at once, and because the guard
`Holds` compares the token that `Claim` replaced.

`M10PipelineProofs` starts from the composition: `PipelineRunsRequests` shows that every step
of the pipeline is a step of `M6Requests` or leaves the requests alone, so that all theorems
about them hold in it. On top of their invariant, `PipelineInv` says that a cycle with a
composition is closed, with all its presented situations (`ClosingOK`), of a cycle that is being
calculated or is calculated that it has one and that all its final material is processed
(`CalculatedOK`), and of a decision under way that it found its situation ended (`DecidingOK`). `ReportIsComplete` and `ClosedIsNotAsked` follow.
The part that needs the strengthening is that processed material stays processed while the
provider computes: an accepted answer is the last word, and a cycle with a composition hands nothing over.
`TurnClosedStaysUncalculated`: a collection that was closed without a composition never gets
one, nor a calculation, which is why the liveness property excepts it.

`EverySituationIsReported`: where no situation is closed by `CloseScenario`, what is closed was
handed over (`ClosedIsHanded`), and an announced report covers every situation that was
presented. `QuestionIsLostByThese`: a question that was decided on is lost in no other
way than by a refused presentation or by a process lost between the two transactions;
`KeptQuestionIsPut` is the fourth finding's property without those two.

### Only model-checked

Liveness: `JobSettles`, `SessionSettles`, `OperationSettles`, `EveryCycleCloses`,
`RequestSettles`, `ClosedCycleIsCalculated` and `FailureIsNotHidden` (the prover has no rules
for fairness). Every invariant and every action property that a passing run checks is proved.
Of the runs that expect a violation, `analysis_stale_fail`, `conversation_limit` and
`pipeline_question` have a theorem that names the only causes and one that says the property
holds without them; `conversation_return` has its other half (`ReturnsCanBeEnded`).

## Not modelled

- The interview of the older assessment (turns, timers, finishing a case): one step here.
- In the conversation: the controlled absence of the test seam, infrastructure incidents, the
  replacement policy and `m7_route_replacement.py`, attaching a situation to a session that
  was interrupted meanwhile, fixed-case plans (`start_or_resume`, `next_situation`).
- In the pipeline: the time limits of a question, cycles that are interrupted and continued
  (their material is handed over in the same way), the difference between an active and a
  paused or terminated scenario (`CloseScenario` closes either), the presentation through the
  test endpoint, several orchestration threads at once (each process starts one; their passes
  take different cycles, or one waits).
- The validation of a provider's answer with its one retry: inside an attempt, without a row.
- The connection pool and the LLM gateway, the stage runs of the bootstrap stages,
  authentication, assignments, versions of definitions: see `components` in `PROJECT.json`.
- Case generation (`assessment/case_generation/`), prompts, the agent's texts, schema creation,
  scoring, rendering of reports, mail, scripts: text and data without control of their own.
  They are the larger part of the 85,000 lines: `routes.py`, `database.py`, `agent.py`,
  `engine.py`, `deepseek_client.py` and the like. The share of the lines that the modules stand
  for is therefore small, although the modules have the transactions that decide about
  jobs, sessions, cycles and requests.
- Whether a session announced by the batch request as prepared has its prompts
  (`routes.py` 5763): the request only reads.

## The plan

Done: the three queues, each an implementation of `FencedQueue`; the conversation; the requests
of M6 with `AttemptLedger`; the pipeline over them; the proofs of every invariant and action
property that a passing run checks; the promises of `FencedQueue`, inherited by its
implementations; and for what does not hold, the theorems that name the causes.

Next, in this order:

1. `CycleConversation` composed with `ProductCycleQueue`, and route replacement.
2. `Interview`: a timeout racing the last answer; with it the session that was announced
   without prompts.
3. `LlmGateway` (semaphore, key chain), `StageTrace` (`run_stage`, `MAX(attempt) + 1`).
4. Web sessions, one-time codes and invitations; cancelling an assignment while it is prepared.

`PROJECT.json` says of every component how far it is modelled. To check a module, run TLC on
its `MC` module with one of the configurations, and `tlapm` on the modules with proofs.
