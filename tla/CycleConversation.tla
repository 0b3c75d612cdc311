--------------------------- MODULE CycleConversation ---------------------------
(***************************************************************************)
(* One participant's cycle while its situations are worked on: the session *)
(* and its time intervals (Api/m5_cycle_runtime.py), the dialogue and its  *)
(* turns (m5_scenario_runtime), closing and completion (m7_completion),    *)
(* absence and return (m7_return_integration) and the clarifying question  *)
(* (m7_clarification).  Every action is one committed transaction; a       *)
(* transaction that raises is rolled back and is no action.                *)
(*                                                                         *)
(* At most one interval of a cycle is open (uq_m5_open_time_interval), so  *)
(* "open" is its kind; the wait of a turn is the API thread that makes the *)
(* attempt, as is an attempt's token: a thread makes one attempt at a time.*)
(* The two limits of a cycle, its budget and its calendar window, are one  *)
(* flag.  The return policy is m7-return-r1: the same situation goes on.   *)
(***************************************************************************)
EXTENDS Naturals

CONSTANTS
    Threads,        \* API threads that submit turns
    NoThread,
    Requests,       \* the turn requests of a situation
    LastSituation   \* the situations of the route are 1..LastSituation

Situations == 1..LastSituation

ASSUME ThreadAssumption ==
    /\ NoThread \notin Threads
    /\ Threads \cap {"none", "collecting", "pause", "return"} = {}
ASSUME RouteAssumption == LastSituation \in Nat \ {0}

VARIABLES
    cycle, session, \* m5_cycles.status, the status of the latest session
    intent,         \* a continuation is intended: m7_continuation_intents
    late,           \* the budget is spent or the calendar window is over
    open,           \* the open time interval
    current, position,  \* the latest route position: its situation, its state
    situation,      \* m5_assessment_situations.status
    handed,         \* m7_finalization_outbox has the situation
    turn,           \* m5_turn_operations
    pc, task,       \* the API threads
    lease,          \* the latest presence lease for the current situation
    absence,        \* the recognized absence event and whether it has its wait
    asked           \* the current situation's question has no response yet

cycleVars == <<cycle, session, intent, late>>
routeVars == <<current, position, situation, handed>>
turnVars == <<turn, pc, task>>
returnVars == <<lease, absence>>
vars == <<cycleVars, open, routeVars, turnVars, returnVars, asked>>

Intervals == {"none", "collecting", "pause", "return"} \cup Threads

Operation == [status : {"absent", "pending", "applied", "rejected_late", "failed"},
              token : Threads \cup {NoThread},
              recent : BOOLEAN,     \* locked within two minutes
              unchanged : BOOLEAN]  \* the state has the input revision

NoOperation ==
    [status |-> "absent", token |-> NoThread, recent |-> FALSE, unchanged |-> FALSE]
NoTask == <<>>

TypeOK ==
    /\ cycle \in {"active", "paused", "interrupted", "collection_closed"}
    /\ session \in {"prepared", "active", "paused", "interrupted", "completed"}
    /\ intent \in BOOLEAN /\ late \in BOOLEAN
    /\ open \in Intervals
    /\ current \in Situations
    /\ position \in {"not_presented", "in_progress", "completed"}
    /\ situation \in [Situations -> {"absent", "admitted", "active", "paused",
                                     "scenario_ended", "terminated", "closed"}]
    /\ handed \in [Situations -> BOOLEAN]
    /\ turn \in [Situations -> [Requests -> Operation]]
    /\ pc \in [Threads -> {"idle", "admitted", "thinking"}]
    /\ task \in [Threads -> (Situations \X Requests) \cup {NoTask}]
    /\ lease \in {"none", "live", "lapsed", "old"}
    /\ absence \in {"none", "waiting", "unbacked"}
    /\ asked \in BOOLEAN

(* The first situation has just been presented. *)
Init ==
    /\ cycle = "active" /\ session = "active" /\ intent = FALSE /\ late = FALSE
    /\ open = "collecting"
    /\ current = 1 /\ position = "in_progress"
    /\ situation = [s \in Situations |-> IF s = 1 THEN "active" ELSE "absent"]
    /\ handed = [s \in Situations |-> FALSE]
    /\ turn = [s \in Situations |-> [r \in Requests |-> NoOperation]]
    /\ pc = [t \in Threads |-> "idle"]
    /\ task = [t \in Threads |-> NoTask]
    /\ lease = "none" /\ absence = "none"
    /\ asked = FALSE

-----------------------------------------------------------------------------
(* Time. *)

Terminal == cycle = "collection_closed"
CollectionOpen == cycle = "active" /\ session = "active"

(* A lease that lapsed before the new interval began is not an absence     *)
(* from it.                                                                *)
LeaseAtStart == IF lease = "lapsed" THEN "old" ELSE lease

StartCollecting == open' = "collecting" /\ lease' = LeaseAtStart

Blocking(i) == i \in Threads \cup {"return"}

(* Faulty: whatever interval is open by now ends with the wait. *)
EndsAny(w) == IF CollectionOpen THEN "collecting" ELSE "none"

(* end_blocking_wait: the interval that is open once the wait w has ended. *)
AfterWait(w) ==
    IF open # w THEN open ELSE IF CollectionOpen THEN "collecting" ELSE "none"

LimitReached == ~late /\ late' = TRUE
    /\ UNCHANGED <<cycle, session, intent, open, routeVars, turnVars, returnVars, asked>>

-----------------------------------------------------------------------------
(* Absence.  The current position is the one in progress.                  *)

Recognizable ==
    /\ position = "in_progress" /\ absence = "none"
    /\ lease = "lapsed" \/ (lease = "old" /\ open # "collecting")

(* The collecting interval is closed at the lease's end and the wait is    *)
(* inserted ON CONFLICT DO NOTHING: not while another interval is open.    *)
WaitInserted == open \in {"collecting", "none"}
AbsenceThen == IF ~Recognizable THEN absence
               ELSE IF WaitInserted THEN "waiting" ELSE "unbacked"
OpenThen == IF Recognizable /\ WaitInserted THEN "return" ELSE open

(* _m7_require_explicit_return answers 409. *)
MustContinue == position = "in_progress" /\ (absence # "none" \/ Recognizable)

(* A guarded request that meets a new absence commits it. *)
Poll ==
    /\ Recognizable
    /\ absence' = AbsenceThen /\ open' = OpenThen
    /\ UNCHANGED <<cycleVars, routeVars, turnVars, lease, asked>>

Heartbeat ==
    /\ position = "in_progress" /\ ~Terminal
    /\ situation[current] \in {"active", "paused"}
    /\ absence' = AbsenceThen /\ open' = OpenThen
    /\ lease' = "live"
    /\ UNCHANGED <<cycleVars, routeVars, turnVars, asked>>

LeaseLapses == lease = "live" /\ lease' = "lapsed"
    /\ UNCHANGED <<cycleVars, open, routeVars, turnVars, absence, asked>>

CanContinue ==
    /\ position = "in_progress" /\ ~Terminal /\ ~late
    /\ situation[current] \in {"active", "paused"}

(* end_blocking_wait raises when the absence has no wait. *)
Continue ==
    /\ CanContinue
    /\ MustContinue /\ AbsenceThen = "waiting"
    /\ absence' = "none" /\ lease' = "none"
    /\ open' = IF OpenThen # "return" THEN OpenThen
               ELSE IF CollectionOpen THEN "collecting" ELSE "none"
    /\ UNCHANGED <<cycleVars, routeVars, turnVars, asked>>

-----------------------------------------------------------------------------
(* Turns: submit_turn_detached, its two transactions and the provider      *)
(* between them.                                                           *)

Release(t) == pc' = [pc EXCEPT ![t] = "idle"] /\ task' = [task EXCEPT ![t] = NoTask]

(* The operation is over; what only an attempt looks at is dropped. *)
Over(status) == [NoOperation EXCEPT !.status = status]

(* Faulty: only a turn takes a new revision. *)
Kept(turns, s) == turns

(* Any change of a situation's state takes a new revision. *)
Moved(turns, s) ==
    [turns EXCEPT ![s] = [r \in Requests |-> [turns[s][r] EXCEPT !.unchanged = FALSE]]]

(* The route lets the turn pass unless the participant must continue. *)
RequestTurn(t, r) ==
    /\ pc[t] = "idle" /\ ~MustContinue
    /\ pc' = [pc EXCEPT ![t] = "admitted"]
    /\ task' = [task EXCEPT ![t] = <<current, r>>]
    /\ UNCHANGED <<cycleVars, open, routeVars, turn, returnVars, asked>>

Collecting == CollectionOpen /\ ~Blocking(open) /\ ~late

(* Pending for less than two minutes: in progress; applied: replayed. *)
Startable(op) == op.status # "applied" /\ ~(op.status = "pending" /\ op.recent)

(* The turn is stored and the wait of the attempt opened. *)
BeginTurn(t) ==
    LET s == task[t][1]  r == task[t][2] IN
    /\ pc[t] = "admitted"
    /\ Collecting /\ situation[s] = "active" /\ Startable(turn[s][r])
    /\ turn' = [turn EXCEPT ![s][r] =
           [status |-> "pending", token |-> t, recent |-> TRUE, unchanged |-> TRUE]]
    /\ open' = t
    /\ pc' = [pc EXCEPT ![t] = "thinking"]
    /\ UNCHANGED <<cycleVars, routeVars, task, returnVars, asked>>

RefuseTurn(t) ==
    /\ pc[t] = "admitted"
    /\ ~Collecting \/ situation[task[t][1]] # "active"
          \/ ~Startable(turn[task[t][1]][task[t][2]])
    /\ Release(t)
    /\ UNCHANGED <<cycleVars, open, routeVars, turn, returnVars, asked>>

(* The attempt_token is this attempt's and the operation is pending. *)
HoldsTurn(t) ==
    LET op == turn[task[t][1]][task[t][2]] IN op.status = "pending" /\ op.token = t

(* Faulty: submit_turn does not check that the situation is still active. *)
OutcomeUnchecked(t) ==
    LET op == turn[task[t][1]][task[t][2]] IN
    IF ~CollectionOpen THEN "rejected_late"
    ELSE IF Blocking(AfterWait(t)) THEN "failed"
    ELSE IF late THEN "rejected_late" ELSE "applied"

(* submit_turn after the wait has ended: its checks in their order. *)
TurnOutcome(t) ==
    LET op == turn[task[t][1]][task[t][2]] IN
    IF ~CollectionOpen THEN "rejected_late"
    ELSE IF Blocking(AfterWait(t)) THEN "failed"
    ELSE IF late \/ situation[task[t][1]] # "active" \/ ~op.unchanged
         THEN "rejected_late" ELSE "applied"

(* assert_collecting closes the collection when a limit is reached, and    *)
(* the rejection is committed with it.                                     *)
ClosedByTurn(t) == CollectionOpen /\ ~Blocking(AfterWait(t)) /\ late

ApplyTurn(t) ==
    LET s == task[t][1]  r == task[t][2] IN
    /\ pc[t] = "thinking" /\ HoldsTurn(t)
    /\ \E moves \in IF TurnOutcome(t) = "applied" THEN BOOLEAN ELSE {FALSE} :
          LET settled == [turn EXCEPT ![s][r] = Over(TurnOutcome(t))] IN
          turn' = IF moves THEN Moved(settled, s) ELSE settled
    /\ IF ClosedByTurn(t)
       THEN /\ cycle' = "collection_closed" /\ session' = "completed"
            /\ open' = "none"
            /\ UNCHANGED lease
       ELSE /\ open' = AfterWait(t)
            /\ lease' = IF open = t THEN LeaseAtStart ELSE lease
            /\ UNCHANGED <<cycle, session>>
    /\ Release(t)
    /\ UNCHANGED <<intent, late, routeVars, absence, asked>>

(* The provider has failed: _fail_detached_turn. *)
FailTurn(t) ==
    LET s == task[t][1]  r == task[t][2] IN
    /\ pc[t] = "thinking" /\ HoldsTurn(t)
    /\ turn' = [turn EXCEPT ![s][r] = Over("failed")]
    /\ open' = AfterWait(t)
    /\ lease' = IF open = t THEN LeaseAtStart ELSE lease
    /\ Release(t)
    /\ UNCHANGED <<cycleVars, routeVars, absence, asked>>

(* The attempt was superseded: nothing is written. *)
DropTurn(t) ==
    /\ pc[t] = "thinking" /\ ~HoldsTurn(t)
    /\ Release(t)
    /\ UNCHANGED <<cycleVars, open, routeVars, turn, returnVars, asked>>

(* The process stops, or the attempt raises outside the provider's calls. *)
LoseTurn(t) ==
    /\ pc[t] # "idle"
    /\ Release(t)
    /\ UNCHANGED <<cycleVars, open, routeVars, turn, returnVars, asked>>

(* locked_at becomes older than two minutes. *)
TurnAges(s, r) ==
    /\ turn[s][r].recent /\ turn[s][r].status = "pending"
    /\ turn' = [turn EXCEPT ![s][r].recent = FALSE]
    /\ UNCHANGED <<cycleVars, open, routeVars, pc, task, returnVars, asked>>

-----------------------------------------------------------------------------
(* The scenario and the commands that end it. *)

(* Faulty: a closed situation can be taken up again. *)
WithReopening ==
    {<<"active", "pause", "paused">>, <<"paused", "resume", "active">>,
     <<"closed", "resume", "active">>, <<"active", "scenario_end", "scenario_ended">>,
     <<"active", "terminate", "terminated">>, <<"paused", "terminate", "terminated">>,
     <<"scenario_ended", "close", "closed">>, <<"terminated", "close", "closed">>}

ScenarioTransitions ==
    {<<"active", "pause", "paused">>, <<"paused", "resume", "active">>,
     <<"active", "scenario_end", "scenario_ended">>,
     <<"active", "terminate", "terminated">>, <<"paused", "terminate", "terminated">>,
     <<"scenario_ended", "close", "closed">>, <<"terminated", "close", "closed">>}

(* The participant's command; the end of the scenario hands over what was  *)
(* said so far.  The cycle's status does not matter to it.                 *)
Transition(action) ==
    /\ ~MustContinue
    /\ \E step \in ScenarioTransitions :
        /\ step[1] = situation[current] /\ step[2] = action
        /\ situation' = [situation EXCEPT ![current] = step[3]]
    /\ turn' = Moved(turn, current)
    /\ asked' = (asked /\ situation'[current] # "closed")
    /\ UNCHANGED <<cycleVars, open, current, position, handed, pc, task, returnVars>>

(* control: the open situation goes with the cycle, or nothing does. *)
PauseCycle ==
    /\ ~Terminal /\ session = "active" /\ situation[current] # "paused"
    /\ cycle' = "paused" /\ session' = "paused" /\ open' = "pause"
    /\ IF situation[current] = "active"
       THEN /\ situation' = [situation EXCEPT ![current] = "paused"]
            /\ turn' = Moved(turn, current)
       ELSE UNCHANGED <<situation, turn>>
    /\ UNCHANGED <<intent, late, current, position, handed, pc, task, returnVars, asked>>

ResumeCycle ==
    /\ ~Terminal /\ ~late /\ session = "paused" /\ situation[current] # "active"
    /\ cycle' = "active" /\ session' = "active" /\ StartCollecting
    /\ IF situation[current] = "paused"
       THEN /\ situation' = [situation EXCEPT ![current] = "active"]
            /\ turn' = Moved(turn, current)
       ELSE UNCHANGED <<situation, turn>>
    /\ UNCHANGED <<intent, late, current, position, handed, pc, task, absence, asked>>

(* The final handoff is built and the session paused. *)
FinishSituation ==
    /\ cycle = "active" /\ position = "in_progress"
    /\ situation[current] = "scenario_ended" /\ ~asked
    /\ situation' = [situation EXCEPT ![current] = "closed"]
    /\ handed' = [handed EXCEPT ![current] = TRUE]
    /\ turn' = Moved(turn, current)
    /\ cycle' = "paused" /\ session' = "paused" /\ open' = "pause"
    /\ UNCHANGED <<intent, late, current, position, pc, task, returnVars, asked>>

Presented == {"active", "paused", "scenario_ended", "terminated"}

(* complete: what is not closed is closed, and handed over if it was       *)
(* presented.                                                              *)
CloseCollection(nextCycle, nextSession) ==
    /\ ~Terminal
    /\ situation' = [s \in Situations |->
           IF situation[s] = "absent" THEN "absent" ELSE "closed"]
    /\ handed' = [s \in Situations |-> handed[s] \/ situation[s] \in Presented]
    /\ turn' = Moved(turn, current)
    /\ position' = "completed"
    /\ open' = "none"
    /\ cycle' = nextCycle /\ session' = nextSession
    /\ asked' = FALSE
    /\ UNCHANGED <<late, current, pc, task, returnVars>>

(* Faulty: the statuses are swapped. *)
Swapped == CloseCollection("completed", "collection_closed") /\ UNCHANGED intent

Complete == CloseCollection("collection_closed", "completed") /\ UNCHANGED intent

(* Faulty: the session of an interrupted cycle is completed. *)
InterruptAndComplete ==
    /\ session \in {"active", "paused"}
    /\ CloseCollection("interrupted", "completed")
    /\ intent' = TRUE

Interrupt ==
    /\ session \in {"active", "paused"}
    /\ CloseCollection("interrupted", "interrupted")
    /\ intent' = TRUE

(* Faulty: the sweep looks at the cycles being worked on. *)
ExpireRunning == late /\ cycle \in {"active", "paused"} /\ Complete

(* expire_due_cycles, and the requests that meet the limit themselves. *)
Expire == late /\ Complete

AddSession ==
    /\ intent /\ cycle = "interrupted" /\ ~late
    /\ session' = "prepared" /\ intent' = FALSE
    /\ UNCHANGED <<cycle, late, open, routeVars, turnVars, returnVars, asked>>

(* The next situation is chosen and attached (ProductCycleQueue has the    *)
(* steps of it); to an interrupted cycle after its additional session.     *)
AttachNext ==
    /\ current < LastSituation /\ situation[current] = "closed"
    /\ ~Terminal /\ ~late /\ session # "interrupted"
    /\ current' = current + 1 /\ position' = "not_presented"
    /\ situation' = [situation EXCEPT ![current + 1] = "admitted"]
    /\ lease' = "none"
    /\ UNCHANGED <<cycleVars, open, handed, turnVars, absence, asked>>

(* The session is resumed or started, the situation starts and becomes     *)
(* the current one; a blocking wait or a limit forbids it.                 *)
PresentNext ==
    /\ situation[current] = "admitted" /\ ~Terminal /\ ~late
    /\ CASE cycle = "active" -> ~Blocking(open) /\ UNCHANGED <<open, lease>>
         [] cycle = "paused" -> StartCollecting
         [] cycle = "interrupted" ->
                session = "prepared" /\ open = "none" /\ StartCollecting
    /\ cycle' = "active" /\ session' = "active"
    /\ situation' = [situation EXCEPT ![current] = "active"]
    /\ position' = "in_progress"
    /\ UNCHANGED <<intent, late, current, handed, turnVars, absence, asked>>

-----------------------------------------------------------------------------
(* The clarifying question, as far as the cycle sees it: M10Pipeline has    *)
(* how it is decided and presented.                                         *)

Ask ==
    /\ situation[current] = "scenario_ended" /\ ~asked
    /\ cycle \in {"active", "paused"} /\ ~late
    /\ asked' = TRUE
    /\ UNCHANGED <<cycleVars, open, routeVars, turnVars, returnVars>>

(* The answer, a refusal or no answer. *)
Respond ==
    /\ asked /\ situation[current] = "scenario_ended"
    /\ asked' = FALSE
    /\ UNCHANGED <<cycleVars, open, routeVars, turnVars, returnVars>>

-----------------------------------------------------------------------------
Thread(t) ==
    \/ \E r \in Requests : RequestTurn(t, r)
    \/ BeginTurn(t) \/ RefuseTurn(t)
    \/ ApplyTurn(t) \/ FailTurn(t) \/ DropTurn(t) \/ LoseTurn(t)

Participant ==
    \/ Poll \/ Heartbeat \/ Continue
    \/ \E action \in {step[2] : step \in ScenarioTransitions} : Transition(action)
    \/ PauseCycle \/ ResumeCycle \/ FinishSituation
    \/ Complete \/ Interrupt \/ AddSession
    \/ Respond

System ==
    \/ LimitReached \/ LeaseLapses \/ Expire
    \/ AttachNext \/ PresentNext \/ Ask
    \/ \E s \in Situations, r \in Requests : TurnAges(s, r)

Next ==
    \/ Participant \/ System
    \/ \E t \in Threads : Thread(t)

Spec == Init /\ [][Next]_vars

(* Time passes, and the sweep runs every thirty seconds. *)
FairSpec == Spec /\ WF_vars(LimitReached) /\ WF_vars(Expire)

-----------------------------------------------------------------------------
(* Properties. *)

(* The session and the cycle are changed together on every path:           *)
(* transition_session, complete, start_session and the limit found by      *)
(* assert_collecting leave no session active in a cycle that is not.       *)
SessionFollowsCycle ==
    session \in CASE cycle = "active" -> {"active"}
                  [] cycle = "paused" -> {"paused"}
                  [] cycle = "interrupted" -> {"interrupted", "prepared"}
                  [] cycle = "collection_closed" -> {"completed"}

(* Every moment of an active cycle is on the account of an interval, and   *)
(* only such a cycle's time is collecting: no late end of a wait, no       *)
(* return and no heartbeat starts the clock of a cycle that was paused,    *)
(* interrupted or closed meanwhile.                                        *)
TimeFollowsCycle ==
    open \in CASE cycle = "active" -> {"collecting", "return"} \cup Threads
               [] cycle = "paused" -> {"pause"}
               [] cycle = "interrupted" -> {"none"}
               [] cycle = "collection_closed" -> {"none", "return"}

(* An attempt whose answer could still be applied is inside its own        *)
(* blocking wait: its provider's time is not collecting, and nobody else's *)
(* turn has begun on the state it was made from (submit_turn_detached).    *)
EffectiveTurnHasWait ==
    \A t \in Threads :
        pc[t] = "thinking" /\ HoldsTurn(t) /\ TurnOutcome(t) = "applied" => open = t

(* Once the final handoff of a situation exists, no turn is stored for it  *)
(* and none applied: the C-45 that is evaluated is the whole dialogue.     *)
HandedDialogueIsFrozen ==
    [][\A s \in Situations, r \in Requests :
          handed[s] /\ turn'[s][r] # turn[s][r] =>
              turn'[s][r].status \notin {"pending", "applied"}
                  \/ turn'[s][r].status = turn[s][r].status]_vars

(* A closed collection and a closed situation are never opened again, by   *)
(* whatever command, late answer or return comes after                     *)
(* (docs/architecture/m7-completion-contract.md).                          *)
ClosedStaysClosed ==
    [][/\ cycle = "collection_closed" => cycle' = "collection_closed"
       /\ \A s \in Situations : situation[s] = "closed" => situation'[s] = "closed"
       /\ \A s \in Situations : handed[s] => handed'[s]]_vars

(* With the sweep running, every cycle's collection is closed in the end:  *)
(* no wait, absence, pause or interruption keeps it open for ever.         *)
EveryCycleCloses == <>[](cycle = "collection_closed")

(* What docs/architecture/m7-completion-contract.md says of the command    *)
(* time_limit, that the cycle closes with the final close of its           *)
(* situations, holds of every closed collection.                           *)
LimitClosesSituations ==
    Terminal => \A s \in Situations : situation[s] \in {"absent", "closed"}

(* What docs/architecture/m7-return-time-integration.md says of Continue:  *)
(* it ends the wait of the absence, so the absence has one.                *)
AbsenceCanBeContinued == CanContinue /\ absence # "none" => absence = "waiting"
=============================================================================
