------------------------ MODULE CycleConversationProofs ------------------------
(* Theorems about a cycle and its dialogue, for every number of situations, *)
(* of turn requests and of API threads.                                     *)
EXTENDS CycleConversation, TLAPS

-----------------------------------------------------------------------------
(* The turns of the situations keep their types. *)

TurnsTypeOK(turns) == turns \in [Situations -> [Requests -> Operation]]

(* A new revision changes no status, and only the turns of its situation.  *)
LEMMA MovedOK ==
    ASSUME NEW turns, TurnsTypeOK(turns), NEW s \in Situations
    PROVE  /\ TurnsTypeOK(Moved(turns, s))
           /\ \A q \in Situations, r \in Requests :
                  Moved(turns, s)[q][r].status = turns[q][r].status
  <1>1. ASSUME NEW r \in Requests
        PROVE  /\ [turns[s][r] EXCEPT !.unchanged = FALSE] \in Operation
               /\ [turns[s][r] EXCEPT !.unchanged = FALSE].status = turns[s][r].status
    <2>1. turns[s][r] \in Operation
      BY DEF TurnsTypeOK
    <2> QED
      BY <2>1 DEF Operation
  <1>2. TurnsTypeOK(Moved(turns, s))
    BY <1>1 DEF Moved, TurnsTypeOK
  <1>3. ASSUME NEW q \in Situations, NEW r \in Requests
        PROVE  Moved(turns, s)[q][r].status = turns[q][r].status
    <2>1. CASE q = s
      BY <2>1, <1>1 DEF Moved, TurnsTypeOK
    <2>2. CASE q # s
      BY <2>2 DEF Moved, TurnsTypeOK
    <2> QED
      BY <2>1, <2>2
  <1> QED
    BY <1>2, <1>3

(* The record of an operation that is over. *)
LEMMA OverOK ==
    ASSUME NEW status \in {"applied", "rejected_late", "failed"}
    PROVE  Over(status) \in Operation /\ Over(status).status = status
  BY ThreadAssumption DEF Over, NoOperation, Operation

LEMMA NoOperationOK == NoOperation \in Operation
  BY DEF NoOperation, Operation

LEMMA OutcomeOK ==
    ASSUME NEW t PROVE TurnOutcome(t) \in {"applied", "rejected_late", "failed"}
  BY DEF TurnOutcome

-----------------------------------------------------------------------------
(* The inductive invariant. *)

(* A thread that is not idle works on a turn. *)
TaskOK == \A t \in Threads : pc[t] # "idle" => task[t] \in Situations \X Requests

(* The route is worked on in its order: what comes after the current       *)
(* situation is not there yet, and nothing is in progress in a cycle that   *)
(* is interrupted.                                                          *)
RouteOK ==
    /\ \A s \in Situations : s > current => situation[s] = "absent"
    /\ cycle = "interrupted" => position # "in_progress"

(* Only a closed situation has its final handoff. *)
HandedIsClosed == \A s \in Situations : handed[s] => situation[s] = "closed"

IInv ==
    /\ TypeOK /\ TaskOK /\ RouteOK /\ HandedIsClosed
    /\ SessionFollowsCycle /\ TimeFollowsCycle

LEMMA InitIInv == Init => IInv
  <1> SUFFICES ASSUME Init PROVE IInv
    OBVIOUS
  <1>1. 1 \in Situations
    BY RouteAssumption DEF Situations
  <1>2. TypeOK
    BY <1>1, NoOperationOK DEF Init, TypeOK, Intervals
  <1>3. TaskOK /\ HandedIsClosed /\ SessionFollowsCycle /\ TimeFollowsCycle
    BY DEF Init, TaskOK, HandedIsClosed, SessionFollowsCycle, TimeFollowsCycle
  <1>4. RouteOK
    BY DEF Init, RouteOK, Situations
  <1> QED
    BY <1>2, <1>3, <1>4 DEF IInv

(* The steps that only concern a presence lease or an absence. *)
LEMMA ReturnIInv ==
    ASSUME IInv, Poll \/ Heartbeat \/ LeaseLapses \/ Continue PROVE IInv'
  <1>1. TypeOK'
    BY DEF IInv, TypeOK, Poll, Heartbeat, LeaseLapses, Continue, AbsenceThen, OpenThen,
           WaitInserted, Intervals, cycleVars, routeVars, turnVars
  <1>2. TaskOK' /\ RouteOK' /\ HandedIsClosed' /\ SessionFollowsCycle'
    BY DEF IInv, TaskOK, RouteOK, HandedIsClosed, SessionFollowsCycle, Poll, Heartbeat,
           LeaseLapses, Continue, cycleVars, routeVars, turnVars
  <1>3. TimeFollowsCycle'
    <2>1. CASE Poll \/ Heartbeat
      BY <2>1 DEF IInv, TypeOK, RouteOK, TimeFollowsCycle, Poll, Heartbeat, Recognizable,
                  OpenThen, WaitInserted, cycleVars, routeVars
    <2>2. CASE LeaseLapses
      BY <2>2 DEF IInv, TimeFollowsCycle, LeaseLapses, cycleVars
    <2>3. CASE Continue
      BY <2>3, ThreadAssumption
      DEF IInv, TypeOK, RouteOK, TimeFollowsCycle, SessionFollowsCycle, Continue,
          CanContinue, Terminal, CollectionOpen, Recognizable, OpenThen, WaitInserted,
          cycleVars, routeVars
    <2> QED
      BY <2>1, <2>2, <2>3
  <1> QED
    BY <1>1, <1>2, <1>3 DEF IInv

-----------------------------------------------------------------------------
(* The threads. *)

(* The current operation of a thread that is not idle. *)
LEMMA TaskTypes ==
    ASSUME IInv, NEW t \in Threads, pc[t] # "idle"
    PROVE  /\ task[t] \in Situations \X Requests
           /\ task[t][1] \in Situations /\ task[t][2] \in Requests
  BY DEF IInv, TaskOK

LEMMA ReleaseOK ==
    ASSUME IInv, NEW t \in Threads, Release(t)
    PROVE  /\ pc' \in [Threads -> {"idle", "admitted", "thinking"}]
           /\ task' \in [Threads -> (Situations \X Requests) \cup {NoTask}]
           /\ TaskOK'
  BY DEF Release, IInv, TypeOK, TaskOK

(* The turns of one situation with another operation of one request. *)
LEMMA SetTurnOK ==
    ASSUME IInv, NEW s \in Situations, NEW r \in Requests, NEW op \in Operation
    PROVE  TurnsTypeOK([turn EXCEPT ![s][r] = op])
  BY DEF IInv, TypeOK, TurnsTypeOK

(* The end of a thread's own wait, in a cycle that is still active. *)
LEMMA AfterWaitOK ==
    ASSUME IInv, NEW t \in Threads
    PROVE  /\ AfterWait(t) \in Intervals
           /\ open # t => AfterWait(t) = open
           /\ open = t => cycle = "active" /\ AfterWait(t) = "collecting"
  BY ThreadAssumption
  DEF AfterWait, CollectionOpen, IInv, TypeOK, TimeFollowsCycle, SessionFollowsCycle,
      Intervals

LEMMA RequestTurnIInv ==
    ASSUME IInv, NEW t \in Threads, NEW r \in Requests, RequestTurn(t, r) PROVE IInv'
  BY DEF IInv, RequestTurn, TypeOK, TaskOK, RouteOK, HandedIsClosed, SessionFollowsCycle,
         TimeFollowsCycle, cycleVars, routeVars, returnVars

LEMMA BeginTurnIInv == ASSUME IInv, NEW t \in Threads, BeginTurn(t) PROVE IInv'
  <1> DEFINE s == task[t][1]
             r == task[t][2]
             op == [status |-> "pending", token |-> t, recent |-> TRUE, unchanged |-> TRUE]
  <1>1. s \in Situations /\ r \in Requests
    BY TaskTypes DEF BeginTurn
  <1>2. op \in Operation
    BY DEF Operation
  <1>3. TurnsTypeOK(turn')
    BY <1>1, <1>2, SetTurnOK DEF BeginTurn
  <1>4. TypeOK'
    BY <1>3 DEF IInv, BeginTurn, TypeOK, TurnsTypeOK, Intervals, cycleVars, routeVars,
                returnVars
  <1>5. TaskOK' /\ RouteOK' /\ HandedIsClosed' /\ SessionFollowsCycle'
    BY DEF IInv, BeginTurn, TypeOK, TaskOK, RouteOK, HandedIsClosed, SessionFollowsCycle,
           cycleVars, routeVars
  <1>6. TimeFollowsCycle'
    BY DEF IInv, BeginTurn, Collecting, CollectionOpen, TimeFollowsCycle, cycleVars
  <1> QED
    BY <1>4, <1>5, <1>6 DEF IInv

LEMMA LeaveTurnIInv ==
    ASSUME IInv, NEW t \in Threads, RefuseTurn(t) \/ DropTurn(t) \/ LoseTurn(t)
    PROVE  IInv'
  <1>1. /\ Release(t)
        /\ UNCHANGED <<cycleVars, open, routeVars, turn, returnVars, asked>>
    BY DEF RefuseTurn, DropTurn, LoseTurn
  <1>2. TypeOK' /\ TaskOK'
    BY <1>1, ReleaseOK DEF IInv, TypeOK, cycleVars, routeVars, returnVars
  <1>3. RouteOK' /\ HandedIsClosed' /\ SessionFollowsCycle' /\ TimeFollowsCycle'
    BY <1>1 DEF IInv, RouteOK, HandedIsClosed, SessionFollowsCycle, TimeFollowsCycle,
                cycleVars, routeVars
  <1> QED
    BY <1>2, <1>3 DEF IInv

LEMMA TurnAgesIInv ==
    ASSUME IInv, NEW s \in Situations, NEW r \in Requests, TurnAges(s, r) PROVE IInv'
  <1>1. turn[s][r] \in Operation
    BY DEF IInv, TypeOK
  <1>2. [turn[s][r] EXCEPT !.recent = FALSE] \in Operation
    BY <1>1 DEF Operation
  <1>3. TurnsTypeOK(turn')
    BY <1>2 DEF TurnAges, IInv, TypeOK, TurnsTypeOK
  <1> QED
    BY <1>3 DEF TurnAges, IInv, TypeOK, TurnsTypeOK, TaskOK, RouteOK, HandedIsClosed,
                SessionFollowsCycle, TimeFollowsCycle, cycleVars, routeVars, returnVars

(* What the last transaction of an attempt does to the turns: one operation *)
(* is over, and the others keep their statuses.                             *)
LEMMA SettledTurns ==
    ASSUME IInv, NEW t \in Threads, pc[t] = "thinking",
           NEW status \in {"applied", "rejected_late", "failed"},
           \E moves \in BOOLEAN :
              LET s == task[t][1]
                  settled == [turn EXCEPT ![s][task[t][2]] = Over(status)]
              IN  turn' = IF moves THEN Moved(settled, s) ELSE settled
    PROVE  /\ TurnsTypeOK(turn')
           /\ turn'[task[t][1]][task[t][2]].status = status
           /\ \A q \in Situations, r \in Requests :
                 <<q, r>> # task[t] => turn'[q][r].status = turn[q][r].status
  <1> DEFINE s == task[t][1]
             r == task[t][2]
             settled == [turn EXCEPT ![s][r] = Over(status)]
  <1>1. s \in Situations /\ r \in Requests /\ task[t] = <<s, r>>
    BY TaskTypes
  <1>2. TurnsTypeOK(settled)
    BY <1>1, OverOK, SetTurnOK
  <1>3. settled[s][r].status = status
    BY <1>1, OverOK DEF IInv, TypeOK
  <1>4. ASSUME NEW q \in Situations, NEW p \in Requests, <<q, p>> # task[t]
        PROVE  settled[q][p] = turn[q][p]
    BY <1>1, <1>4 DEF IInv, TypeOK
  <1>5. PICK moves \in BOOLEAN : turn' = IF moves THEN Moved(settled, s) ELSE settled
    OBVIOUS
  <1>6. /\ TurnsTypeOK(turn')
        /\ \A q \in Situations, p \in Requests :
              turn'[q][p].status = settled[q][p].status
    <2> HIDE DEF settled
    <2>1. /\ TurnsTypeOK(Moved(settled, s))
          /\ \A q \in Situations, p \in Requests :
                Moved(settled, s)[q][p].status = settled[q][p].status
      BY <1>1, <1>2, MovedOK
    <2>2. turn' = Moved(settled, s) \/ turn' = settled
      BY <1>5
    <2> QED
      BY <1>2, <2>1, <2>2
  <1>7. turn'[s][r].status = status
    BY <1>1, <1>3, <1>6
  <1>8. ASSUME NEW q \in Situations, NEW p \in Requests, <<q, p>> # task[t]
        PROVE  turn'[q][p].status = turn[q][p].status
    <2>1. turn'[q][p].status = settled[q][p].status
      BY <1>6
    <2> QED
      BY <2>1, <1>4, <1>8
  <1> QED
    BY <1>6, <1>7, <1>8

LEMMA ApplyTurnTurns ==
    ASSUME IInv, NEW t \in Threads, ApplyTurn(t)
    PROVE  /\ TurnsTypeOK(turn')
           /\ turn'[task[t][1]][task[t][2]].status = TurnOutcome(t)
           /\ \A q \in Situations, r \in Requests :
                 <<q, r>> # task[t] => turn'[q][r].status = turn[q][r].status
  <1>1. TurnOutcome(t) \in {"applied", "rejected_late", "failed"}
    BY OutcomeOK
  <1>2. pc[t] = "thinking"
    BY DEF ApplyTurn
  <1>3. \E moves \in BOOLEAN :
           LET s == task[t][1]
               settled == [turn EXCEPT ![s][task[t][2]] = Over(TurnOutcome(t))]
           IN  turn' = IF moves THEN Moved(settled, s) ELSE settled
    BY DEF ApplyTurn
  <1> QED
    BY <1>1, <1>2, <1>3, SettledTurns

LEMMA ApplyTurnIInv == ASSUME IInv, NEW t \in Threads, ApplyTurn(t) PROVE IInv'
  <1>1. Release(t) /\ TurnsTypeOK(turn')
    BY ApplyTurnTurns DEF ApplyTurn
  <1>2. AfterWait(t) \in Intervals
    BY AfterWaitOK
  <1>3. TypeOK'
    <2>1. /\ pc' \in [Threads -> {"idle", "admitted", "thinking"}]
          /\ task' \in [Threads -> (Situations \X Requests) \cup {NoTask}]
      BY <1>1, ReleaseOK
    <2>2. /\ cycle' \in {"active", "paused", "interrupted", "collection_closed"}
          /\ session' \in {"prepared", "active", "paused", "interrupted", "completed"}
          /\ open' \in Intervals /\ lease' \in {"none", "live", "lapsed", "old"}
      BY <1>2 DEF IInv, ApplyTurn, TypeOK, LeaseAtStart, Intervals
    <2> QED
      BY <1>1, <2>1, <2>2 DEF IInv, ApplyTurn, TypeOK, TurnsTypeOK, routeVars
  <1>4. TaskOK'
    BY <1>1, ReleaseOK
  <1>5. HandedIsClosed' /\ SessionFollowsCycle' /\ RouteOK'
    BY DEF IInv, ApplyTurn, HandedIsClosed, SessionFollowsCycle, RouteOK, routeVars
  <1>6. TimeFollowsCycle'
    BY AfterWaitOK DEF IInv, ApplyTurn, TimeFollowsCycle
  <1> QED
    BY <1>3, <1>4, <1>5, <1>6 DEF IInv

LEMMA FailTurnTurns ==
    ASSUME IInv, NEW t \in Threads, FailTurn(t)
    PROVE  /\ TurnsTypeOK(turn')
           /\ turn'[task[t][1]][task[t][2]].status = "failed"
           /\ \A q \in Situations, r \in Requests :
                 <<q, r>> # task[t] => turn'[q][r].status = turn[q][r].status
  <1>1. pc[t] = "thinking"
    BY DEF FailTurn
  <1>2. \E moves \in BOOLEAN :
           LET s == task[t][1]
               settled == [turn EXCEPT ![s][task[t][2]] = Over("failed")]
           IN  turn' = IF moves THEN Moved(settled, s) ELSE settled
    <2>1. turn' = [turn EXCEPT ![task[t][1]][task[t][2]] = Over("failed")]
      BY DEF FailTurn
    <2> WITNESS FALSE \in BOOLEAN
    <2> QED
      BY <2>1
  <1> QED
    BY <1>1, <1>2, SettledTurns

LEMMA FailTurnIInv == ASSUME IInv, NEW t \in Threads, FailTurn(t) PROVE IInv'
  <1>1. Release(t) /\ TurnsTypeOK(turn')
    BY FailTurnTurns DEF FailTurn
  <1>2. AfterWait(t) \in Intervals
    BY AfterWaitOK
  <1>3. TypeOK'
    BY <1>1, <1>2, ReleaseOK
    DEF IInv, FailTurn, TypeOK, TurnsTypeOK, LeaseAtStart, cycleVars, routeVars
  <1>4. TaskOK'
    BY <1>1, ReleaseOK
  <1>5. HandedIsClosed' /\ SessionFollowsCycle' /\ RouteOK'
    BY DEF IInv, FailTurn, HandedIsClosed, SessionFollowsCycle, RouteOK, cycleVars, routeVars
  <1>6. TimeFollowsCycle'
    BY AfterWaitOK DEF IInv, FailTurn, TimeFollowsCycle, cycleVars
  <1> QED
    BY <1>3, <1>4, <1>5, <1>6 DEF IInv

-----------------------------------------------------------------------------
(* The commands of the participant, and the sweep. *)

LEMMA TransitionIInv ==
    ASSUME IInv, NEW action, Transition(action) PROVE IInv'
  <1>1. PICK step \in ScenarioTransitions :
           /\ step[1] = situation[current]
           /\ situation' = [situation EXCEPT ![current] = step[3]]
    BY DEF Transition
  <1>2. /\ step[1] \notin {"closed", "absent"}
        /\ step[3] \in {"active", "paused", "scenario_ended", "terminated", "closed"}
    BY DEF ScenarioTransitions
  <1>3. TurnsTypeOK(turn')
    BY MovedOK DEF Transition, IInv, TypeOK, TurnsTypeOK
  <1>4. asked' \in BOOLEAN
    BY DEF Transition, IInv, TypeOK
  <1>5. TypeOK'
    <2>1. situation' \in [Situations -> {"absent", "admitted", "active", "paused",
                                        "scenario_ended", "terminated", "closed"}]
      BY <1>1, <1>2 DEF IInv, TypeOK
    <2> QED
      BY <2>1, <1>3, <1>4
      DEF Transition, IInv, TypeOK, TurnsTypeOK, cycleVars, returnVars
  <1>6. RouteOK' /\ HandedIsClosed'
    BY <1>1, <1>2
    DEF Transition, IInv, TypeOK, RouteOK, HandedIsClosed, cycleVars, Situations
  <1>7. TaskOK' /\ SessionFollowsCycle' /\ TimeFollowsCycle'
    BY DEF Transition, IInv, TaskOK, SessionFollowsCycle, TimeFollowsCycle, cycleVars
  <1> QED
    BY <1>5, <1>6, <1>7 DEF IInv

(* Pausing and resuming change the situation together with its turns.      *)
LEMMA ControlIInv ==
    ASSUME IInv, PauseCycle \/ ResumeCycle \/ FinishSituation PROVE IInv'
  <1>1. TurnsTypeOK(turn')
    BY MovedOK DEF PauseCycle, ResumeCycle, FinishSituation, IInv, TypeOK, TurnsTypeOK
  <1>2. TypeOK'
    BY <1>1 DEF PauseCycle, ResumeCycle, FinishSituation, StartCollecting, LeaseAtStart,
                IInv, TypeOK, TurnsTypeOK, Intervals, returnVars
  <1>3. RouteOK' /\ HandedIsClosed'
    BY DEF PauseCycle, ResumeCycle, FinishSituation, IInv, TypeOK, RouteOK,
           HandedIsClosed, Situations
  <1>4. TaskOK' /\ SessionFollowsCycle' /\ TimeFollowsCycle'
    BY DEF PauseCycle, ResumeCycle, FinishSituation, StartCollecting, IInv, TaskOK,
           SessionFollowsCycle, TimeFollowsCycle
  <1> QED
    BY <1>2, <1>3, <1>4 DEF IInv

(* Closing the collection closes what was presented, for good.             *)
LEMMA CloseIInv ==
    ASSUME IInv, Complete \/ Interrupt PROVE IInv'
  <1>1. TurnsTypeOK(turn')
    BY MovedOK DEF Complete, Interrupt, CloseCollection, IInv, TypeOK, TurnsTypeOK
  <1>2. TypeOK'
    BY <1>1 DEF Complete, Interrupt, CloseCollection, IInv, TypeOK, TurnsTypeOK,
                Intervals, returnVars
  <1>3. RouteOK' /\ HandedIsClosed'
    BY DEF Complete, Interrupt, CloseCollection, Presented, IInv, TypeOK, RouteOK,
           HandedIsClosed, Situations
  <1>4. TaskOK' /\ SessionFollowsCycle' /\ TimeFollowsCycle'
    BY DEF Complete, Interrupt, CloseCollection, IInv, TaskOK, SessionFollowsCycle,
           TimeFollowsCycle
  <1> QED
    BY <1>2, <1>3, <1>4 DEF IInv

(* The place of the next situation on the route, where nothing is yet.     *)
LEMMA NextPlace ==
    ASSUME IInv, AttachNext
    PROVE  current + 1 \in Situations /\ situation[current + 1] = "absent"
  <1>1. current \in Nat /\ current + 1 \in Situations /\ current + 1 > current
    BY RouteAssumption DEF AttachNext, IInv, TypeOK, Situations
  <1> QED
    BY <1>1 DEF IInv, RouteOK

LEMMA AttachIInv == ASSUME IInv, AttachNext PROVE IInv'
  <1>1. current + 1 \in Situations
    BY NextPlace
  <1>2. TypeOK'
    BY <1>1 DEF AttachNext, IInv, TypeOK, cycleVars, turnVars
  <1>3. RouteOK'
    <2>1. current \in Nat
      BY DEF IInv, TypeOK, Situations
    <2>2. ASSUME NEW s \in Situations, s > current' PROVE situation'[s] = "absent"
      <3>1. s > current /\ s # current + 1 /\ s \in Nat
        BY <2>1, <2>2 DEF AttachNext, Situations
      <3> QED
        BY <3>1 DEF AttachNext, IInv, TypeOK, RouteOK
    <2> QED
      BY <2>2 DEF AttachNext, RouteOK
  <1>4. HandedIsClosed'
    BY NextPlace DEF AttachNext, IInv, TypeOK, HandedIsClosed
  <1>5. TaskOK' /\ SessionFollowsCycle' /\ TimeFollowsCycle'
    BY DEF AttachNext, IInv, TaskOK, SessionFollowsCycle, TimeFollowsCycle, cycleVars,
           turnVars
  <1> QED
    BY <1>2, <1>3, <1>4, <1>5 DEF IInv

LEMMA PresentIInv == ASSUME IInv, PresentNext PROVE IInv'
  <1>1. open' \in Intervals /\ lease' \in {"none", "live", "lapsed", "old"}
    BY DEF PresentNext, StartCollecting, LeaseAtStart, IInv, TypeOK, Intervals, Terminal
  <1>2. TypeOK'
    BY <1>1 DEF PresentNext, IInv, TypeOK, turnVars
  <1>3. RouteOK' /\ HandedIsClosed'
    BY DEF PresentNext, IInv, TypeOK, RouteOK, HandedIsClosed, Situations
  <1>4. TaskOK' /\ SessionFollowsCycle'
    BY DEF PresentNext, IInv, TaskOK, SessionFollowsCycle, turnVars
  <1>5. TimeFollowsCycle'
    BY DEF PresentNext, StartCollecting, Terminal, IInv, TypeOK, TimeFollowsCycle
  <1> QED
    BY <1>2, <1>3, <1>4, <1>5 DEF IInv

LEMMA AddSessionIInv == ASSUME IInv, AddSession PROVE IInv'
  BY DEF AddSession, IInv, TypeOK, TaskOK, RouteOK, HandedIsClosed, SessionFollowsCycle,
         TimeFollowsCycle, routeVars, turnVars, returnVars

(* The steps that only move the limits or the question. *)
LEMMA QuestionIInv == ASSUME IInv, LimitReached \/ Ask \/ Respond PROVE IInv'
  <1>1. /\ UNCHANGED <<cycle, session, intent, open, routeVars, turnVars, returnVars>>
        /\ late' \in BOOLEAN /\ asked' \in BOOLEAN
    BY DEF LimitReached, Ask, Respond, IInv, TypeOK, cycleVars
  <1>2. TypeOK'
    BY <1>1 DEF IInv, TypeOK, routeVars, turnVars, returnVars
  <1>3. RouteOK' /\ HandedIsClosed' /\ TaskOK' /\ SessionFollowsCycle' /\ TimeFollowsCycle'
    BY <1>1 DEF IInv, TaskOK, RouteOK, HandedIsClosed, SessionFollowsCycle,
                TimeFollowsCycle, routeVars, turnVars
  <1> QED
    BY <1>2, <1>3 DEF IInv

LEMMA NextIInv == IInv /\ [Next]_vars => IInv'
  <1> SUFFICES ASSUME IInv, [Next]_vars PROVE IInv'
    OBVIOUS
  <1>1. CASE Poll \/ Heartbeat \/ LeaseLapses \/ Continue
    BY <1>1, ReturnIInv
  <1>2. CASE PauseCycle \/ ResumeCycle \/ FinishSituation
    BY <1>2, ControlIInv
  <1>3. CASE Complete \/ Interrupt \/ Expire
    BY <1>3, CloseIInv DEF Expire
  <1>4. CASE AddSession \/ AttachNext \/ PresentNext
    BY <1>4, AddSessionIInv, AttachIInv, PresentIInv
  <1>5. CASE \E action \in {step[2] : step \in ScenarioTransitions} : Transition(action)
    BY <1>5, TransitionIInv
  <1>6. CASE LimitReached \/ Ask \/ Respond
    BY <1>6, QuestionIInv
  <1>7. CASE \E s \in Situations, r \in Requests : TurnAges(s, r)
    BY <1>7, TurnAgesIInv
  <1>8. ASSUME NEW t \in Threads, Thread(t) PROVE IInv'
    BY <1>8, RequestTurnIInv, BeginTurnIInv, LeaveTurnIInv, ApplyTurnIInv, FailTurnIInv
    DEF Thread
  <1>9. CASE UNCHANGED vars
    BY <1>9 DEF vars, cycleVars, routeVars, turnVars, returnVars, IInv, TypeOK, TaskOK,
                RouteOK, HandedIsClosed, SessionFollowsCycle, TimeFollowsCycle
  <1> QED
    BY <1>1, <1>2, <1>3, <1>4, <1>5, <1>6, <1>7, <1>8, <1>9 DEF Next, Participant, System

(* The inductive invariant holds of every reachable state. *)
THEOREM IInvHolds == Spec => []IInv
  BY InitIInv, NextIInv, PTL DEF Spec

(* The rows of the cycle, its dialogue and its absences have their types    *)
(* (database.py, the m5 and m7 tables).                                     *)
THEOREM TypeCorrect == Spec => []TypeOK
  <1>1. IInv => TypeOK
    BY DEF IInv
  <1> QED
    BY <1>1, IInvHolds, PTL

(* On every path the session and its cycle change together                  *)
(* (m5_cycle_runtime.transition_session, m7_completion.complete).           *)
THEOREM SessionFollows == Spec => []SessionFollowsCycle
  <1>1. IInv => SessionFollowsCycle
    BY DEF IInv
  <1> QED
    BY <1>1, IInvHolds, PTL

(* No late answer, return or heartbeat starts the clock of a cycle that is  *)
(* not active (m5_cycle_runtime.end_blocking_wait).                         *)
THEOREM TimeFollows == Spec => []TimeFollowsCycle
  <1>1. IInv => TimeFollowsCycle
    BY DEF IInv
  <1> QED
    BY <1>1, IInvHolds, PTL

-----------------------------------------------------------------------------
(* What no step may do. *)

(* A closed collection, a closed situation and a final handoff stay.       *)
LEMMA ClosedStep ==
    ASSUME IInv, [Next]_vars
    PROVE  /\ cycle = "collection_closed" => cycle' = "collection_closed"
           /\ \A s \in Situations : situation[s] = "closed" => situation'[s] = "closed"
           /\ \A s \in Situations : handed[s] => handed'[s]
  <1> DEFINE Stays ==
        /\ cycle = "collection_closed" => cycle' = "collection_closed"
        /\ \A s \in Situations : situation[s] = "closed" => situation'[s] = "closed"
        /\ \A s \in Situations : handed[s] => handed'[s]
  <1> SUFFICES Stays
    OBVIOUS
  <1>1. CASE PauseCycle \/ ResumeCycle \/ FinishSituation
    BY <1>1 DEF PauseCycle, ResumeCycle, FinishSituation, Terminal, IInv, TypeOK
  <1>2. CASE Complete \/ Interrupt \/ Expire
    BY <1>2 DEF Complete, Interrupt, Expire, CloseCollection, Terminal, IInv, TypeOK
  <1>3. CASE AttachNext
    BY <1>3, NextPlace DEF AttachNext, cycleVars, IInv, TypeOK
  <1>4. CASE PresentNext
    BY <1>4 DEF PresentNext, Terminal, IInv, TypeOK
  <1>5. ASSUME NEW action, Transition(action) PROVE Stays
    <2>1. PICK step \in ScenarioTransitions :
             /\ step[1] = situation[current]
             /\ situation' = [situation EXCEPT ![current] = step[3]]
      BY <1>5 DEF Transition
    <2>2. step[1] # "closed"
      BY DEF ScenarioTransitions
    <2> QED
      BY <2>1, <2>2, <1>5 DEF Transition, cycleVars, IInv, TypeOK
  <1>6. ASSUME NEW t \in Threads, Thread(t) PROVE Stays
    BY <1>6 DEF Thread, RequestTurn, BeginTurn, RefuseTurn, ApplyTurn, FailTurn, DropTurn,
                LoseTurn, cycleVars, routeVars
  <1>7. CASE Poll \/ Heartbeat \/ LeaseLapses \/ Continue \/ LimitReached \/ Ask \/ Respond
    BY <1>7 DEF Poll, Heartbeat, LeaseLapses, Continue, LimitReached, Ask, Respond,
                cycleVars, routeVars
  <1>8. CASE AddSession
    BY <1>8 DEF AddSession, routeVars
  <1>9. CASE \E s \in Situations, r \in Requests : TurnAges(s, r)
    BY <1>9 DEF TurnAges, cycleVars, routeVars
  <1>10. CASE UNCHANGED vars
    BY <1>10 DEF vars, cycleVars, routeVars
  <1> HIDE DEF Stays
  <1> QED
    BY <1>1, <1>2, <1>3, <1>4, <1>5, <1>6, <1>7, <1>8, <1>9, <1>10
    DEF Next, Participant, System

(* Nothing reopens a closed collection or a closed situation, whatever      *)
(* command, late answer or return comes after (m7_completion.complete).     *)
THEOREM ClosedStays == Spec => ClosedStaysClosed
  <1>1. IInv /\ [Next]_vars =>
            [/\ cycle = "collection_closed" => cycle' = "collection_closed"
             /\ \A s \in Situations : situation[s] = "closed" => situation'[s] = "closed"
             /\ \A s \in Situations : handed[s] => handed'[s]]_vars
    BY ClosedStep
  <1> QED
    BY <1>1, IInvHolds, PTL DEF Spec, ClosedStaysClosed

(* A turn of a situation that was handed over is not stored or applied.    *)
LEMMA FrozenStep ==
    ASSUME IInv, [Next]_vars, NEW s \in Situations, NEW r \in Requests,
           handed[s], turn'[s][r] # turn[s][r]
    PROVE  \/ turn'[s][r].status \notin {"pending", "applied"}
           \/ turn'[s][r].status = turn[s][r].status
  <1> DEFINE Frozen == \/ turn'[s][r].status \notin {"pending", "applied"}
                       \/ turn'[s][r].status = turn[s][r].status
  <1> SUFFICES Frozen
    OBVIOUS
  <1>0. situation[s] = "closed"
    BY DEF IInv, HandedIsClosed
  <1>1. ASSUME NEW q \in Situations, turn' = Moved(turn, q) \/ turn' = turn PROVE Frozen
    <2>1. TurnsTypeOK(turn)
      BY DEF IInv, TypeOK, TurnsTypeOK
    <2>2. Moved(turn, q)[s][r].status = turn[s][r].status
      BY <2>1, MovedOK
    <2> QED
      BY <1>1, <2>2
  <1>2. ASSUME NEW t \in Threads, BeginTurn(t) PROVE Frozen
    <2>1. task[t][1] \in Situations /\ task[t][2] \in Requests /\ task[t][1] # s
      BY <1>0, <1>2, TaskTypes DEF BeginTurn
    <2> QED
      BY <1>2, <2>1 DEF BeginTurn, IInv, TypeOK
  <1>3. ASSUME NEW t \in Threads, ApplyTurn(t) PROVE Frozen
    <2>1. task[t] \in Situations \X Requests /\ task[t] = <<task[t][1], task[t][2]>>
      BY <1>3, TaskTypes DEF ApplyTurn
    <2>2. CASE task[t] = <<s, r>>
      <3>1. TurnOutcome(t) # "applied"
        BY <2>2, <1>0 DEF TurnOutcome
      <3>2. TurnOutcome(t) \in {"rejected_late", "failed"}
        BY <3>1, OutcomeOK
      <3>3. turn'[s][r].status = TurnOutcome(t)
        BY <2>2, <1>3, ApplyTurnTurns
      <3> QED
        BY <3>2, <3>3
    <2>3. CASE task[t] # <<s, r>>
      BY <2>3, <1>3, ApplyTurnTurns
    <2> QED
      BY <2>2, <2>3
  <1>4. ASSUME NEW t \in Threads, FailTurn(t) PROVE Frozen
    <2>1. CASE task[t] = <<s, r>>
      BY <2>1, <1>4, FailTurnTurns
    <2>2. CASE task[t] # <<s, r>>
      BY <2>2, <1>4, FailTurnTurns
    <2> QED
      BY <2>1, <2>2
  <1>5. ASSUME NEW q \in Situations, NEW p \in Requests, TurnAges(q, p) PROVE Frozen
    <2>1. turn[q][p] \in Operation
      BY DEF IInv, TypeOK
    <2>2. [turn[q][p] EXCEPT !.recent = FALSE].status = turn[q][p].status
      BY <2>1 DEF Operation
    <2> QED
      BY <1>5, <2>2 DEF TurnAges, IInv, TypeOK
  <1>6. ASSUME NEW action, Transition(action) PROVE Frozen
    BY <1>6, <1>1 DEF Transition, IInv, TypeOK
  <1>7. CASE PauseCycle \/ ResumeCycle \/ FinishSituation
    BY <1>7, <1>1 DEF PauseCycle, ResumeCycle, FinishSituation, IInv, TypeOK
  <1>8. CASE Complete \/ Interrupt \/ Expire
    BY <1>8, <1>1 DEF Complete, Interrupt, Expire, CloseCollection, IInv, TypeOK
  <1>9. CASE turn' = turn
    BY <1>9
  <1> HIDE DEF Frozen
  <1> QED
    BY <1>2, <1>3, <1>4, <1>5, <1>6, <1>7, <1>8, <1>9
    DEF Next, Participant, System, Thread, vars, turnVars, Poll, Heartbeat, LeaseLapses,
        Continue, LimitReached, Ask, Respond, AddSession, AttachNext, PresentNext,
        RequestTurn, RefuseTurn, DropTurn, LoseTurn

(* The dialogue of a situation that was handed over is frozen: the late     *)
(* answer of a provider does not change what is evaluated                   *)
(* (m5_scenario_runtime.submit_turn_detached).                              *)
THEOREM HandedFrozen == Spec => HandedDialogueIsFrozen
  <1>1. IInv /\ [Next]_vars =>
            [\A s \in Situations, r \in Requests :
                 handed[s] /\ turn'[s][r] # turn[s][r] =>
                     turn'[s][r].status \notin {"pending", "applied"}
                         \/ turn'[s][r].status = turn[s][r].status]_vars
    BY FrozenStep
  <1> QED
    BY <1>1, IInvHolds, PTL DEF Spec, HandedDialogueIsFrozen
-----------------------------------------------------------------------------
(* A turn that still takes effect is inside its own wait. *)

(* A pending operation of a state that has not moved since it was begun.    *)
Live(turns, s, r) == turns[s][r].status = "pending" /\ turns[s][r].unchanged

(* What is behind the current situation is closed.  The wait of a live      *)
(* operation is the open one, and a thread that thinks under its token      *)
(* thinks about it.                                                         *)
WaitInv ==
    /\ IInv
    /\ \A s \in Situations : s < current => situation[s] = "closed"
    /\ \A s \in Situations, r \in Requests : Live(turn, s, r) =>
          /\ situation[s] = "active"
          /\ turn[s][r].token \in Threads /\ open = turn[s][r].token
          /\ \A t \in Threads :
                pc[t] = "thinking" /\ turn[s][r].token = t => task[t] = <<s, r>>

LEMMA LiveIsCurrent ==
    ASSUME WaitInv, NEW s \in Situations, NEW r \in Requests, Live(turn, s, r)
    PROVE  s = current /\ situation[s] = "active" /\ open \in Threads
           /\ cycle = "active" /\ session = "active"
  <1>1. situation[s] = "active" /\ open \in Threads
    BY DEF WaitInv
  <1>2. s = current
    BY <1>1, RouteAssumption DEF WaitInv, IInv, TypeOK, RouteOK, Situations
  <1>3. cycle = "active"
    BY <1>1, ThreadAssumption DEF WaitInv, IInv, TypeOK, TimeFollowsCycle
  <1> QED
    BY <1>1, <1>2, <1>3 DEF WaitInv, IInv, SessionFollowsCycle

(* A new revision is the end of the situation's live operations. *)
LEMMA MovedLive ==
    ASSUME NEW turns, TurnsTypeOK(turns), NEW q \in Situations,
           NEW s \in Situations, NEW r \in Requests, Live(Moved(turns, q), s, r)
    PROVE  s # q /\ Moved(turns, q)[s][r] = turns[s][r]
  <1>1. s # q
    <2>1. ASSUME s = q PROVE ~Moved(turns, q)[s][r].unchanged
      <3>1. Moved(turns, q)[s][r] = [turns[s][r] EXCEPT !.unchanged = FALSE]
        BY <2>1 DEF Moved, TurnsTypeOK
      <3>2. turns[s][r] \in Operation
        BY DEF TurnsTypeOK
      <3> QED
        BY <3>1, <3>2 DEF Operation
    <2> QED
      BY <2>1 DEF Live
  <1> QED
    BY <1>1 DEF Moved, TurnsTypeOK

(* What an attempt settles is not live any more, and nothing else becomes so. *)
LEMMA SettledLive ==
    ASSUME IInv, NEW t \in Threads, ApplyTurn(t) \/ FailTurn(t),
           NEW s \in Situations, NEW r \in Requests, Live(turn', s, r)
    PROVE  <<s, r>> # task[t] /\ turn'[s][r] = turn[s][r]
  <1> DEFINE settled(status) == [turn EXCEPT ![task[t][1]][task[t][2]] = Over(status)]
  <1>1. task[t][1] \in Situations /\ task[t][2] \in Requests /\ task[t] = <<task[t][1], task[t][2]>>
    <2>1. pc[t] = "thinking"
      BY DEF ApplyTurn, FailTurn
    <2>2. task[t] \in Situations \X Requests
      BY <2>1, TaskTypes
    <2> QED
      BY <2>2
  <1>2. <<s, r>> # task[t]
    <2>1. turn'[task[t][1]][task[t][2]].status # "pending"
      BY ApplyTurnTurns, FailTurnTurns, OutcomeOK
    <2> QED
      BY <1>1, <2>1 DEF Live
  <1>3. PICK status \in {"applied", "rejected_late", "failed"} :
            turn' = settled(status) \/ turn' = Moved(settled(status), task[t][1])
    <2>1. CASE ApplyTurn(t)
      BY <2>1, OutcomeOK DEF ApplyTurn
    <2>2. CASE FailTurn(t)
      BY <2>2 DEF FailTurn
    <2> QED
      BY <2>1, <2>2
  <1>4. TurnsTypeOK(settled(status)) /\ settled(status)[s][r] = turn[s][r]
    <2>1. TurnsTypeOK(settled(status))
      BY <1>1, OverOK, SetTurnOK
    <2>2. settled(status)[s][r] = turn[s][r]
      BY <1>1, <1>2 DEF IInv, TypeOK
    <2> QED
      BY <2>1, <2>2
  <1>5. turn'[s][r] = settled(status)[s][r]
    <2> HIDE DEF settled
    <2> QED
      BY <1>1, <1>3, <1>4, MovedLive
  <1> QED
    BY <1>2, <1>4, <1>5

LEMMA NextEarlierClosed ==
    ASSUME WaitInv, [Next]_vars, NEW s \in Situations, s < current'
    PROVE  situation'[s] = "closed"
  <1>1. CASE AttachNext
    <2>1. s <= current
      BY <1>1, RouteAssumption DEF AttachNext, WaitInv, IInv, TypeOK, Situations
    <2>2. situation[s] = "closed"
      BY <1>1, <2>1, RouteAssumption DEF AttachNext, WaitInv, IInv, TypeOK, Situations
    <2> QED
      BY <2>2, ClosedStep DEF WaitInv
  <1>2. CASE current' = current
    BY <1>2, ClosedStep DEF WaitInv
  <1> QED
    BY <1>1, <1>2
    DEF Next, Participant, System, Thread, vars, routeVars, Poll, Heartbeat, LeaseLapses,
        Continue, LimitReached, Ask, Respond, AddSession, PresentNext, RequestTurn, BeginTurn,
        RefuseTurn, ApplyTurn, FailTurn, DropTurn, LoseTurn, TurnAges, Transition, PauseCycle,
        ResumeCycle, FinishSituation, Complete, Interrupt, Expire, CloseCollection

LEMMA NextLive ==
    ASSUME WaitInv, [Next]_vars, NEW s \in Situations, NEW r \in Requests, Live(turn', s, r)
    PROVE  /\ situation'[s] = "active"
           /\ turn'[s][r].token \in Threads /\ open' = turn'[s][r].token
           /\ \A t \in Threads :
                pc'[t] = "thinking" /\ turn'[s][r].token = t => task'[t] = <<s, r>>
  <1> DEFINE Waits ==
        /\ situation'[s] = "active"
        /\ turn'[s][r].token \in Threads /\ open' = turn'[s][r].token
        /\ \A t \in Threads :
             pc'[t] = "thinking" /\ turn'[s][r].token = t => task'[t] = <<s, r>>
  <1> SUFFICES Waits
    OBVIOUS
  <1>0. IInv /\ TurnsTypeOK(turn)
    BY DEF WaitInv, IInv, TypeOK, TurnsTypeOK
  (* Steps under which an operation stays live and its wait open. *)
  <1>1. ASSUME Live(turn, s, r), turn'[s][r].token = turn[s][r].token,
               situation' = situation, open' = open,
               \A t \in Threads : pc'[t] = "thinking" =>
                   pc[t] = "thinking" /\ task'[t] = task[t]
        PROVE  Waits
    BY <1>1 DEF WaitInv
  <1> HIDE DEF Waits
  <1>2. ASSUME NEW u \in Threads, BeginTurn(u) PROVE Waits
    <2>1. /\ task[u][1] \in Situations /\ task[u][2] \in Requests
          /\ task[u] = <<task[u][1], task[u][2]>>
      BY <1>0, <1>2, TaskTypes DEF BeginTurn
    <2>2. CASE <<s, r>> = task[u]
      <3>1. turn'[s][r].token = u /\ situation'[s] = "active" /\ open' = u /\ task' = task
        BY <1>0, <1>2, <2>1, <2>2 DEF BeginTurn, IInv, TypeOK, routeVars
      <3> QED
        BY <2>2, <3>1 DEF Waits
    <2>3. CASE <<s, r>> # task[u]
      <3>1. turn'[s][r] = turn[s][r]
        BY <1>0, <1>2, <2>1, <2>3 DEF BeginTurn, IInv, TypeOK
      <3>2. open \in Threads
        BY <3>1, LiveIsCurrent DEF Live
      <3> QED
        BY <1>2, <3>2 DEF BeginTurn, Collecting, Blocking
    <2> QED
      BY <2>2, <2>3
  <1>3. ASSUME NEW u \in Threads, ApplyTurn(u) \/ FailTurn(u) PROVE Waits
    <2>1. <<s, r>> # task[u] /\ turn'[s][r] = turn[s][r] /\ pc[u] = "thinking"
      BY <1>0, <1>3, SettledLive DEF ApplyTurn, FailTurn
    <2>2. Live(turn, s, r)
      BY <2>1 DEF Live
    <2>3. open \in Threads /\ open # u
      BY <2>1, <2>2 DEF WaitInv
    <2>4. AfterWait(u) = open
      BY <1>0, <2>3, AfterWaitOK
    <2>5. open' = open /\ situation' = situation /\ Release(u)
      <3>1. ~ClosedByTurn(u)
        BY <2>3, <2>4 DEF ClosedByTurn, Blocking
      <3> QED
        BY <1>3, <2>4, <3>1 DEF ApplyTurn, FailTurn, routeVars
    <2>6. \A t \in Threads : pc'[t] = "thinking" => pc[t] = "thinking" /\ task'[t] = task[t]
      BY <1>0, <2>5 DEF Release, IInv, TypeOK
    <2> QED
      BY <1>1, <2>1, <2>2, <2>5, <2>6
  <1>4. ASSUME NEW u \in Threads,
               (\E q \in Requests : RequestTurn(u, q)) \/ RefuseTurn(u) \/ DropTurn(u) \/ LoseTurn(u)
        PROVE  Waits
    <2>1. turn' = turn /\ situation' = situation /\ open' = open
      BY <1>4 DEF RequestTurn, RefuseTurn, DropTurn, LoseTurn, routeVars
    <2>2. \A t \in Threads : pc'[t] = "thinking" => pc[t] = "thinking" /\ task'[t] = task[t]
      BY <1>0, <1>4 DEF RequestTurn, RefuseTurn, DropTurn, LoseTurn, Release, IInv, TypeOK
    <2> QED
      BY <1>1, <2>1, <2>2
  <1>5. ASSUME NEW q \in Situations, NEW p \in Requests, TurnAges(q, p) PROVE Waits
    <2>1. /\ turn'[s][r].status = turn[s][r].status /\ turn'[s][r].token = turn[s][r].token
          /\ turn'[s][r].unchanged = turn[s][r].unchanged
      <3>1. turn[s][r] \in Operation
        BY <1>0 DEF TurnsTypeOK
      <3>2. turn'[s][r] = turn[s][r] \/ turn'[s][r] = [turn[s][r] EXCEPT !.recent = FALSE]
        BY <1>0, <1>5 DEF TurnAges, TurnsTypeOK
      <3> QED
        BY <3>1, <3>2 DEF Operation
    <2> QED
      BY <1>1, <1>5, <2>1 DEF TurnAges, Live, routeVars
  <1>6. CASE Poll \/ Heartbeat \/ Continue
    <2>1. UNCHANGED <<turn, pc, task, situation>> /\ Live(turn, s, r)
      BY <1>6 DEF Poll, Heartbeat, Continue, turnVars, routeVars, Live
    <2>2. open \in Threads
      BY <2>1, LiveIsCurrent
    <2>3. OpenThen = open /\ open # "return"
      BY <2>2, ThreadAssumption DEF OpenThen, WaitInserted
    <2>4. open' = open
      BY <1>6, <2>3 DEF Poll, Heartbeat, Continue
    <2> QED
      BY <1>1, <2>1, <2>4
  <1>7. CASE \/ LimitReached \/ LeaseLapses \/ Ask \/ Respond \/ AddSession \/ UNCHANGED vars
    BY <1>1, <1>7
    DEF LimitReached, LeaseLapses, Ask, Respond, AddSession, vars, routeVars, turnVars, Live
  (* Steps that no live operation survives. *)
  <1>8. ASSUME turn' = Moved(turn, current) PROVE FALSE
    <2>1. s # current /\ turn'[s][r] = turn[s][r]
      BY <1>0, <1>8, MovedLive DEF IInv, TypeOK
    <2> QED
      BY <2>1, LiveIsCurrent DEF Live
  <1>9. ASSUME turn' = turn
        PROVE  /\ situation[current] = "active" /\ cycle = "active" /\ session = "active"
               /\ s = current
    BY <1>9, LiveIsCurrent DEF Live
  <1>10. ASSUME NEW action, Transition(action) PROVE FALSE
    BY <1>8, <1>10 DEF Transition
  <1>11. CASE PauseCycle \/ ResumeCycle \/ FinishSituation
    BY <1>8, <1>9, <1>11 DEF PauseCycle, ResumeCycle, FinishSituation
  <1>12. CASE Complete \/ Interrupt \/ Expire
    BY <1>8, <1>12 DEF Complete, Interrupt, Expire, CloseCollection
  <1>13. CASE AttachNext \/ PresentNext
    BY <1>9, <1>13 DEF AttachNext, PresentNext, turnVars
  <1> QED
    BY <1>2, <1>3, <1>4, <1>5, <1>6, <1>7, <1>10, <1>11, <1>12, <1>13
    DEF Next, Participant, System, Thread

LEMMA WaitInvHolds == Spec => []WaitInv
  <1>1. Init => WaitInv
    BY InitIInv, NoOperationOK DEF Init, WaitInv, Live, NoOperation, Situations
  <1>2. WaitInv /\ [Next]_vars => WaitInv'
    BY NextIInv, NextEarlierClosed, NextLive DEF WaitInv
  <1> QED
    BY <1>1, <1>2, PTL DEF Spec

(* An attempt whose answer would be applied is inside its own wait: nothing *)
(* that ends the wait leaves the state as it was                            *)
(* (m5_scenario_runtime.submit_turn_detached).                              *)
THEOREM EffectiveWaits == Spec => []EffectiveTurnHasWait
  <1>1. WaitInv => EffectiveTurnHasWait
    <2> SUFFICES ASSUME WaitInv, NEW t \in Threads, pc[t] = "thinking", HoldsTurn(t),
                        TurnOutcome(t) = "applied"
                 PROVE  open = t
      BY DEF EffectiveTurnHasWait
    <2>1. task[t][1] \in Situations /\ task[t][2] \in Requests
      BY TaskTypes DEF WaitInv
    <2>2. Live(turn, task[t][1], task[t][2]) /\ turn[task[t][1]][task[t][2]].token = t
      BY DEF HoldsTurn, TurnOutcome, Live
    <2> QED
      BY <2>1, <2>2 DEF WaitInv
  <1> QED
    BY <1>1, WaitInvHolds, PTL
-----------------------------------------------------------------------------
(* What holds of the two findings all the same.                             *)

(* The return wait is inserted with its absence, and Continue ends both.    *)
ReturnWaits == open = "return" => absence = "waiting"

LEMMA NextReturnWaits == ASSUME IInv, ReturnWaits, [Next]_vars PROVE ReturnWaits'
  <1>1. CASE Poll \/ Heartbeat
    BY <1>1 DEF Poll, Heartbeat, ReturnWaits, AbsenceThen, OpenThen, Recognizable
  <1>2. CASE Continue
    BY <1>2 DEF Continue, ReturnWaits, AbsenceThen, OpenThen, Recognizable, CollectionOpen
  <1>3. ASSUME NEW t \in Threads, Thread(t) PROVE ReturnWaits'
    <2>1. absence' = absence
      BY <1>3 DEF Thread, RequestTurn, BeginTurn, RefuseTurn, ApplyTurn, FailTurn, DropTurn,
                  LoseTurn, returnVars
    <2>2. open' \in {open, t, "none", "collecting"}
      BY <1>3 DEF Thread, RequestTurn, BeginTurn, RefuseTurn, ApplyTurn, FailTurn, DropTurn,
                  LoseTurn, AfterWait
    <2> QED
      BY <2>1, <2>2, ThreadAssumption DEF ReturnWaits
  <1>4. CASE UNCHANGED <<open, absence>>
    BY <1>4 DEF ReturnWaits
  <1>5. CASE open' # "return"
    BY <1>5 DEF ReturnWaits
  <1>6. CASE \/ LeaseLapses \/ LimitReached \/ Ask \/ Respond \/ AddSession \/ AttachNext
             \/ UNCHANGED vars
    BY <1>4, <1>6
    DEF LeaseLapses, LimitReached, Ask, Respond, AddSession, AttachNext, vars, returnVars
  <1>7. CASE \/ \E s \in Situations, r \in Requests : TurnAges(s, r)
             \/ \E action \in {step[2] : step \in ScenarioTransitions} : Transition(action)
    BY <1>4, <1>7 DEF TurnAges, Transition, returnVars
  <1>8. CASE PauseCycle \/ ResumeCycle \/ FinishSituation \/ Complete \/ Interrupt \/ Expire
    BY <1>5, <1>8 DEF PauseCycle, ResumeCycle, FinishSituation, Complete, Interrupt, Expire,
                      CloseCollection, StartCollecting
  <1>9. CASE PresentNext
    <2>1. cycle \in {"active", "paused", "interrupted"} /\ absence' = absence
      BY <1>9 DEF PresentNext, Terminal, IInv, TypeOK
    <2>2. open' = open \/ open' = "collecting"
      BY <1>9, <2>1 DEF PresentNext, StartCollecting
    <2> QED
      BY <2>1, <2>2 DEF ReturnWaits
  <1> QED
    BY <1>1, <1>2, <1>3, <1>6, <1>7, <1>8, <1>9 DEF Next, Participant, System

(* A return wait always has its absence that Continue can end: it is the    *)
(* absence that may be without its wait, never the wait without its absence *)
(* (m7_return_integration: both are inserted in one transaction).           *)
THEOREM ReturnsCanBeEnded == Spec => [](open = "return" => absence = "waiting")
  <1>1. Init => ReturnWaits
    BY DEF Init, ReturnWaits
  <1>2. IInv /\ ReturnWaits /\ [Next]_vars => ReturnWaits'
    BY NextReturnWaits
  <1>3. ReturnWaits => (open = "return" => absence = "waiting")
    BY DEF ReturnWaits
  <1> QED
    BY <1>1, <1>2, <1>3, IInvHolds, PTL DEF Spec

(* Of a closed collection only the current situation can be left: what is   *)
(* behind it was closed before the next was attached, and what is after it  *)
(* is not there yet.                                                        *)
THEOREM OnlyCurrentIsLeft ==
    Spec => [](Terminal =>
                 \A s \in Situations \ {current} : situation[s] \in {"absent", "closed"})
  <1>1. WaitInv => \A s \in Situations \ {current} : situation[s] \in {"absent", "closed"}
    <2> SUFFICES ASSUME WaitInv, NEW s \in Situations, s # current
                 PROVE  situation[s] \in {"absent", "closed"}
      OBVIOUS
    <2>1. s < current \/ s > current
      BY RouteAssumption DEF WaitInv, IInv, TypeOK, Situations
    <2> QED
      BY <2>1 DEF WaitInv, IInv, RouteOK
  <1> QED
    BY <1>1, WaitInvHolds, PTL

(* A situation of the route is still to be closed. *)
SituationLeft == \E s \in Situations : situation[s] \notin {"absent", "closed"}

(* The step that closes the collection and leaves a situation is a turn's.  *)
ClosingStep ==
    ~Terminal /\ Terminal' /\ SituationLeft' =>
        \E t \in Threads : ApplyTurn(t) /\ ClosedByTurn(t)

LEMMA NextClosingStep == ASSUME IInv, [Next]_vars PROVE ClosingStep
  <1>1. CASE Complete \/ Interrupt \/ Expire
    <2>1. \A s \in Situations : situation'[s] \in {"absent", "closed"}
      BY <1>1 DEF Complete, Interrupt, Expire, CloseCollection
    <2> QED
      BY <2>1 DEF ClosingStep, SituationLeft
  <1>2. ASSUME NEW t \in Threads, ApplyTurn(t) PROVE ClosingStep
    BY <1>2 DEF ApplyTurn, ClosingStep, Terminal
  <1>3. CASE cycle' = cycle \/ cycle' # "collection_closed"
    BY <1>3 DEF ClosingStep, Terminal
  <1> QED
    BY <1>1, <1>2, <1>3
    DEF Next, Participant, System, Thread, vars, cycleVars, Poll, Heartbeat, LeaseLapses,
        Continue, LimitReached, Ask, Respond, AddSession, AttachNext, PresentNext,
        RequestTurn, BeginTurn, RefuseTurn, FailTurn, DropTurn, LoseTurn, TurnAges, Transition,
        PauseCycle, ResumeCycle, FinishSituation

(* The finding about the time limit has one cause: only the transaction of  *)
(* a turn that meets the limit (assert_collecting) closes the collection    *)
(* over a situation that is not closed; the sweep, the completion and the   *)
(* interruption close every one (m7_completion.complete).                   *)
THEOREM OnlyATurnLeavesSituations ==
    Spec => [][~Terminal /\ Terminal' /\ SituationLeft' =>
                  \E t \in Threads : ApplyTurn(t) /\ ClosedByTurn(t)]_vars
  <1>1. IInv /\ [Next]_vars =>
            [~Terminal /\ Terminal' /\ SituationLeft' =>
                \E t \in Threads : ApplyTurn(t) /\ ClosedByTurn(t)]_vars
    BY NextClosingStep DEF ClosingStep
  <1> QED
    BY <1>1, IInvHolds, PTL DEF Spec

(* Nothing appears in a collection that is closed.                          *)
LEMMA TerminalStep ==
    ASSUME IInv, [Next]_vars, Terminal, LimitClosesSituations PROVE ~SituationLeft'
  <1>1. situation[current] \in {"absent", "closed"}
    BY DEF LimitClosesSituations, IInv, TypeOK
  <1>2. situation' = situation
    <2>1. ASSUME NEW action, Transition(action) PROVE FALSE
      BY <1>1, <2>1 DEF Transition, ScenarioTransitions
    <2>2. ASSUME NEW t \in Threads, Thread(t) PROVE situation' = situation
      BY <2>2 DEF Thread, RequestTurn, BeginTurn, RefuseTurn, ApplyTurn, FailTurn, DropTurn,
                  LoseTurn, routeVars
    <2>3. CASE \/ Poll \/ Heartbeat \/ Continue \/ LimitReached \/ LeaseLapses \/ Ask \/ Respond
               \/ AddSession \/ UNCHANGED vars
      BY <2>3 DEF Poll, Heartbeat, Continue, LimitReached, LeaseLapses, Ask, Respond,
                  AddSession, vars, routeVars
    <2>4. ASSUME NEW s \in Situations, NEW r \in Requests, TurnAges(s, r)
          PROVE  situation' = situation
      BY <2>4 DEF TurnAges, routeVars
    <2>5. CASE PauseCycle \/ ResumeCycle
      BY <2>5 DEF PauseCycle, ResumeCycle
    <2>6. CASE \/ FinishSituation \/ AttachNext \/ PresentNext \/ Complete \/ Interrupt \/ Expire
      BY <2>6 DEF FinishSituation, AttachNext, PresentNext, Complete, Interrupt, Expire,
                  CloseCollection, Terminal
    <2> QED
      BY <2>1, <2>2, <2>3, <2>4, <2>5, <2>6 DEF Next, Participant, System
  <1> QED
    BY <1>2 DEF LimitClosesSituations, SituationLeft

(* Where no turn is the one to find the limit, what the contract says of    *)
(* the command time_limit holds: a closed collection has closed every       *)
(* situation (docs/architecture/m7-completion-contract.md).                 *)
THEOREM SweepClosesSituations ==
    Spec /\ [][\A t \in Threads : ApplyTurn(t) => ~ClosedByTurn(t)]_vars
        => []LimitClosesSituations
  <1>1. Init => LimitClosesSituations
    BY DEF Init, LimitClosesSituations, Terminal
  <1>2. ASSUME IInv, [Next]_vars, LimitClosesSituations,
               [\A t \in Threads : ApplyTurn(t) => ~ClosedByTurn(t)]_vars
        PROVE  LimitClosesSituations'
    <2>1. CASE Terminal
      BY <1>2, <2>1, TerminalStep DEF LimitClosesSituations, SituationLeft
    <2>2. CASE ~Terminal /\ ~UNCHANGED vars
      BY <1>2, <2>2, NextClosingStep DEF ClosingStep, LimitClosesSituations, SituationLeft
    <2>3. CASE UNCHANGED vars
      BY <1>2, <2>3 DEF vars, cycleVars, routeVars, LimitClosesSituations, Terminal
    <2> QED
      BY <2>1, <2>2, <2>3
  <1> QED
    BY <1>1, <1>2, IInvHolds, PTL DEF Spec
=============================================================================
