------------------------ MODULE ProductCycleQueueProofs ------------------------
(* Theorems about the product cycle's queue, for every value of its         *)
(* constants: its types, what overlapping attempts leave of the route and   *)
(* its situations, and that it implements FencedQueue.                      *)
EXTENDS ProductCycleQueue, SequenceTheorems, TLAPS

LEMMA Constants == MaxOps \in Nat /\ MaxClaims \in Nat /\ 0 \notin Ops
  BY BoundAssumption DEF Ops

-----------------------------------------------------------------------------
(* What the steps do to the route. *)

LEMMA RouteDomain ==
    ASSUME NEW rows \in Seq(Position)
    PROVE  /\ DOMAIN rows = 1..Len(rows) /\ Len(rows) \in Nat
           /\ \A n \in DOMAIN rows : rows[n] \in Position
  BY LenProperties

LEMMA SameShape ==
    ASSUME NEW rows \in Seq(Position), NEW f \in [DOMAIN rows -> Position]
    PROVE  f \in Seq(Position) /\ DOMAIN f = DOMAIN rows
  BY RouteDomain

(* The plan completes the positions of closed situations, nothing else. *)
LEMMA CompleteClosedRows ==
    ASSUME NEW rows \in Seq(Position)
    PROVE  /\ CompleteClosed(rows) \in Seq(Position)
           /\ DOMAIN CompleteClosed(rows) = DOMAIN rows
           /\ \A n \in DOMAIN rows : /\ CompleteClosed(rows)[n].op = rows[n].op
                                     /\ CompleteClosed(rows)[n].as = rows[n].as
  <1>1. CompleteClosed(rows) \in [DOMAIN rows -> Position]
    BY RouteDomain DEF CompleteClosed, StateAfterClosing, Position
  <1>2. \A n \in DOMAIN rows : /\ CompleteClosed(rows)[n].op = rows[n].op
                               /\ CompleteClosed(rows)[n].as = rows[n].as
    BY RouteDomain DEF CompleteClosed, Position
  <1> QED
    BY <1>1, <1>2, SameShape

(* The route grows, keeps the decision of every position and never lets a   *)
(* closed situation or one that was presented back.                         *)
RouteGrows ==
    /\ route' \in Seq(Position)
    /\ Positions \subseteq Positions'
    /\ \A n \in Positions :
        /\ route'[n].op = route[n].op
        /\ route[n].as = "closed" => route'[n].as = "closed"
        /\ route'[n].as = "admitted" => route[n].as = "admitted"

LEMMA StartRoute ==
    ASSUME route \in Seq(Position), NEW n \in Positions, StartSituation(n),
           Presentable(n)
    PROVE  /\ cycle' = "active" /\ RouteGrows /\ Positions' = Positions
           /\ \A m \in Positions : route'[m].as = IF m = n THEN "active" ELSE route[m].as
  <1>0. \A m \in Positions : route[m] \in Position
    BY RouteDomain DEF Positions
  <1>1. route' \in [Positions -> Position]
    <2>1. DOMAIN route' = Positions /\ (\A m \in Positions : m # n => route'[m] = route[m])
      BY DEF StartSituation, Positions
    <2>2. route'[n] = [route[n] EXCEPT
              !.as = "active",
              !.state = IF @ = "not_presented" THEN "in_progress" ELSE @]
      BY DEF StartSituation, Positions
    <2>3. route'[n] \in Position
      BY <1>0, <2>2 DEF Position, Presented
    <2>4. route' = [m \in Positions |-> route'[m]]
      BY DEF StartSituation, Positions
    <2> QED
      BY <1>0, <2>1, <2>3, <2>4
  <1>2. \A m \in Positions : /\ route'[m].op = route[m].op
                             /\ route'[m].as = IF m = n THEN "active" ELSE route[m].as
    BY RouteDomain DEF StartSituation, Position, Positions
  <1> QED
    BY <1>1, <1>2, SameShape DEF StartSituation, RouteGrows, Positions, Presentable

LEMMA FinishRoute ==
    ASSUME route \in Seq(Position), NEW n \in Positions, FinishSituation(n)
    PROVE  /\ cycle' = "paused" /\ RouteGrows /\ Positions' = Positions
           /\ \A m \in Positions : route'[m].as = IF m = n THEN "closed" ELSE route[m].as
  <1>1. route' \in [Positions -> Position]
    BY RouteDomain DEF FinishSituation, Position, Positions
  <1>2. \A m \in Positions : /\ route'[m].op = route[m].op
                             /\ route'[m].as = IF m = n THEN "closed" ELSE route[m].as
    BY RouteDomain DEF FinishSituation, Position, Positions
  <1> QED
    BY <1>1, <1>2, SameShape DEF FinishSituation, RouteGrows, Positions

LEMMA SwitchRoute ==
    ASSUME route \in Seq(Position), NEW from \in Presented, NEW to \in Presented,
           SwitchPresented(from, to)
    PROVE  /\ RouteGrows /\ Positions' = Positions
           /\ \A n \in Positions :
                route'[n].as = IF /\ route[n].as = from
                                  /\ \A m \in Positions : route[m].as \in Presented => m <= n
                               THEN to ELSE route[n].as
  <1>1. route' \in [Positions -> Position]
    <2>1. \A n \in Positions : route[n] \in Position
      BY RouteDomain DEF Positions
    <2>2. \A n \in Positions : [route[n] EXCEPT !.as = to] \in Position
      BY <2>1 DEF Position
    <2> QED
      BY <2>1, <2>2 DEF SwitchPresented
  <1>2. \A n \in Positions :
            /\ route'[n].op = route[n].op
            /\ route'[n].as = IF /\ route[n].as = from
                                 /\ \A m \in Positions : route[m].as \in Presented => m <= n
                              THEN to ELSE route[n].as
    BY RouteDomain DEF SwitchPresented, Position, Positions
  <1> QED
    BY <1>1, <1>2, SameShape DEF RouteGrows, Positions, Presented

LEMMA CloseRoute ==
    ASSUME route \in Seq(Position), CompleteCycle
    PROVE  /\ cycle' = "closed" /\ RouteGrows /\ Positions' = Positions
           /\ \A n \in Positions : route'[n].as = "closed"
  <1> DEFINE rows == [n \in Positions |-> [route[n] EXCEPT !.as = "closed"]]
  <1>1. rows \in [Positions -> Position]
    BY RouteDomain DEF Position, Positions
  <1>2. \A n \in Positions : rows[n].op = route[n].op /\ rows[n].as = "closed"
    BY RouteDomain DEF Position, Positions
  <1>3. rows \in Seq(Position) /\ DOMAIN rows = Positions
    BY <1>1, SameShape DEF Positions
  <1>4. route' = CompleteClosed(rows)
    BY DEF CompleteCycle
  <1> HIDE DEF rows
  <1>5. /\ route' \in Seq(Position) /\ Positions' = Positions
        /\ \A n \in Positions : route'[n].op = route[n].op /\ route'[n].as = "closed"
    BY <1>2, <1>3, <1>4, CompleteClosedRows DEF Positions
  <1> QED
    BY <1>5 DEF CompleteCycle, RouteGrows

(* Attaching appends a position, or finds it. *)
LEMMA AttachRoute ==
    ASSUME route \in Seq(Position), NEW w \in Workers, Attach(w), chosen[w] \in Ops
    PROVE  /\ RouteGrows /\ (Attached(chosen[w]))'
           /\ \/ UNCHANGED route
              \/ /\ ~Attached(chosen[w])
                 /\ Positions' = Positions \cup {Len(route) + 1} /\ Len(route) + 1 \notin Positions
                 /\ route'[Len(route) + 1].op = chosen[w]
                 /\ route'[Len(route) + 1].as = "admitted"
                 /\ \A n \in Positions : route'[n] = route[n]
  <1>1. CASE Attached(chosen[w])
    BY <1>1 DEF Attach, Attached, RouteGrows, Positions
  <1>2. CASE ~Attached(chosen[w])
    <2> DEFINE new == [op |-> chosen[w], as |-> "admitted", state |-> "not_presented"]
    <2>1. new \in Position /\ route' = Append(route, new)
      BY <1>2 DEF Attach, Position
    <2>2. /\ route' \in Seq(Position) /\ Len(route') = Len(route) + 1
          /\ route'[Len(route) + 1] = new /\ \A n \in 1..Len(route) : route'[n] = route[n]
      BY <2>1
    <2>3. /\ Positions = 1..Len(route) /\ Positions' = 1..(Len(route) + 1) /\ Len(route) \in Nat
      BY <2>2, RouteDomain DEF Positions
    <2>4. \A n \in Positions : route'[n] = route[n]
      BY <2>2, <2>3
    <2>5. Positions' = Positions \cup {Len(route) + 1} /\ Len(route) + 1 \notin Positions
      BY <2>3
    <2> QED
      BY <1>2, <2>2, <2>4, <2>5 DEF Attach, RouteGrows, Attached
  <1> QED
    BY <1>1, <1>2

(* Choosing changes no situation. *)
LEMMA ChooseRoute ==
    ASSUME route \in Seq(Position), NEW w \in Workers, Choose(w)
    PROVE  RouteGrows /\ Positions' = Positions /\ \A n \in Positions : route'[n].as = route[n].as
  BY CompleteClosedRows DEF Choose, ChooseNext, RouteGrows, Positions

-----------------------------------------------------------------------------
(* The inductive invariant. *)

OpRowsOK ==
    /\ opStatus \in [Ops -> {"absent", "queued", "running"} \cup Settled]
    /\ kind \in [Ops -> {"prepare", "next"}]
    /\ attempts \in [Ops -> 0..MaxClaims]
    /\ stale \in [Ops -> BOOLEAN]

PlanRowsOK ==
    /\ decision \in [Ops -> Cases \cup {NoDecision, Declined}]
    /\ latest \in Ops \cup {0}
    /\ cycle \in {"absent", "prepared", "active", "paused", "closed"}
    /\ route \in Seq(Position)

ThreadsOK ==
    /\ pc \in [Workers -> {"idle", "error"} \cup Processing]
    /\ held \in [Workers -> Ops \cup {0}]
    /\ claim \in [Workers -> 0..MaxClaims]
    /\ chosen \in [Workers -> Ops \cup {0}]

LEMMA TypeParts == TypeOK <=> OpRowsOK /\ PlanRowsOK /\ ThreadsOK
  BY DEF TypeOK, OpRowsOK, PlanRowsOK, ThreadsOK

(* A thread within an attempt has an operation that was enqueued, and once  *)
(* it has chosen, an operation whose decision it works on.                  *)
ThreadKnowsOp(w) ==
    /\ pc[w] = "idle" => held[w] = 0 /\ claim[w] = 0
    /\ pc[w] # "idle" => /\ held[w] \in Ops
                         /\ opStatus[held[w]] # "absent"
                         /\ claim[w] \in 1..attempts[held[w]]
    /\ pc[w] \in {"check", "attach", "present", "settle"} => chosen[w] \in Ops /\ latest # 0

(* The last decision is known as soon as there is one. *)
LatestKnown ==
    latest = 0 => route = <<>> /\ \A o \in Ops : decision[o] = NoDecision

IInv == TypeOK /\ (\A w \in Workers : ThreadKnowsOp(w)) /\ LatestKnown

LEMMA InitIInv == Init => IInv
  <1> SUFFICES ASSUME Init PROVE IInv
    OBVIOUS
  <1>1. OpRowsOK /\ PlanRowsOK /\ ThreadsOK
    BY Constants DEF Init, OpRowsOK, PlanRowsOK, ThreadsOK
  <1> QED
    BY <1>1, TypeParts DEF Init, IInv, ThreadKnowsOp, LatestKnown

(* What the choice of an attempt amounts to: its own decision under the key, *)
(* or for a preparation that finds a situation, the last one.               *)
LEMMA ChooseCases ==
    ASSUME IInv, NEW w \in Workers, Choose(w)
    PROVE  \E d \in Ops :
           /\ chosen' = [chosen EXCEPT ![w] = d]
           /\ pc' = [pc EXCEPT ![w] =
                         IF NeedsGeneration(d) THEN "check" ELSE AfterPreparation(w, d)]
           /\ latest' \in Ops
           /\ \/ /\ d = latest /\ kind[held[w]] = "prepare" /\ route # <<>>
                 /\ UNCHANGED <<decision, latest, route>>
              \/ /\ d = held[w] /\ (kind[held[w]] = "next" \/ route = <<>>)
                 /\ decision'[d] # NoDecision
                 /\ IF decision[d] # NoDecision THEN UNCHANGED <<decision, latest>>
                    ELSE \E c \in Choices : decision' = [decision EXCEPT ![d] = c]
  <1>0. OpRowsOK /\ PlanRowsOK /\ ThreadsOK /\ ThreadKnowsOp(w) /\ LatestKnown
    BY TypeParts DEF IInv
  <1>1. held[w] \in Ops /\ kind[held[w]] \in {"prepare", "next"}
    BY <1>0 DEF Choose, ThreadKnowsOp, OpRowsOK
  <1>2. CASE kind[held[w]] = "prepare" /\ route # <<>>
    <2>1. latest \in Ops
      BY <1>0, <1>2 DEF LatestKnown, PlanRowsOK
    <2> QED
      BY <1>2, <2>1 DEF Choose, AfterChoice
  <1>3. CASE ~(kind[held[w]] = "prepare" /\ route # <<>>)
    <2>1. ChooseNext(held[w]) /\ AfterChoice(w, held[w])
      BY <1>3 DEF Choose
    <2>2. CASE decision[held[w]] # NoDecision
      <3>1. latest \in Ops
        BY <1>0, <1>1, <2>2 DEF LatestKnown, PlanRowsOK
      <3> QED
        BY <1>1, <1>3, <2>1, <2>2, <3>1 DEF ChooseNext, AfterChoice
    <2>3. CASE decision[held[w]] = NoDecision
      <3>1. PICK c \in Choices : decision' = [decision EXCEPT ![held[w]] = c]
        BY <2>1, <2>3 DEF ChooseNext
      <3>2. c # NoDecision /\ decision'[held[w]] = c
        BY <1>0, <1>1, <3>1, DecisionAssumption DEF Choices, PlanRowsOK
      <3> QED
        BY <1>1, <1>3, <2>1, <2>3, <3>1, <3>2 DEF ChooseNext, AfterChoice
    <2> QED
      BY <2>2, <2>3
  <1> QED
    BY <1>2, <1>3

LEMMA IdleTypeOK ==
    ASSUME ThreadsOK, NEW w \in Workers, BecomeIdle(w)
    PROVE  ThreadsOK'
  BY Constants DEF BecomeIdle, ThreadsOK

LEMMA NextTypeOK == IInv /\ [Next]_vars => TypeOK'
  <1> SUFFICES ASSUME IInv, [Next]_vars PROVE OpRowsOK' /\ PlanRowsOK' /\ ThreadsOK'
    BY DEF TypeOK, OpRowsOK, PlanRowsOK, ThreadsOK
  <1>0. OpRowsOK /\ PlanRowsOK /\ ThreadsOK /\ \A w \in Workers : ThreadKnowsOp(w)
    BY TypeParts DEF IInv
  <1>1. ASSUME NEW k \in {"prepare", "next"}, Enqueue(k)
        PROVE  OpRowsOK' /\ PlanRowsOK' /\ ThreadsOK'
    <2>1. OpRowsOK'
      BY <1>0, <1>1 DEF Enqueue, OpRowsOK
    <2> QED
      BY <1>0, <1>1, <2>1 DEF Enqueue, PlanRowsOK, ThreadsOK, planVars, cycleVars, workVars
  <1>2. ASSUME NEW w \in Workers, NEW o \in Ops, Claim(w, o)
        PROVE  OpRowsOK' /\ PlanRowsOK' /\ ThreadsOK'
    <2>1. attempts[o] + 1 \in 0..MaxClaims
      BY <1>0, <1>2, Constants DEF Claim, OpRowsOK
    <2>2. OpRowsOK'
      BY <1>0, <1>2, <2>1 DEF Claim, OpRowsOK
    <2>3. ThreadsOK'
      BY <1>0, <1>2, <2>1 DEF Claim, ThreadsOK, Processing
    <2> QED
      BY <1>0, <1>2, <2>2, <2>3 DEF Claim, PlanRowsOK, planVars, cycleVars
  <1>3. ASSUME NEW w \in Workers, Choose(w)
        PROVE  OpRowsOK' /\ PlanRowsOK' /\ ThreadsOK'
    <2>1. route' \in Seq(Position)
      BY <1>0, <1>3, ChooseRoute DEF RouteGrows, PlanRowsOK
    <2>2. ThreadsOK' /\ latest' \in Ops
      BY <1>0, <1>3, ChooseCases DEF Choose, AfterPreparation, ThreadsOK, Processing
    <2>3. decision' \in [Ops -> Cases \cup {NoDecision, Declined}]
      BY <1>0, <1>3, ChooseCases DEF Choices, PlanRowsOK
    <2> QED
      BY <1>0, <1>3, <2>1, <2>2, <2>3 DEF Choose, OpRowsOK, PlanRowsOK, opVars
  <1>4. ASSUME NEW w \in Workers, CheckAttempt(w) \/ RaiseError(w) \/ DiscardStale(w) \/ Lose(w)
        PROVE  OpRowsOK' /\ PlanRowsOK' /\ ThreadsOK'
    <2>1. ThreadsOK'
      BY <1>0, <1>4, IdleTypeOK DEF CheckAttempt, RaiseError, DiscardStale, Lose, ThreadsOK,
                                    Processing
    <2> QED
      BY <1>0, <1>4, <2>1 DEF CheckAttempt, RaiseError, DiscardStale, Lose, OpRowsOK, PlanRowsOK,
                              opVars, planVars, cycleVars
  <1>5. ASSUME NEW w \in Workers, Attach(w)
        PROVE  OpRowsOK' /\ PlanRowsOK' /\ ThreadsOK'
    <2>1. chosen[w] \in Ops
      BY <1>0, <1>5 DEF Attach, ThreadKnowsOp
    <2>2. route' \in Seq(Position)
      BY <1>0, <1>5, <2>1, AttachRoute DEF RouteGrows, PlanRowsOK
    <2>3. ThreadsOK'
      BY <1>0, <1>5 DEF Attach, AfterPreparation, ThreadsOK, Processing
    <2> QED
      BY <1>0, <1>5, <2>2, <2>3 DEF Attach, OpRowsOK, PlanRowsOK, opVars, planVars
  <1>6. ASSUME NEW w \in Workers, Present(w)
        PROVE  OpRowsOK' /\ PlanRowsOK' /\ ThreadsOK'
    <2>1. route' \in Seq(Position) /\ cycle' \in {cycle, "active"}
      BY <1>0, <1>6, StartRoute DEF Present, CycleAfterRollback, RouteGrows, PlanRowsOK
    <2>2. ThreadsOK'
      BY <1>0, <1>6 DEF Present, ThreadsOK, Processing
    <2> QED
      BY <1>0, <1>6, <2>1, <2>2 DEF Present, OpRowsOK, PlanRowsOK, opVars, planVars
  <1>7. ASSUME NEW w \in Workers, Complete(w) \/ Fail(w)
        PROVE  OpRowsOK' /\ PlanRowsOK' /\ ThreadsOK'
    <2>1. OpRowsOK'
      BY <1>0, <1>7 DEF Complete, Fail, OpRowsOK, Settled
    <2> QED
      BY <1>0, <1>7, <2>1, IdleTypeOK DEF Complete, Fail, PlanRowsOK, planVars, cycleVars
  <1>8. ASSUME \/ \E w \in Workers : Heartbeat(w)
               \/ \E o \in Ops : Age(o)
               \/ UNCHANGED vars
        PROVE  OpRowsOK' /\ PlanRowsOK' /\ ThreadsOK'
    <2>1. OpRowsOK'
      BY <1>0, <1>8 DEF Heartbeat, Age, OpRowsOK, vars, opVars
    <2> QED
      BY <1>0, <1>8, <2>1 DEF Heartbeat, Age, PlanRowsOK, ThreadsOK, vars, planVars, cycleVars,
                              workVars
  <1>9. ASSUME NEW n \in Positions, StartPrepared(n) \/ FinishSituation(n)
        PROVE  OpRowsOK' /\ PlanRowsOK' /\ ThreadsOK'
    <2>1. route' \in Seq(Position) /\ cycle' \in {"active", "paused"}
      BY <1>0, <1>9, StartRoute, FinishRoute DEF StartPrepared, Presentable, RouteGrows, PlanRowsOK
    <2> QED
      BY <1>0, <1>9, <2>1 DEF StartPrepared, FinishSituation, ParticipantOnly, OpRowsOK,
                              PlanRowsOK, ThreadsOK, opVars, planVars, workVars
  <1>10. ASSUME PauseCycle \/ ResumeCycle \/ CompleteCycle
         PROVE  OpRowsOK' /\ PlanRowsOK' /\ ThreadsOK'
    <2>1. route' \in Seq(Position) /\ cycle' \in {"active", "paused", "closed"}
      BY <1>0, <1>10, SwitchRoute, CloseRoute
      DEF PauseCycle, ResumeCycle, Presented, RouteGrows, PlanRowsOK
    <2> QED
      BY <1>0, <1>10, <2>1 DEF PauseCycle, ResumeCycle, CompleteCycle, ParticipantOnly, OpRowsOK,
                               PlanRowsOK, ThreadsOK, opVars, planVars, workVars
  <1> QED
    BY <1>1, <1>2, <1>3, <1>4, <1>5, <1>6, <1>7, <1>8, <1>9, <1>10
    DEF Next, WorkerStep, Participant

-----------------------------------------------------------------------------
(* What a thread knows. *)

(* An operation that was enqueued stays, and its claims are only counted up. *)
LEMMA RowsStay ==
    ASSUME OpRowsOK, \A w \in Workers : ThreadKnowsOp(w), [Next]_vars,
           NEW o \in Ops, opStatus[o] # "absent"
    PROVE  opStatus'[o] # "absent" /\ attempts'[o] \in Nat /\ attempts'[o] >= attempts[o]
  <1>1. attempts[o] \in Nat
    BY Constants DEF OpRowsOK
  <1>2. \/ UNCHANGED opStatus
        \/ \E w \in Workers, p \in Ops : Claim(w, p)
        \/ \E p \in Ops, status \in {"queued"} \cup Settled :
              opStatus' = [opStatus EXCEPT ![p] = status]
    <2>1. ASSUME NEW k \in {"prepare", "next"}, Enqueue(k)
          PROVE  \E p \in Ops : opStatus' = [opStatus EXCEPT ![p] = "queued"]
      BY <2>1 DEF Enqueue
    <2>2. ASSUME NEW w \in Workers, Complete(w) \/ Fail(w), ThreadKnowsOp(w)
          PROVE  UNCHANGED opStatus \/ \E p \in Ops, status \in Settled :
                     opStatus' = [opStatus EXCEPT ![p] = status]
      BY <2>2 DEF Complete, Fail, ThreadKnowsOp, Settled
    <2> QED
      BY <2>1, <2>2
      DEF Next, WorkerStep, Participant, Choose, CheckAttempt, Attach, DiscardStale, Present,
          RaiseError, Lose, Heartbeat, Age, StartPrepared, FinishSituation, PauseCycle,
          ResumeCycle, CompleteCycle, ParticipantOnly, vars, opVars
  <1>3. opStatus'[o] # "absent"
    BY <1>2 DEF Claim, OpRowsOK, Settled
  <1>4. UNCHANGED attempts \/ \E p \in Ops : attempts' = [attempts EXCEPT ![p] = @ + 1]
    BY DEF Next, WorkerStep, Participant, Enqueue, Claim, Choose, CheckAttempt, Attach,
           DiscardStale, Present, Complete, RaiseError, Fail, Lose, Heartbeat, Age, StartPrepared,
           FinishSituation, PauseCycle, ResumeCycle, CompleteCycle, ParticipantOnly, vars, opVars
  <1> QED
    BY <1>1, <1>3, <1>4 DEF OpRowsOK

(* The last decision is never forgotten. *)
LEMMA LatestStays ==
    ASSUME IInv, [Next]_vars, latest # 0
    PROVE  latest' # 0
  <1>1. ASSUME NEW w \in Workers, Choose(w) PROVE latest' # 0
    BY <1>1, ChooseCases, Constants
  <1>2. CASE UNCHANGED latest
    BY <1>2
  <1> QED
    BY <1>1, <1>2
    DEF Next, WorkerStep, Participant, Enqueue, Claim, CheckAttempt, Attach, DiscardStale,
        Present, Complete, RaiseError, Fail, Lose, Heartbeat, Age, StartPrepared,
        FinishSituation, PauseCycle, ResumeCycle, CompleteCycle, ParticipantOnly, vars, planVars

(* The steps of a thread, by what becomes of it; all others leave it alone. *)
LEMMA ThreadCases ==
    ASSUME IInv, [Next]_vars
    PROVE  \/ UNCHANGED workVars
           \/ \E w \in Workers, o \in Ops : Claim(w, o)
           \/ \E w \in Workers : Choose(w) \/ Attach(w)
           \/ \E w \in Workers : BecomeIdle(w)
           \/ \E w \in Workers, label \in {"attach", "settle", "error"} :
                /\ pc[w] # "idle" /\ pc' = [pc EXCEPT ![w] = label]
                /\ label = "attach" => pc[w] = "check" /\ Holds(w)
                /\ label = "settle" => pc[w] = "present" /\ Present(w)
                /\ UNCHANGED <<held, claim, chosen>>
  <1>1. ASSUME NEW w \in Workers, CheckAttempt(w) \/ RaiseError(w) \/ Present(w)
        PROVE  \/ BecomeIdle(w)
               \/ \E label \in {"attach", "settle", "error"} :
                    /\ pc[w] # "idle" /\ pc' = [pc EXCEPT ![w] = label]
                    /\ label = "attach" => pc[w] = "check" /\ Holds(w)
                    /\ label = "settle" => pc[w] = "present" /\ Present(w)
                    /\ UNCHANGED <<held, claim, chosen>>
    <2>1. CASE RaiseError(w)
      BY <2>1 DEF RaiseError, Processing
    <2>2. CASE CheckAttempt(w)
      BY <2>2 DEF CheckAttempt
    <2>3. CASE Present(w)
      <3>1. pc' = [pc EXCEPT ![w] = "settle"] \/ pc' = [pc EXCEPT ![w] = "error"]
        BY <2>3 DEF Present
      <3>2. pc[w] = "present" /\ UNCHANGED <<held, claim, chosen>>
        BY <2>3 DEF Present
      <3> QED
        BY <2>3, <3>1, <3>2
    <2> QED
      BY <1>1, <2>1, <2>2, <2>3
  <1>2. ASSUME NEW w \in Workers, DiscardStale(w) \/ Complete(w) \/ Fail(w) \/ Lose(w)
        PROVE  BecomeIdle(w)
    BY <1>2 DEF DiscardStale, Complete, Fail, Lose
  <1>3. ASSUME (\E w \in Workers : Heartbeat(w)) \/ (\E o \in Ops : Age(o)) \/ Participant
               \/ UNCHANGED vars
        PROVE  UNCHANGED workVars
    BY <1>3 DEF Heartbeat, Age, Participant, Enqueue, StartPrepared, FinishSituation, PauseCycle,
                ResumeCycle, CompleteCycle, ParticipantOnly, vars
  <1> QED
    BY <1>1, <1>2, <1>3 DEF Next, WorkerStep

(* A thread that a step leaves alone knows what it knew. *)
LEMMA OtherKnowsOp ==
    ASSUME IInv, [Next]_vars, NEW v \in Workers,
           pc'[v] = pc[v], held'[v] = held[v], claim'[v] = claim[v], chosen'[v] = chosen[v]
    PROVE  ThreadKnowsOp(v)'
  <1>1. OpRowsOK /\ \A w \in Workers : ThreadKnowsOp(w)
    BY TypeParts DEF IInv
  <1>2. pc[v] \in {"check", "attach", "present", "settle"} => latest' # 0
    BY <1>1, LatestStays DEF ThreadKnowsOp
  <1>3. ASSUME pc[v] # "idle"
        PROVE  opStatus'[held[v]] # "absent" /\ claim[v] \in 1..attempts'[held[v]]
    <2>1. /\ held[v] \in Ops /\ opStatus[held[v]] # "absent"
          /\ claim[v] \in 1..attempts[held[v]] /\ attempts[held[v]] \in Nat
      BY <1>1, <1>3, Constants DEF ThreadKnowsOp, OpRowsOK
    <2>2. opStatus'[held[v]] # "absent" /\ attempts'[held[v]] \in Nat
          /\ attempts'[held[v]] >= attempts[held[v]]
      BY <1>1, <2>1, RowsStay
    <2> QED
      BY <2>1, <2>2
  <1> QED
    BY <1>1, <1>2, <1>3 DEF ThreadKnowsOp

LEMMA NextThreadKnowsOp ==
    IInv /\ [Next]_vars => (\A v \in Workers : ThreadKnowsOp(v))'
  <1> SUFFICES ASSUME IInv, [Next]_vars, NEW v \in Workers PROVE ThreadKnowsOp(v)'
    OBVIOUS
  <1>0. OpRowsOK /\ PlanRowsOK /\ ThreadsOK /\ \A w \in Workers : ThreadKnowsOp(w)
    BY TypeParts DEF IInv
  <1>1. CASE UNCHANGED workVars
    BY <1>1, OtherKnowsOp DEF workVars
  <1>2. ASSUME NEW w \in Workers, BecomeIdle(w) PROVE ThreadKnowsOp(v)'
    <2>1. CASE v = w
      BY <1>0, <1>2, <2>1 DEF BecomeIdle, ThreadsOK, ThreadKnowsOp
    <2>2. CASE v # w
      BY <1>0, <1>2, <2>2, OtherKnowsOp DEF BecomeIdle, ThreadsOK
    <2> QED
      BY <2>1, <2>2
  <1>3. ASSUME NEW w \in Workers, NEW o \in Ops, Claim(w, o) PROVE ThreadKnowsOp(v)'
    <2>1. CASE v = w
      <3>1. attempts[o] \in Nat /\ attempts'[o] = attempts[o] + 1
        BY <1>0, <1>3, Constants DEF Claim, OpRowsOK
      <3>2. pc'[w] = "choose" /\ held'[w] = o /\ claim'[w] = attempts[o] + 1
            /\ opStatus'[o] = "running"
        BY <1>0, <1>3 DEF Claim, ThreadsOK
      <3> QED
        BY <2>1, <3>1, <3>2 DEF ThreadKnowsOp
    <2>2. CASE v # w
      BY <1>0, <1>3, <2>2, OtherKnowsOp DEF Claim, ThreadsOK
    <2> QED
      BY <2>1, <2>2
  <1>4. ASSUME NEW w \in Workers, Choose(w) PROVE ThreadKnowsOp(v)'
    <2>1. CASE v = w
      <3>1. chosen'[w] \in Ops /\ latest' \in Ops /\ pc'[w] \in {"check", "present", "settle"}
        BY <1>0, <1>4, ChooseCases DEF AfterPreparation, ThreadsOK
      <3>2. pc[w] = "choose" /\ UNCHANGED <<held, claim, opStatus, attempts>>
        BY <1>4 DEF Choose, opVars
      <3> QED
        BY <1>0, <2>1, <3>1, <3>2, Constants DEF ThreadKnowsOp
    <2>2. CASE v # w
      BY <1>0, <1>4, <2>2, OtherKnowsOp, ChooseCases DEF Choose, ThreadsOK
    <2> QED
      BY <2>1, <2>2
  <1>5. ASSUME NEW w \in Workers, Attach(w) PROVE ThreadKnowsOp(v)'
    <2>1. CASE v = w
      <3>1. pc[w] = "attach" /\ pc'[w] \in {"present", "settle"}
            /\ UNCHANGED <<held, claim, chosen, opStatus, attempts, latest>>
        BY <1>0, <1>5 DEF Attach, AfterPreparation, ThreadsOK, opVars, planVars
      <3> QED
        BY <1>0, <2>1, <3>1 DEF ThreadKnowsOp
    <2>2. CASE v # w
      BY <1>0, <1>5, <2>2, OtherKnowsOp DEF Attach, ThreadsOK
    <2> QED
      BY <2>1, <2>2
  <1>6. ASSUME NEW w \in Workers, NEW label \in {"attach", "settle", "error"},
               pc[w] # "idle", pc' = [pc EXCEPT ![w] = label],
               label = "attach" => pc[w] = "check", label = "settle" => pc[w] = "present",
               UNCHANGED <<held, claim, chosen>>
        PROVE  ThreadKnowsOp(v)'
    <2>1. CASE v = w
      <3>1. /\ held[w] \in Ops /\ opStatus[held[w]] # "absent"
            /\ claim[w] \in 1..attempts[held[w]] /\ attempts[held[w]] \in Nat
            /\ label # "error" => chosen[w] \in Ops /\ latest # 0
        BY <1>0, <1>6, Constants DEF ThreadKnowsOp, OpRowsOK
      <3>2. opStatus'[held[w]] # "absent" /\ attempts'[held[w]] \in Nat
            /\ attempts'[held[w]] >= attempts[held[w]]
        BY <1>0, <3>1, RowsStay
      <3>3. label # "error" => latest' # 0
        BY <3>1, LatestStays
      <3>4. pc'[w] = label
        BY <1>0, <1>6 DEF ThreadsOK
      <3> QED
        BY <1>6, <2>1, <3>1, <3>2, <3>3, <3>4 DEF ThreadKnowsOp
    <2>2. CASE v # w
      BY <1>0, <1>6, <2>2, OtherKnowsOp DEF ThreadsOK
    <2> QED
      BY <2>1, <2>2
  <1> QED
    BY <1>1, <1>2, <1>3, <1>4, <1>5, <1>6, ThreadCases

LEMMA NextLatestKnown == IInv /\ [Next]_vars => LatestKnown'
  <1> SUFFICES ASSUME IInv, [Next]_vars, latest' = 0
               PROVE  route' = <<>> /\ \A o \in Ops : decision'[o] = NoDecision
    BY DEF LatestKnown
  <1>1. latest = 0 /\ route = <<>> /\ \A o \in Ops : decision[o] = NoDecision
    BY LatestStays DEF IInv, LatestKnown
  <1>2. ASSUME NEW w \in Workers, Choose(w) PROVE FALSE
    BY <1>2, ChooseCases, Constants
  <1>3. ASSUME NEW w \in Workers, Attach(w) PROVE FALSE
    BY <1>1, <1>3 DEF Attach, IInv, ThreadKnowsOp
  <1>4. UNCHANGED decision
    BY <1>2
    DEF Next, WorkerStep, Participant, Enqueue, Claim, CheckAttempt, Attach, DiscardStale,
        Present, Complete, RaiseError, Fail, Lose, Heartbeat, Age, StartPrepared,
        FinishSituation, PauseCycle, ResumeCycle, CompleteCycle, ParticipantOnly, vars, planVars
  <1>5. Positions = {}
    BY <1>1 DEF Positions
  <1>6. CASE UNCHANGED route
    BY <1>1, <1>4, <1>6
  <1>7. CASE PauseCycle \/ ResumeCycle \/ CompleteCycle
    <2>1. route \in Seq(Position)
      BY TypeParts DEF IInv, PlanRowsOK
    <2>2. route' \in Seq(Position) /\ Positions' = {}
      BY <1>5, <1>7, <2>1, SwitchRoute, CloseRoute
      DEF PauseCycle, ResumeCycle, Presented, RouteGrows
    <2>3. Len(route') = 0
      BY <2>2, RouteDomain DEF Positions
    <2> QED
      BY <1>1, <1>4, <2>2, <2>3, EmptySeq
  <1> QED
    BY <1>2, <1>3, <1>5, <1>6, <1>7
    DEF Next, WorkerStep, Participant, Enqueue, Claim, CheckAttempt, DiscardStale,
        Present, Complete, RaiseError, Fail, Lose, Heartbeat, Age, vars, cycleVars

LEMMA NextIInv == IInv /\ [Next]_vars => IInv'
  BY NextTypeOK, NextThreadKnowsOp, NextLatestKnown DEF IInv

(* The inductive invariant holds in every reachable state. *)
THEOREM IInvHolds == Spec => []IInv
  BY InitIInv, NextIInv, PTL DEF Spec

(* The types of the operations, the plan, the route and the threads: what   *)
(* is attached to the route always names an operation with a decision.      *)
THEOREM TypeCorrect == Spec => []TypeOK
  <1>1. IInv => TypeOK
    BY DEF IInv
  <1> QED
    BY <1>1, IInvHolds, PTL

-----------------------------------------------------------------------------
(* The route and its situations. *)

(* The steps that may touch the cycle or its route. *)
LEMMA RouteCases ==
    ASSUME [Next]_vars
    PROVE  \/ UNCHANGED cycleVars
           \/ \E w \in Workers : Choose(w) \/ Attach(w)
           \/ \E n \in Positions : StartSituation(n) /\ Presentable(n)
           \/ \E n \in Positions : FinishSituation(n)
           \/ PauseCycle \/ ResumeCycle \/ CompleteCycle
  <1>1. ASSUME NEW w \in Workers, Present(w)
        PROVE  UNCHANGED cycleVars \/ \E n \in Positions : StartSituation(n) /\ Presentable(n)
    BY <1>1 DEF Present, CycleAfterRollback, cycleVars
  <1>2. ASSUME NEW n \in Positions, StartPrepared(n) PROVE StartSituation(n) /\ Presentable(n)
    BY <1>2 DEF StartPrepared, Presentable
  <1> QED
    BY <1>1, <1>2
    DEF Next, WorkerStep, Participant, Enqueue, Claim, CheckAttempt, DiscardStale, Complete,
        RaiseError, Fail, Lose, Heartbeat, Age, vars, cycleVars

LEMMA RouteStep == IInv /\ [Next]_vars => RouteGrows
  <1> SUFFICES ASSUME IInv, [Next]_vars PROVE RouteGrows
    OBVIOUS
  <1>0. route \in Seq(Position) /\ \A w \in Workers : ThreadKnowsOp(w)
    BY TypeParts DEF IInv, PlanRowsOK
  <1>1. CASE UNCHANGED cycleVars
    BY <1>0, <1>1 DEF cycleVars, RouteGrows, Positions
  <1>2. ASSUME NEW w \in Workers, Attach(w) PROVE RouteGrows
    BY <1>0, <1>2, AttachRoute DEF Attach, ThreadKnowsOp
  <1> QED
    BY <1>0, <1>1, <1>2, RouteCases, ChooseRoute, StartRoute, FinishRoute, SwitchRoute, CloseRoute
    DEF PauseCycle, ResumeCycle, Presented

(* A closed situation is closed for good: whatever a late attempt presents  *)
(* (m7_cycle_planner.present) was admitted or active.                       *)
THEOREM ClosedStays == Spec => ClosedSituationStays
  <1>1. IInv /\ [Next]_vars =>
          [\A n \in Positions : route[n].as = "closed" => route'[n].as = "closed"]_vars
    BY RouteStep DEF RouteGrows
  <1> QED
    BY <1>1, IInvHolds, PTL DEF Spec, ClosedSituationStays

LEMMA NextPaused ==
    IInv /\ PausedSituationInPausedCycle /\ [Next]_vars => PausedSituationInPausedCycle'
  <1> SUFFICES ASSUME IInv, PausedSituationInPausedCycle, [Next]_vars,
                      NEW n \in Positions', route'[n].as = "paused", cycle' # "paused"
               PROVE  \E m \in Positions' \ {n} : route'[m].as \in Presented
    BY DEF PausedSituationInPausedCycle
  <1> USE DEF PausedSituationInPausedCycle
  <1>0. route \in Seq(Position) /\ \A w \in Workers : ThreadKnowsOp(w)
    BY TypeParts DEF IInv, PlanRowsOK
  <1>1. CASE UNCHANGED cycleVars
    BY <1>1 DEF cycleVars, Positions
  <1>2. ASSUME NEW w \in Workers, Choose(w)
        PROVE  \E m \in Positions' \ {n} : route'[m].as \in Presented
    BY <1>0, <1>2, ChooseRoute DEF Choose
  <1>3. ASSUME NEW w \in Workers, Attach(w)
        PROVE  \E m \in Positions' \ {n} : route'[m].as \in Presented
    <2>1. chosen[w] \in Ops /\ UNCHANGED cycle
      BY <1>0, <1>3 DEF Attach, ThreadKnowsOp
    <2>2. n \in Positions /\ \A m \in Positions : m \in Positions' /\ route'[m].as = route[m].as
      BY <1>0, <1>3, <2>1, AttachRoute DEF Positions
    <2> QED
      BY <2>1, <2>2
  <1>4. ASSUME NEW k \in Positions, StartSituation(k), Presentable(k)
        PROVE  \E m \in Positions' \ {n} : route'[m].as \in Presented
    BY <1>0, <1>4, StartRoute DEF Presented
  <1>5. ASSUME NEW k \in Positions, FinishSituation(k) PROVE FALSE
    BY <1>0, <1>5, FinishRoute
  <1>6. ~PauseCycle
    BY DEF PauseCycle
  <1>7. CASE ResumeCycle
    <2>1. PICK m \in Positions : route[m].as \in Presented /\ ~(m <= n)
      BY <1>0, <1>7, SwitchRoute DEF ResumeCycle, Presented
    <2>2. m # n /\ m \in Positions' /\ route'[m].as \in Presented
      BY <1>0, <1>7, <2>1, SwitchRoute, RouteDomain DEF ResumeCycle, Presented, Positions
    <2> QED
      BY <2>2
  <1>8. CASE CompleteCycle
    BY <1>0, <1>8, CloseRoute
  <1> QED
    BY <1>1, <1>2, <1>3, <1>4, <1>5, <1>6, <1>7, <1>8, RouteCases

(* The time does not run for a situation that is paused, whichever late     *)
(* attempt presents whatever (present_prepared_next, m7_completion.control).*)
THEOREM PausedWhilePaused == Spec => []PausedSituationInPausedCycle
  <1>1. Init => PausedSituationInPausedCycle
    BY DEF Init, PausedSituationInPausedCycle, Positions
  <1> QED
    BY <1>1, NextPaused, IInvHolds, PTL DEF Spec

-----------------------------------------------------------------------------
(* The refinement of FencedQueue. *)

QStatus == [o \in Ops |-> QueueStatus(o)]
QClaim == [w \in Workers |-> [job |-> held[w], epoch |-> claim[w]]]

LEMMA InitQueue == Init => Queue!Init
  BY DEF Init, Queue!Init, Queue!NoClaim, QueueStatus

LEMMA SubmitStep ==
    ASSUME OpRowsOK, NEW k \in {"prepare", "next"}, Enqueue(k)
    PROVE  Queue!Next
  <1>1. PICK o \in Ops : opStatus[o] = "absent" /\ opStatus' = [opStatus EXCEPT ![o] = "queued"]
    BY DEF Enqueue
  <1>2. QStatus[o] = "none" /\ QStatus' = [QStatus EXCEPT ![o] = "waiting"]
    BY <1>1 DEF QStatus, QueueStatus, OpRowsOK
  <1>3. UNCHANGED <<attempts, held, claim>>
    BY DEF Enqueue, workVars
  <1> QED
    BY <1>2, <1>3 DEF Queue!Next, Queue!Submit, QStatus

(* The claim recovers the expired leases and takes one operation. *)
LEMMA TakeStep ==
    ASSUME OpRowsOK, ThreadsOK, NEW w \in Workers, ThreadKnowsOp(w), NEW o \in Ops, Claim(w, o)
    PROVE  Queue!Next
  <1>0. PICK R \in SUBSET Ops : R = {p \in Ops : Expired(p)}
    OBVIOUS
  <1>1. QClaim[w] = Queue!NoClaim
    BY DEF Claim, ThreadKnowsOp, QClaim, Queue!NoClaim
  <1>2. (\A p \in R : QStatus[p] = "taken") /\ (QStatus[o] = "waiting" \/ o \in R)
    BY <1>0 DEF Claim, Expired, QStatus, QueueStatus
  <1>3. QStatus' = [p \in Ops |->
            IF p = o THEN "taken" ELSE IF p \in R THEN "waiting" ELSE QStatus[p]]
    BY <1>0 DEF Claim, QStatus, QueueStatus
  <1>4. QClaim' = [QClaim EXCEPT ![w] = [job |-> o, epoch |-> attempts[o] + 1]]
    BY DEF Claim, QClaim, ThreadsOK
  <1>5. attempts' = [attempts EXCEPT ![o] = @ + 1]
    BY DEF Claim
  <1>6. Queue!Take(w, o, R)
    BY <1>1, <1>2, <1>3, <1>4, <1>5 DEF Queue!Take, QClaim, QStatus
  <1> QED
    BY <1>6 DEF Queue!Next

LEMMA DropStep ==
    ASSUME ThreadsOK, NEW w \in Workers, BecomeIdle(w), UNCHANGED <<opStatus, attempts>>
    PROVE  Queue!Next
  <1>1. QClaim' = [QClaim EXCEPT ![w] = Queue!NoClaim]
    BY DEF QClaim, BecomeIdle, ThreadsOK, Queue!NoClaim
  <1>2. QStatus' = QStatus
    BY DEF QStatus, QueueStatus
  <1> QED
    BY <1>1, <1>2 DEF Queue!Next, Queue!Drop, QStatus, QClaim

(* The attempt token is the latest one. *)
LEMMA SettleStep ==
    ASSUME OpRowsOK, ThreadsOK, NEW w \in Workers, Holds(w), BecomeIdle(w), UNCHANGED attempts,
           NEW outcome \in Settled, opStatus' = [opStatus EXCEPT ![held[w]] = outcome]
    PROVE  Queue!Next
  <1>1. held[w] \in Ops /\ attempts[held[w]] = claim[w] /\ opStatus[held[w]] = "running"
    BY DEF Holds, ThreadsOK
  <1>2. QClaim' = [QClaim EXCEPT ![w] = Queue!NoClaim]
    BY DEF QClaim, BecomeIdle, ThreadsOK, Queue!NoClaim
  <1>3. PICK end \in Queue!Settled : QStatus' = [QStatus EXCEPT ![held[w]] = end]
    <2>1. CASE outcome = "completed"
      BY <1>1, <2>1 DEF QStatus, QueueStatus, OpRowsOK, Queue!Settled
    <2>2. CASE outcome = "failed"
      BY <1>1, <2>2 DEF QStatus, QueueStatus, OpRowsOK, Queue!Settled
    <2> QED
      BY <2>1, <2>2 DEF Settled
  <1>4. QClaim[w].job = held[w] /\ QClaim[w].epoch = claim[w] /\ QStatus[held[w]] = "taken"
    BY <1>1 DEF QClaim, QStatus, QueueStatus
  <1>5. Queue!Settle(w, end)
    BY <1>1, <1>2, <1>3, <1>4 DEF Queue!Settle, Queue!Current, QClaim, QStatus
  <1> QED
    BY <1>5, <1>3 DEF Queue!Next

LEMMA NextQueue == IInv /\ [Next]_vars => [Queue!Next]_(Queue!vars)
  <1> SUFFICES ASSUME OpRowsOK, ThreadsOK, \A w \in Workers : ThreadKnowsOp(w), [Next]_vars
               PROVE  Queue!Next \/ UNCHANGED Queue!vars
    BY TypeParts DEF IInv
  <1>1. ASSUME NEW w \in Workers, Complete(w) \/ Fail(w) PROVE Queue!Next
    <2>1. CASE Complete(w)
      BY <2>1, SettleStep DEF Complete, Settled
    <2>2. CASE Fail(w) /\ Holds(w)
      BY <2>2, SettleStep DEF Fail, Settled
    <2>3. CASE Fail(w) /\ ~Holds(w)
      BY <2>3, DropStep DEF Fail
    <2> QED
      BY <1>1, <2>1, <2>2, <2>3
  <1>2. ASSUME NEW w \in Workers, DiscardStale(w) \/ Lose(w) PROVE Queue!Next
    BY <1>2, DropStep DEF DiscardStale, Lose, opVars
  <1>3. ASSUME NEW w \in Workers, CheckAttempt(w)
        PROVE  Queue!Next \/ UNCHANGED <<opStatus, attempts, held, claim>>
    BY <1>3, DropStep DEF CheckAttempt, opVars
  <1>4. ASSUME \/ \E w \in Workers :
                    Choose(w) \/ Attach(w) \/ Present(w) \/ RaiseError(w) \/ Heartbeat(w)
               \/ \E o \in Ops : Age(o)
               \/ \E n \in Positions : StartPrepared(n) \/ FinishSituation(n)
               \/ PauseCycle \/ ResumeCycle \/ CompleteCycle \/ UNCHANGED vars
        PROVE  UNCHANGED <<opStatus, attempts, held, claim>>
    BY <1>4 DEF Choose, Attach, Present, RaiseError, Heartbeat, Age, StartPrepared,
                FinishSituation, PauseCycle, ResumeCycle, CompleteCycle, ParticipantOnly, vars,
                opVars, workVars
  <1>5. ASSUME UNCHANGED <<opStatus, attempts, held, claim>> PROVE UNCHANGED Queue!vars
    BY <1>5 DEF Queue!vars, QueueStatus
  <1> QED
    BY <1>1, <1>2, <1>3, <1>4, <1>5, SubmitStep, TakeStep DEF Next, WorkerStep, Participant

(* Every behaviour of the product cycle's queue is one of the abstract      *)
(* queue: only the latest attempt token settles an operation, once.         *)
THEOREM Refinement == Spec => ImplementsFencedQueue
  BY InitQueue, NextQueue, IInvHolds, PTL DEF Spec, ImplementsFencedQueue, Queue!Spec

-----------------------------------------------------------------------------
(* What the queue inherits from FencedQueue. *)

Laws == INSTANCE FencedQueueProofs WITH
    Jobs <- Ops,
    status <- [o \in Ops |-> QueueStatus(o)],
    epoch <- attempts,
    claim <- [w \in Workers |-> [job |-> held[w], epoch |-> claim[w]]]

(* The theorems are about the queue that is implemented. *)
LEMMA SameQueue == Queue!Spec => Laws!Spec
  <1>1. Queue!Init => Laws!Init
    BY DEF Queue!Init, Laws!Init, Queue!NoClaim, Laws!NoClaim
  <1>2. [Queue!Next]_(Queue!vars) => [Laws!Next]_(Laws!vars)
    BY DEF Queue!Next, Queue!Submit, Queue!Take, Queue!Maintain, Queue!Settle, Queue!Drop,
           Queue!Current, Queue!NoClaim, Queue!Settled, Queue!vars,
           Laws!Next, Laws!Submit, Laws!Take, Laws!Maintain, Laws!Settle, Laws!Drop,
           Laws!Current, Laws!NoClaim, Laws!Settled, Laws!vars
  <1> QED
    BY <1>1, <1>2, PTL DEF Queue!Spec, Laws!Spec

(* The token of an attempt is the claim that the abstract queue knows. *)
LEMMA HoldsIsCurrent ==
    ASSUME TypeOK, NEW w \in Workers
    PROVE  Holds(w) <=> Laws!Current(w)
  <1>1. held[w] \in Ops \cup {0}
    BY DEF TypeOK
  <1> QED
    BY <1>1, Constants DEF Holds, Laws!Current, QueueStatus

(* A completed or failed operation keeps its status, whichever late attempt *)
(* completes or fails it once more (_complete, _fail).                      *)
SettledOperationStays ==
    [][\A o \in Ops : opStatus[o] \in Settled => opStatus'[o] = opStatus[o]]_vars

(* By the refinement it is a theorem of the abstract queue, whose updates   *)
(* of a settled row are none.                                               *)
THEOREM SettledOperations == Spec => SettledOperationStays
  <1>1. TypeOK /\ TypeOK' /\ [Laws!SettledStays]_(Laws!vars) =>
          [\A o \in Ops : opStatus[o] \in Settled => opStatus'[o] = opStatus[o]]_vars
    <2> SUFFICES ASSUME OpRowsOK, OpRowsOK', [Laws!SettledStays]_(Laws!vars),
                        NEW o \in Ops, opStatus[o] \in Settled
                 PROVE  opStatus'[o] = opStatus[o]
      BY DEF TypeOK, OpRowsOK
    <2>1. QueueStatus(o) \in {"done", "failed"} =>
                QueueStatus(o)' \in {QueueStatus(o), "gone"}
      BY DEF Laws!SettledStays, Laws!Settled, Laws!vars
    <2> QED
      BY <2>1 DEF QueueStatus, OpRowsOK, Settled
  <1> QED
    BY <1>1, SameQueue, Refinement, TypeCorrect, Laws!SettledJobStays, PTL
    DEF ImplementsFencedQueue, SettledOperationStays

(* An attempt whose token is stale, however it goes on, never holds the     *)
(* operation again.                                                         *)
LostTokenStaysLost ==
    [][\A w \in Workers : held'[w] = held[w] /\ claim'[w] = claim[w] /\ ~Holds(w)
           => ~Holds(w)']_vars

(* The abstract queue has it for claims; here the guard is the attempt's    *)
(* token (_assert_current_attempt).                                         *)
THEOREM LostTokens == Spec => LostTokenStaysLost
  <1>1. TypeOK /\ TypeOK' /\ [Laws!LostStaysLost]_(Laws!vars) =>
          [\A w \in Workers : held'[w] = held[w] /\ claim'[w] = claim[w] /\ ~Holds(w)
               => ~Holds(w)']_vars
    <2> SUFFICES ASSUME TypeOK, TypeOK', [Laws!LostStaysLost]_(Laws!vars), NEW w \in Workers,
                        held'[w] = held[w], claim'[w] = claim[w], Holds(w)'
                 PROVE  Holds(w)
      OBVIOUS
    <2>1. Laws!Current(w)'
      BY Constants DEF TypeOK, Holds, Laws!Current, QueueStatus
    <2>2. Laws!Current(w)
      BY <2>1 DEF Laws!LostStaysLost, Laws!Current, Laws!vars
    <2> QED
      BY <2>2, HoldsIsCurrent
  <1> QED
    BY <1>1, SameQueue, Refinement, TypeCorrect, Laws!LostClaimStaysLost, PTL
    DEF ImplementsFencedQueue, LostTokenStaysLost

(* Of the threads that work on an operation at most one holds it. *)
OneHolder == \A v, w \in Workers : Holds(v) /\ Holds(w) /\ held[v] = held[w] => v = w

LEMMA HolderIsOne == Spec => []OneHolder
  <1>1. TypeOK /\ Laws!OneCurrentClaim => OneHolder
    BY HoldsIsCurrent DEF Laws!OneCurrentClaim, OneHolder
  <1> QED
    BY <1>1, SameQueue, Refinement, TypeCorrect, Laws!ClaimIsExclusive, PTL
    DEF ImplementsFencedQueue

-----------------------------------------------------------------------------
(* What a completed operation has to show. *)

(* The advisory lock and the partial unique index: one active operation.    *)
OneActiveOp == \A o, p \in Ops : Active(o) /\ Active(p) => o = p

Usable(o) == \E n \in Positions :
    route[n].op = o /\ (kind[o] = "next" => route[n].as # "admitted")

(* The operation has its decision, or is a preparation that found a         *)
(* situation; and if the decision is a case, its situation is there.        *)
Served(o) ==
    /\ decision[o] # NoDecision \/ (kind[o] = "prepare" /\ route # <<>>)
    /\ decision[o] \in Cases => Usable(o)

(* A preparation that is repeated after it chose a case finds that case     *)
(* attached, or nothing.                                                    *)
RepeatOK == \A o \in Ops :
    Active(o) /\ kind[o] = "prepare" /\ decision[o] \in Cases /\ ~Attached(o) => route = <<>>

(* What a thread chose, and that it has attached and presented it when it   *)
(* is about to complete; late attempts are excluded by their token only at  *)
(* the very end.                                                            *)
ChoiceOK(w) ==
    /\ pc[w] \in {"check", "attach"} /\ route = <<>> => chosen[w] = held[w]
    /\ pc[w] \in {"check", "attach", "present"} => decision[chosen[w]] \in Cases
    /\ pc[w] \in {"check", "attach", "present"} /\ kind[held[w]] = "next" => chosen[w] = held[w]
    /\ pc[w] = "present" => kind[held[w]] = "next"
    /\ pc[w] = "settle" /\ Holds(w) => Served(held[w])

PlanInv ==
    /\ IInv
    /\ OneActiveOp
    /\ \A o \in Ops : opStatus[o] = "absent" => decision[o] = NoDecision
    /\ RepeatOK
    /\ \A w \in Workers : ChoiceOK(w)
    /\ \A o \in Ops : opStatus[o] = "completed" => Served(o)

LEMMA EmptyRoute ==
    ASSUME NEW rows \in Seq(Position)
    PROVE  rows = <<>> <=> DOMAIN rows = {}
  BY RouteDomain, EmptySeq

LEMMA Decisions ==
    ASSUME IInv, [Next]_vars, NEW o \in Ops
    PROVE  \/ decision'[o] = decision[o]
           \/ /\ decision[o] = NoDecision
              /\ \E w \in Workers : /\ Choose(w) /\ held[w] = o
                                    /\ kind[o] = "next" \/ route = <<>>
  <1>1. CASE UNCHANGED decision
    BY <1>1
  <1>2. ASSUME NEW w \in Workers, Choose(w)
        PROVE  \/ decision'[o] = decision[o]
               \/ decision[o] = NoDecision /\ held[w] = o /\ (kind[o] = "next" \/ route = <<>>)
    <2>1. decision \in [Ops -> Cases \cup {NoDecision, Declined}]
      BY TypeParts DEF IInv, PlanRowsOK
    <2> QED
      BY <1>2, <2>1, ChooseCases
  <1> QED
    BY <1>1, <1>2
    DEF Next, WorkerStep, Participant, Enqueue, Claim, CheckAttempt, Attach, DiscardStale,
        Present, Complete, RaiseError, Fail, Lose, Heartbeat, Age, StartPrepared,
        FinishSituation, PauseCycle, ResumeCycle, CompleteCycle, ParticipantOnly, vars, planVars

(* What happens to the row of an operation. *)
LEMMA RowCases ==
    ASSUME IInv, [Next]_vars
    PROVE  \/ UNCHANGED <<opStatus, kind, attempts>>
           \/ \E k \in {"prepare", "next"} : Enqueue(k)
           \/ \E w \in Workers, o \in Ops : Claim(w, o)
           \/ \E w \in Workers, status \in Settled :
                /\ opStatus' = [opStatus EXCEPT ![held[w]] = status]
                /\ held[w] \in Ops /\ Holds(w) /\ UNCHANGED <<kind, attempts>>
                /\ status = "completed" => Complete(w)
  <1>1. ASSUME NEW w \in Workers, Complete(w) \/ Fail(w)
        PROVE  \/ UNCHANGED <<opStatus, kind, attempts>>
               \/ \E status \in Settled :
                    /\ opStatus' = [opStatus EXCEPT ![held[w]] = status]
                    /\ held[w] \in Ops /\ Holds(w) /\ UNCHANGED <<kind, attempts>>
                    /\ status = "completed" => Complete(w)
    <2>1. held[w] \in Ops
      BY <1>1 DEF Complete, Fail, IInv, ThreadKnowsOp
    <2>2. CASE Complete(w)
      BY <2>1, <2>2 DEF Complete, Settled
    <2>3. CASE Fail(w)
      BY <2>1, <2>3 DEF Fail, Settled
    <2> QED
      BY <1>1, <2>2, <2>3
  <1> QED
    BY <1>1
    DEF Next, WorkerStep, Participant, Choose, CheckAttempt, Attach, DiscardStale, Present,
        RaiseError, Lose, Heartbeat, Age, StartPrepared, FinishSituation, PauseCycle,
        ResumeCycle, CompleteCycle, ParticipantOnly, vars, opVars

LEMMA KindStays ==
    ASSUME IInv, [Next]_vars, NEW o \in Ops, opStatus[o] # "absent"
    PROVE  kind'[o] = kind[o]
  BY RowCases, TypeParts DEF IInv, OpRowsOK, Enqueue, Claim

(* A claim that is lost is lost for good. *)
LEMMA HoldsStays ==
    ASSUME IInv, [Next]_vars, NEW w \in Workers, pc[w] # "idle",
           held'[w] = held[w], claim'[w] = claim[w], Holds(w)'
    PROVE  Holds(w)
  <1>0. OpRowsOK /\ ThreadKnowsOp(w) /\ \A v \in Workers : ThreadKnowsOp(v)
    BY TypeParts DEF IInv
  <1>1. /\ held[w] \in Ops /\ claim[w] \in 1..attempts[held[w]] /\ attempts[held[w]] \in Nat
        /\ opStatus[held[w]] # "absent"
    BY <1>0, Constants DEF ThreadKnowsOp, OpRowsOK
  <1>2. /\ opStatus'[held[w]] = "running" /\ attempts'[held[w]] = claim[w]
        /\ attempts'[held[w]] >= attempts[held[w]]
    BY <1>0, <1>1, RowsStay DEF Holds
  <1>3. attempts[held[w]] = claim[w] /\ attempts'[held[w]] = attempts[held[w]]
    BY <1>1, <1>2
  <1>4. opStatus[held[w]] = "running"
    <2>1. ASSUME NEW v \in Workers, NEW o \in Ops, Claim(v, o) PROVE opStatus[held[w]] = "running"
      <3>1. o # held[w]
        BY <1>0, <1>1, <1>3, <2>1 DEF Claim, OpRowsOK
      <3> QED
        BY <1>1, <1>2, <2>1, <3>1 DEF Claim
    <2>2. ASSUME NEW k \in {"prepare", "next"}, Enqueue(k) PROVE opStatus[held[w]] = "running"
      BY <1>0, <1>1, <1>2, <2>2 DEF Enqueue, OpRowsOK
    <2> QED
      BY <1>0, <1>1, <1>2, <2>1, <2>2, RowCases DEF OpRowsOK, Settled
  <1> QED
    BY <1>1, <1>3, <1>4, Constants DEF Holds

(* What an operation has to show it keeps. *)
LEMMA ServedStays ==
    ASSUME IInv, [Next]_vars, NEW o \in Ops, opStatus[o] # "absent", Served(o)
    PROVE  Served(o)'
  <1>1. RouteGrows /\ kind'[o] = kind[o] /\ route \in Seq(Position) /\ route' \in Seq(Position)
    BY RouteStep, KindStays, TypeParts DEF RouteGrows, IInv, PlanRowsOK
  <1>2. route # <<>> => route' # <<>>
    BY <1>1, EmptyRoute DEF RouteGrows, Positions
  <1>3. Usable(o) => Usable(o)'
    BY <1>1 DEF RouteGrows, Usable
  <1>4. decision'[o] = decision[o]
    BY Decisions DEF Served
  <1> QED
    BY <1>1, <1>2, <1>3, <1>4 DEF Served

LEMMA StillEmpty ==
    ASSUME IInv, [Next]_vars, route = <<>>
    PROVE  route' = <<>> \/ \E w \in Workers : Attach(w)
  <1>1. route \in Seq(Position) /\ route' \in Seq(Position) /\ Positions = {}
    BY RouteStep, TypeParts, EmptyRoute DEF RouteGrows, IInv, PlanRowsOK, Positions
  <1>2. ASSUME NEW w \in Workers, Choose(w) PROVE Positions' = {}
    BY <1>1, <1>2, ChooseRoute
  <1>3. ASSUME PauseCycle \/ ResumeCycle \/ CompleteCycle PROVE Positions' = {}
    BY <1>1, <1>3, SwitchRoute, CloseRoute DEF PauseCycle, ResumeCycle, Presented
  <1>4. CASE UNCHANGED cycleVars
    BY <1>4 DEF cycleVars
  <1> QED
    BY <1>1, <1>2, <1>3, <1>4, RouteCases, EmptyRoute DEF Positions

LEMMA NextOneActiveOp == IInv /\ OneActiveOp /\ [Next]_vars => OneActiveOp'
  <1> SUFFICES ASSUME IInv, OneActiveOp, [Next]_vars PROVE OneActiveOp'
    OBVIOUS
  <1> USE DEF OneActiveOp, Active
  <1>0. OpRowsOK
    BY TypeParts DEF IInv
  <1>1. ASSUME NEW w \in Workers, NEW o \in Ops, Claim(w, o) PROVE OneActiveOp'
    <2>1. \A p \in Ops : Active(p)' => Active(p)
      BY <1>0, <1>1 DEF Claim, Expired, OpRowsOK
    <2> QED
      BY <2>1
  <1>2. ASSUME NEW k \in {"prepare", "next"}, Enqueue(k) PROVE OneActiveOp'
    BY <1>0, <1>2 DEF Enqueue, OpRowsOK
  <1>3. ASSUME NEW w \in Workers, NEW status \in Settled,
               opStatus' = [opStatus EXCEPT ![held[w]] = status]
        PROVE  OneActiveOp'
    BY <1>0, <1>3 DEF OpRowsOK, Settled
  <1> QED
    BY <1>1, <1>2, <1>3, RowCases

LEMMA NextUndecided ==
    PlanInv /\ [Next]_vars => (\A o \in Ops : opStatus[o] = "absent" => decision[o] = NoDecision)'
  <1> SUFFICES ASSUME PlanInv, [Next]_vars, NEW o \in Ops, opStatus'[o] = "absent"
               PROVE  decision'[o] = NoDecision
    OBVIOUS
  <1>1. opStatus[o] = "absent" /\ decision[o] = NoDecision
    BY RowsStay, TypeParts DEF PlanInv, IInv
  <1>2. ASSUME NEW w \in Workers, Choose(w) PROVE held[w] # o
    BY <1>1, <1>2 DEF Choose, PlanInv, IInv, ThreadKnowsOp
  <1> QED
    BY <1>1, <1>2, Decisions DEF PlanInv

LEMMA NextRepeatOK == PlanInv /\ [Next]_vars => RepeatOK'
  <1> SUFFICES ASSUME PlanInv, [Next]_vars, NEW o \in Ops, Active(o)', kind'[o] = "prepare",
                      decision'[o] \in Cases, ~(Attached(o)')
               PROVE  route' = <<>>
    BY DEF RepeatOK
  <1>0. /\ IInv /\ OpRowsOK /\ PlanRowsOK /\ RouteGrows
        /\ \A w \in Workers : ThreadKnowsOp(w) /\ ChoiceOK(w)
    BY RouteStep, TypeParts DEF PlanInv, IInv
  <1>1. Active(o)
    <2>1. decision[o] = NoDecision => opStatus[o] # "absent"
      <3>1. ASSUME NEW w \in Workers, Choose(w), held[w] = o PROVE opStatus[o] # "absent"
        BY <1>0, <3>1 DEF Choose, ThreadKnowsOp
      <3> QED
        BY <1>0, <3>1, Decisions, DecisionAssumption
    <2>2. opStatus[o] # "absent"
      BY <2>1 DEF PlanInv
    <2> QED
      BY <1>0, <2>2, RowCases DEF Active, Enqueue, Claim, Expired, OpRowsOK, Settled
  <1>2. kind[o] = "prepare"
    BY <1>0, <1>1, KindStays DEF Active
  <1>3. route = <<>>
    <2>1. CASE decision[o] \in Cases
      <3>1. ~Attached(o)
        BY <1>0 DEF Attached, RouteGrows
      <3> QED
        BY <1>1, <1>2, <2>1, <3>1 DEF PlanInv, RepeatOK
    <2>2. CASE decision[o] \notin Cases
      BY <1>0, <1>2, <2>2, Decisions
    <2> QED
      BY <2>1, <2>2
  <1>4. ASSUME NEW w \in Workers, Attach(w) PROVE FALSE
    <2>1. Holds(w) /\ held[w] \in Ops /\ chosen[w] \in Ops /\ pc[w] = "attach"
      BY <1>0, <1>4 DEF Attach, ThreadKnowsOp
    <2>2. held[w] = o
      BY <1>1, <2>1 DEF Holds, Active, PlanInv, OneActiveOp
    <2>3. chosen[w] = o
      BY <1>0, <1>3, <2>1, <2>2 DEF ChoiceOK
    <2> QED
      BY <1>0, <1>4, <2>1, <2>3, AttachRoute DEF Attach, Attached, PlanRowsOK
  <1> QED
    BY <1>0, <1>3, <1>4, StillEmpty

(* A choice is kept by the steps of others. *)
LEMMA OtherChoiceOK ==
    ASSUME PlanInv, [Next]_vars, NEW v \in Workers,
           pc'[v] = pc[v], held'[v] = held[v], claim'[v] = claim[v], chosen'[v] = chosen[v],
           route' = <<>> => route = <<>>
    PROVE  ChoiceOK(v)'
  <1>0. IInv /\ ThreadKnowsOp(v) /\ ChoiceOK(v)
    BY DEF PlanInv, IInv
  <1>1. CASE pc[v] = "idle"
    BY <1>1 DEF ChoiceOK
  <1>2. CASE pc[v] # "idle"
    <2>1. /\ held[v] \in Ops /\ opStatus[held[v]] # "absent" /\ kind'[held[v]] = kind[held[v]]
          /\ Holds(v)' => Holds(v)
      BY <1>0, <1>2, KindStays, HoldsStays DEF ThreadKnowsOp
    <2>2. pc[v] \in {"check", "attach", "present"} => decision'[chosen[v]] = decision[chosen[v]]
      BY <1>0, Decisions, DecisionAssumption DEF ThreadKnowsOp, ChoiceOK
    <2>3. pc[v] = "settle" /\ Holds(v)' => Served(held[v])'
      BY <1>0, <2>1, ServedStays DEF ChoiceOK
    <2> QED
      BY <1>0, <2>1, <2>2, <2>3 DEF ChoiceOK
  <1> QED
    BY <1>1, <1>2

LEMMA AttachedMeansRoute ==
    ASSUME route \in Seq(Position), NEW o \in Ops, Attached(o)
    PROVE  route # <<>>
  BY EmptyRoute DEF Attached, Positions

(* A thread that has chosen. *)
LEMMA ChosenOK ==
    ASSUME PlanInv, [Next]_vars, NEW v \in Workers, Choose(v)
    PROVE  ChoiceOK(v)'
  <1>0. /\ IInv /\ OpRowsOK /\ PlanRowsOK /\ ThreadsOK /\ ThreadKnowsOp(v) /\ RouteGrows
        /\ route \in Seq(Position) /\ route' \in Seq(Position)
    BY RouteStep, TypeParts DEF PlanInv, IInv, PlanRowsOK, RouteGrows
  <1>1. /\ pc[v] = "choose" /\ UNCHANGED <<opStatus, kind, attempts, held, claim>>
        /\ held[v] \in Ops /\ kind[held[v]] \in {"prepare", "next"}
    BY <1>0 DEF Choose, opVars, ThreadKnowsOp, OpRowsOK
  <1>2. PICK d \in Ops :
           /\ chosen' = [chosen EXCEPT ![v] = d]
           /\ pc' = [pc EXCEPT ![v] =
                         IF NeedsGeneration(d) THEN "check" ELSE AfterPreparation(v, d)]
           /\ \/ /\ d = latest /\ kind[held[v]] = "prepare" /\ route # <<>>
                 /\ UNCHANGED <<decision, latest, route>>
              \/ /\ d = held[v] /\ (kind[held[v]] = "next" \/ route = <<>>)
                 /\ decision'[d] # NoDecision
    BY <1>0, ChooseCases
  <1>3. /\ chosen'[v] = d /\ held'[v] = held[v] /\ kind'[held[v]] = kind[held[v]]
        /\ pc'[v] = IF NeedsGeneration(d) THEN "check" ELSE AfterPreparation(v, d)
        /\ route' = <<>> => d = held[v]
        /\ kind[held[v]] = "next" => d = held[v]
    BY <1>0, <1>1, <1>2 DEF ThreadsOK
  <1>4. CASE NeedsGeneration(d)
    BY <1>3, <1>4 DEF NeedsGeneration, ChoiceOK
  <1>5. CASE ~NeedsGeneration(d) /\ kind[held[v]] = "next" /\ decision'[d] \in Cases
    BY <1>3, <1>5 DEF AfterPreparation, ChoiceOK
  <1>6. CASE ~NeedsGeneration(d) /\ ~(kind[held[v]] = "next" /\ decision'[d] \in Cases)
    <2>1. pc'[v] = "settle"
      BY <1>3, <1>6 DEF AfterPreparation
    <2>2. PICK o \in Ops : o = held[v]
      BY <1>1
    <2>3. ASSUME Holds(v)' PROVE Served(o)'
      <3>1. Active(o)
        BY <1>0, <1>1, <2>2, <2>3, HoldsStays DEF Holds, Active
      <3>2. CASE d = o /\ decision'[d] # NoDecision
        <4>1. decision'[o] \in Cases => Attached(o)
          BY <1>6, <3>2 DEF NeedsGeneration
        <4>2. decision'[o] \in Cases => Usable(o)'
          BY <1>0, <1>1, <1>3, <1>6, <2>2, <3>2, <4>1 DEF Usable, Attached, RouteGrows
        <4>3. decision'[o] # NoDecision
          BY <3>2
        <4> QED
          BY <4>2, <4>3 DEF Served, Usable
      <3>3. CASE kind[o] = "prepare" /\ route # <<>> /\ UNCHANGED <<decision, latest, route>>
        <4>1. decision[o] \in Cases => Attached(o)
          BY <3>1, <3>3 DEF PlanInv, RepeatOK
        <4>2. decision[o] \in Cases => Usable(o)'
          BY <1>1, <3>3, <4>1 DEF Usable, Attached, Positions
        <4> QED
          BY <1>1, <3>3, <4>2 DEF Served
      <3> QED
        BY <1>2, <2>2, <3>2, <3>3
    <2>4. Holds(v)' => Served(held[v])'
      BY <1>1, <2>2, <2>3 DEF Served, Usable
    <2> QED
      BY <2>1, <2>4 DEF ChoiceOK
  <1> QED
    BY <1>4, <1>5, <1>6

(* A thread that has attached the situation of its choice. *)
LEMMA AttachedOK ==
    ASSUME PlanInv, [Next]_vars, NEW v \in Workers, Attach(v)
    PROVE  ChoiceOK(v)'
  <1>0. /\ IInv /\ OpRowsOK /\ ThreadsOK /\ ThreadKnowsOp(v) /\ ChoiceOK(v) /\ RouteGrows
        /\ route \in Seq(Position) /\ route' \in Seq(Position)
    BY RouteStep, TypeParts DEF PlanInv, IInv, PlanRowsOK, RouteGrows
  <1>1. /\ pc[v] = "attach" /\ Holds(v) /\ chosen[v] \in Ops /\ held[v] \in Ops
        /\ UNCHANGED <<opStatus, kind, attempts, held, claim, chosen, decision>>
        /\ decision[chosen[v]] \in Cases
        /\ pc'[v] = IF kind[held[v]] = "next" THEN "present" ELSE "settle"
    BY <1>0 DEF Attach, AfterPreparation, opVars, planVars, ThreadKnowsOp, ThreadsOK, ChoiceOK
  <1>2. CASE kind[held[v]] = "next"
    BY <1>0, <1>1, <1>2 DEF ChoiceOK
  <1>3. CASE kind[held[v]] # "next"
    <2>1. PICK o \in Ops : o = held[v] /\ kind[o] = "prepare" /\ Active(o)
      BY <1>0, <1>1, <1>3 DEF OpRowsOK, Holds, Active
    <2>2. Attached(chosen[v])'
      BY <1>0, <1>1, AttachRoute
    <2>3. route' # <<>>
      BY <1>0, <2>2, EmptyRoute DEF Attached, Positions
    <2>4. ASSUME decision[o] \in Cases PROVE Usable(o)'
      <3>1. CASE chosen[v] = o
        BY <1>1, <2>1, <2>2, <3>1 DEF Attached, Usable
      <3>2. CASE chosen[v] # o
        <4>1. Attached(o)
          BY <1>0, <1>1, <2>1, <2>4, <3>2 DEF ChoiceOK, PlanInv, RepeatOK
        <4> QED
          BY <1>0, <1>1, <2>1, <4>1 DEF Attached, Usable, RouteGrows
      <3> QED
        BY <3>1, <3>2
    <2>5. Served(o)'
      BY <1>1, <2>1, <2>3, <2>4 DEF Served
    <2>6. Served(held[v])'
      BY <1>1, <2>1, <2>5 DEF Served, Usable
    <2> QED
      BY <1>1, <1>3, <2>6 DEF ChoiceOK
  <1> QED
    BY <1>2, <1>3

(* A thread that has presented it. *)
LEMMA PresentedOK ==
    ASSUME PlanInv, [Next]_vars, NEW v \in Workers, Present(v), pc'[v] = "settle"
    PROVE  ChoiceOK(v)'
  <1>0. ThreadsOK /\ ChoiceOK(v) /\ ThreadKnowsOp(v) /\ route \in Seq(Position)
    BY TypeParts DEF PlanInv, IInv, PlanRowsOK
  <1>1. PICK o \in Ops : /\ o = held[v] /\ o = chosen[v] /\ kind[o] = "next"
                         /\ decision[o] \in Cases
    BY <1>0 DEF Present, ChoiceOK, ThreadKnowsOp
  <1>2. UNCHANGED <<kind, held, decision>>
    BY DEF Present, opVars, planVars
  <1>3. PICK n \in Positions : route[n].op = o /\ Presentable(n) /\ StartSituation(n)
    BY <1>0, <1>1 DEF Present, ThreadsOK
  <1>4. /\ n \in Positions' /\ route'[n].op = o /\ route'[n].as = "active"
    BY <1>0, <1>3, StartRoute DEF RouteGrows
  <1>5. Served(o)'
    <2>1. decision'[o] # NoDecision
      BY <1>1, <1>2, DecisionAssumption
    <2>2. Usable(o)'
      BY <1>4 DEF Usable
    <2> QED
      BY <2>1, <2>2 DEF Served, Usable
  <1>6. Served(held[v])'
    BY <1>1, <1>2, <1>5 DEF Served, Usable
  <1> QED
    BY <1>6 DEF ChoiceOK

LEMMA NextChoiceOK == PlanInv /\ [Next]_vars => (\A v \in Workers : ChoiceOK(v))'
  <1> SUFFICES ASSUME PlanInv, [Next]_vars, NEW v \in Workers PROVE ChoiceOK(v)'
    OBVIOUS
  <1>0. /\ IInv /\ ThreadsOK /\ \A w \in Workers : ThreadKnowsOp(w) /\ ChoiceOK(w)
    BY TypeParts DEF PlanInv, IInv
  <1>1. route' = <<>> => route = <<>>
    <2>1. route \in Seq(Position) /\ RouteGrows
      BY <1>0, RouteStep, TypeParts DEF IInv, PlanRowsOK
    <2> QED
      BY <2>1, EmptyRoute DEF RouteGrows, Positions
  <1>2. CASE UNCHANGED workVars
    BY <1>1, <1>2, OtherChoiceOK DEF workVars
  <1>3. ASSUME NEW w \in Workers, BecomeIdle(w) PROVE ChoiceOK(v)'
    <2>1. CASE v = w
      BY <1>0, <1>3, <2>1 DEF BecomeIdle, ThreadsOK, ChoiceOK
    <2>2. CASE v # w
      BY <1>0, <1>1, <1>3, <2>2, OtherChoiceOK DEF BecomeIdle, ThreadsOK
    <2> QED
      BY <2>1, <2>2
  <1>4. ASSUME NEW w \in Workers, NEW o \in Ops, Claim(w, o) PROVE ChoiceOK(v)'
    <2>1. CASE v = w
      BY <1>0, <1>4, <2>1 DEF Claim, ThreadsOK, ChoiceOK
    <2>2. CASE v # w
      BY <1>0, <1>1, <1>4, <2>2, OtherChoiceOK DEF Claim, ThreadsOK
    <2> QED
      BY <2>1, <2>2
  <1>5. ASSUME NEW w \in Workers, Choose(w) PROVE ChoiceOK(v)'
    <2>1. CASE v # w
      BY <1>0, <1>1, <1>5, <2>1, OtherChoiceOK, ChooseCases DEF Choose, ThreadsOK
    <2> QED
      BY <1>5, <2>1, ChosenOK
  <1>6. ASSUME NEW w \in Workers, Attach(w) PROVE ChoiceOK(v)'
    <2>1. CASE v # w
      BY <1>0, <1>1, <1>6, <2>1, OtherChoiceOK DEF Attach, ThreadsOK
    <2> QED
      BY <1>6, <2>1, AttachedOK
  <1>7. ASSUME NEW w \in Workers, NEW label \in {"attach", "settle", "error"},
               pc' = [pc EXCEPT ![w] = label],
               label = "attach" => pc[w] = "check", label = "settle" => Present(w),
               UNCHANGED <<held, claim, chosen>>
        PROVE  ChoiceOK(v)'
    <2>1. CASE v # w
      BY <1>0, <1>1, <1>7, <2>1, OtherChoiceOK DEF ThreadsOK
    <2>2. CASE v = w /\ label = "error"
      BY <1>0, <1>7, <2>2 DEF ThreadsOK, ChoiceOK
    <2>3. CASE v = w /\ label = "settle"
      BY <1>0, <1>7, <2>3, PresentedOK DEF ThreadsOK
    <2>4. CASE v = w /\ label = "attach"
      <3>1. /\ pc[v] = "check" /\ pc'[v] = "attach" /\ held[v] \in Ops /\ chosen[v] \in Ops
            /\ opStatus[held[v]] # "absent"
        BY <1>0, <1>7, <2>4 DEF ThreadsOK, ThreadKnowsOp
      <3>2. kind'[held[v]] = kind[held[v]] /\ decision'[chosen[v]] = decision[chosen[v]]
        BY <1>0, <3>1, KindStays, Decisions, DecisionAssumption DEF ChoiceOK
      <3> QED
        BY <1>0, <1>1, <1>7, <3>1, <3>2 DEF ChoiceOK
    <2> QED
      BY <2>1, <2>2, <2>3, <2>4
  <1> QED
    BY <1>0, <1>2, <1>3, <1>4, <1>5, <1>6, <1>7, ThreadCases

LEMMA NextServed ==
    PlanInv /\ [Next]_vars => (\A o \in Ops : opStatus[o] = "completed" => Served(o))'
  <1> SUFFICES ASSUME PlanInv, [Next]_vars, NEW o \in Ops, opStatus'[o] = "completed"
               PROVE  Served(o)'
    OBVIOUS
  <1>0. IInv /\ OpRowsOK
    BY TypeParts DEF PlanInv, IInv
  <1>1. CASE opStatus[o] = "completed"
    BY <1>0, <1>1, ServedStays DEF PlanInv
  <1>2. CASE opStatus[o] # "completed"
    <2>1. PICK w \in Workers : held[w] = o /\ Complete(w)
      BY <1>0, <1>2, RowCases DEF Enqueue, Claim, OpRowsOK, Settled
    <2>2. Served(o) /\ opStatus[o] = "running"
      BY <2>1 DEF Complete, Holds, PlanInv, ChoiceOK
    <2> QED
      BY <1>0, <2>2, ServedStays
  <1> QED
    BY <1>1, <1>2

LEMMA InitPlanInv == Init => PlanInv
  <1> SUFFICES ASSUME Init PROVE PlanInv
    OBVIOUS
  <1>1. OneActiveOp /\ RepeatOK /\ \A w \in Workers : ChoiceOK(w)
    BY DEF Init, OneActiveOp, RepeatOK, Active, ChoiceOK
  <1> QED
    BY <1>1, InitIInv DEF Init, PlanInv

LEMMA PlanInvHolds == Spec => []PlanInv
  <1>1. PlanInv /\ [Next]_vars => PlanInv'
    BY NextIInv, NextOneActiveOp, NextUndecided, NextRepeatOK, NextChoiceOK, NextServed
    DEF PlanInv
  <1> QED
    BY <1>1, InitPlanInv, PTL DEF Spec

(* A completed operation whose decision names a case has attached the       *)
(* situation, and presented it when it is a next one, although generation   *)
(* and presentation are transactions that late attempts interleave with     *)
(* (_process_current_attempt).                                              *)
THEOREM CompletedIsUsable == Spec => []CompletedOperationIsUsable
  <1>1. PlanInv => CompletedOperationIsUsable
    BY DEF PlanInv, Served, Usable, CompletedOperationIsUsable
  <1> QED
    BY <1>1, PlanInvHolds, PTL

-----------------------------------------------------------------------------
(* One situation at a time, as long as nothing is chosen under a token that *)
(* was lost.                                                                *)

(* What _run_operation would have to check before it chooses, as it does    *)
(* before it generates and attaches: that the attempt holds the operation.  *)
GuardedChoice == \A w \in Workers : Choose(w) => Holds(w)

(* The active operation, once it has a decision, has the last one, and the  *)
(* thread that holds it generates and attaches for that.                    *)
LastDecision ==
    /\ \A o \in Ops : Active(o) /\ decision[o] # NoDecision => latest = o
    /\ \A w \in Workers : pc[w] \in {"check", "attach"} /\ Holds(w) => chosen[w] = latest

(* A case is decided when no situation is open and it has none yet, and     *)
(* until its own is attached none is opened.                                *)
OneOpen ==
    /\ \A m, n \in OpenPositions : m = n
    /\ latest # 0 /\ decision[latest] \in Cases /\ ~Attached(latest) =>
           OpenPositions = {} /\ ~Used(decision[latest])

(* Every position has a case of its own. *)
CaseOnce ==
    /\ \A n \in Positions : decision[route[n].op] \in Cases
    /\ \A m, n \in Positions : decision[route[m].op] = decision[route[n].op] => m = n

ChoiceInv == LastDecision /\ OneOpen /\ CaseOnce

(* A step that leaves an operation active found it active or absent. *)
LEMMA ActiveBefore ==
    ASSUME IInv, [Next]_vars, NEW o \in Ops, Active(o)', opStatus[o] # "absent"
    PROVE  Active(o)
  BY RowCases, TypeParts DEF IInv, Active, Enqueue, Claim, Expired, OpRowsOK, Settled

(* A decision is saved by a choice that finds none under the key. *)
LEMMA Deciding ==
    ASSUME IInv, [Next]_vars
    PROVE  \/ UNCHANGED <<decision, latest>>
           \/ \E w \in Workers :
                /\ Choose(w) /\ held[w] \in Ops /\ decision[held[w]] = NoDecision
                /\ latest' = held[w]
                /\ \E c \in Choices : decision' = [decision EXCEPT ![held[w]] = c]
  <1>1. ASSUME NEW w \in Workers, Choose(w), ~UNCHANGED <<decision, latest>>
        PROVE  /\ held[w] \in Ops /\ decision[held[w]] = NoDecision /\ latest' = held[w]
               /\ \E c \in Choices : decision' = [decision EXCEPT ![held[w]] = c]
    <2>1. held[w] \in Ops /\ ChooseNext(held[w])
      BY <1>1 DEF Choose, IInv, ThreadKnowsOp
    <2> QED
      BY <1>1, <2>1 DEF ChooseNext
  <1> QED
    BY <1>1
    DEF Next, WorkerStep, Participant, Enqueue, Claim, CheckAttempt, Attach, DiscardStale,
        Present, Complete, RaiseError, Fail, Lose, Heartbeat, Age, StartPrepared,
        FinishSituation, PauseCycle, ResumeCycle, CompleteCycle, ParticipantOnly, vars, planVars

(* A thread that has chosen and neither attached nor presented. *)
LEMMA GoesOn ==
    ASSUME IInv, [Next]_vars, NEW v \in Workers, pc'[v] \in {"check", "attach"}, ~Choose(v)
    PROVE  /\ pc[v] \in {"check", "attach"} /\ held'[v] = held[v] /\ claim'[v] = claim[v]
           /\ chosen'[v] = chosen[v]
  <1>0. ThreadsOK
    BY TypeParts DEF IInv
  <1>1. ASSUME NEW w \in Workers, Choose(w) \/ Attach(w)
        PROVE  UNCHANGED <<held, claim>> /\ pc'[v] = pc[v] /\ chosen'[v] = chosen[v]
    <2>1. ASSUME Attach(w)
          PROVE  UNCHANGED <<held, claim, chosen>> /\ v # w /\ pc'[v] = pc[v]
      BY <1>0, <2>1 DEF Attach, AfterPreparation, ThreadsOK
    <2>2. ASSUME Choose(w) PROVE UNCHANGED <<held, claim>> /\ pc'[v] = pc[v] /\ chosen'[v] = chosen[v]
      <3>1. v # w
        BY <2>2
      <3> QED
        BY <1>0, <2>2, <3>1, ChooseCases DEF Choose, ThreadsOK
    <2> QED
      BY <1>1, <2>1, <2>2
  <1>2. ASSUME NEW w \in Workers, BecomeIdle(w)
        PROVE  /\ pc'[v] = pc[v] /\ held'[v] = held[v] /\ claim'[v] = claim[v]
               /\ chosen'[v] = chosen[v]
    BY <1>0, <1>2 DEF BecomeIdle, ThreadsOK
  <1>3. ASSUME NEW w \in Workers, NEW label \in {"attach", "settle", "error"},
               pc' = [pc EXCEPT ![w] = label], label = "attach" => pc[w] = "check"
        PROVE  pc[v] \in {"check", "attach"}
    BY <1>0, <1>3 DEF ThreadsOK
  <1>4. ASSUME NEW w \in Workers, NEW o \in Ops, Claim(w, o)
        PROVE  /\ pc'[v] = pc[v] /\ held'[v] = held[v] /\ claim'[v] = claim[v]
               /\ chosen'[v] = chosen[v]
    BY <1>0, <1>4 DEF Claim, ThreadsOK
  <1>5. CASE UNCHANGED workVars
    BY <1>5 DEF workVars
  <1> QED
    BY <1>1, <1>2, <1>3, <1>4, <1>5, ThreadCases

(* Only the holder decides, and there is one; so what the holder of the     *)
(* active operation works on is not replaced while it works on it.          *)
LEMMA NextLastDecision ==
    PlanInv /\ OneHolder /\ LastDecision /\ [Next]_vars /\ GuardedChoice => LastDecision'
  <1> SUFFICES ASSUME PlanInv, OneHolder, LastDecision, [Next]_vars, GuardedChoice
               PROVE  LastDecision'
    OBVIOUS
  <1>0. IInv /\ PlanRowsOK /\ ThreadsOK /\ \A w \in Workers : ThreadKnowsOp(w)
    BY TypeParts DEF PlanInv, IInv
  <1>1. ASSUME NEW o \in Ops, Active(o)', decision'[o] # NoDecision PROVE latest' = o
    <2>1. CASE UNCHANGED <<decision, latest>>
      BY <1>0, <1>1, <2>1, ActiveBefore DEF PlanInv, LastDecision
    <2>2. ASSUME NEW w \in Workers, Choose(w), held[w] \in Ops, latest' = held[w]
          PROVE  latest' = o
      <3>1. Active(held[w]) /\ Active(o)
        BY <1>1, <2>2 DEF GuardedChoice, Holds, Active, Choose, opVars
      <3> QED
        BY <2>2, <3>1 DEF PlanInv, OneActiveOp
    <2> QED
      BY <1>0, <2>1, <2>2, Deciding
  <1>2. ASSUME NEW v \in Workers, pc'[v] \in {"check", "attach"}, Holds(v)', Choose(v)
        PROVE  chosen'[v] = latest'
    <2>1. Holds(v) /\ held[v] \in Ops /\ Active(held[v])
      BY <1>0, <1>2 DEF GuardedChoice, Choose, ThreadKnowsOp, Holds, Active
    <2>2. CASE kind[held[v]] = "prepare" /\ route # <<>>
      BY <1>0, <1>2, <2>2 DEF Choose, AfterChoice, ThreadsOK
    <2>3. CASE ~(kind[held[v]] = "prepare" /\ route # <<>>)
      <3>1. chosen'[v] = held[v] /\ ChooseNext(held[v])
        BY <1>0, <1>2, <2>3 DEF Choose, AfterChoice, ThreadsOK
      <3> QED
        BY <2>1, <3>1 DEF ChooseNext, LastDecision
    <2> QED
      BY <2>2, <2>3
  <1>3. ASSUME NEW v \in Workers, pc'[v] \in {"check", "attach"}, Holds(v)', ~Choose(v)
        PROVE  chosen'[v] = latest'
    <2>1. /\ pc[v] \in {"check", "attach"} /\ Holds(v) /\ held[v] \in Ops
          /\ chosen'[v] = chosen[v] /\ chosen[v] = latest
      BY <1>0, <1>3, GoesOn, HoldsStays DEF LastDecision, ThreadKnowsOp
    <2>2. ASSUME NEW w \in Workers, Choose(w), held[w] \in Ops PROVE FALSE
      <3>1. Holds(w) /\ pc[w] = "choose"
        BY <2>2 DEF GuardedChoice, Choose
      <3>2. held[v] = held[w]
        BY <2>1, <2>2, <3>1 DEF Holds, Active, PlanInv, OneActiveOp
      <3> QED
        BY <2>1, <3>1, <3>2 DEF OneHolder
    <2> QED
      BY <1>0, <2>1, <2>2, Deciding
  <1> QED
    BY <1>1, <1>2, <1>3 DEF LastDecision

(* What an attempt that holds the operation attaches is the last decision,  *)
(* which was made with no situation open and for a case without one.        *)
LEMMA AttachesLatest ==
    ASSUME PlanInv, ChoiceInv, NEW w \in Workers, Attach(w)
    PROVE  OneOpen' /\ CaseOnce'
  <1>0. IInv /\ PlanRowsOK /\ route \in Seq(Position) /\ ThreadKnowsOp(w) /\ ChoiceOK(w)
    BY TypeParts DEF PlanInv, IInv, PlanRowsOK
  <1>1. /\ chosen[w] = latest /\ latest \in Ops /\ latest # 0 /\ decision[latest] \in Cases
        /\ UNCHANGED <<decision, latest, chosen>>
    BY <1>0, Constants DEF Attach, ThreadKnowsOp, ChoiceOK, ChoiceInv, LastDecision, planVars
  <1>2. (Attached(latest))'
    BY <1>0, <1>1, AttachRoute DEF Attached
  <1>3. CASE UNCHANGED route
    BY <1>1, <1>2, <1>3 DEF ChoiceInv, OneOpen, CaseOnce, OpenPositions, Positions
  <1>4. CASE /\ ~Attached(latest) /\ Positions' = Positions \cup {Len(route) + 1}
             /\ route'[Len(route) + 1].op = latest /\ \A n \in Positions : route'[n] = route[n]
    <2>1. OpenPositions = {} /\ ~Used(decision[latest])
      BY <1>1, <1>4 DEF ChoiceInv, OneOpen
    <2>2. OpenPositions' \subseteq {Len(route) + 1}
      BY <1>4, <2>1 DEF OpenPositions
    <2>3. CaseOnce'
      BY <1>1, <1>4, <2>1 DEF ChoiceInv, CaseOnce, Used
    <2> QED
      BY <1>2, <2>2, <2>3 DEF OneOpen
  <1> QED
    BY <1>0, <1>1, <1>3, <1>4, AttachRoute

(* Only attaching opens a position. *)
LEMMA SamePositions ==
    ASSUME IInv, [Next]_vars, \A w \in Workers : ~Attach(w)
    PROVE  /\ Positions' = Positions /\ \A n \in Positions : route'[n].op = route[n].op
           /\ OpenPositions' \subseteq OpenPositions
  <1>1. route \in Seq(Position) /\ RouteGrows
    BY RouteStep, TypeParts DEF IInv, PlanRowsOK
  <1>2. Positions' = Positions
    <2>1. CASE UNCHANGED cycleVars
      BY <2>1 DEF cycleVars, Positions
    <2> QED
      BY <1>1, <2>1, RouteCases, ChooseRoute, StartRoute, FinishRoute, SwitchRoute, CloseRoute
      DEF PauseCycle, ResumeCycle, Presented
  <1> QED
    BY <1>1, <1>2 DEF OpenPositions, RouteGrows

LEMMA NextOneOpen ==
    PlanInv /\ ChoiceInv /\ [Next]_vars => OneOpen' /\ CaseOnce'
  <1> SUFFICES ASSUME PlanInv, ChoiceInv, [Next]_vars, \A w \in Workers : ~Attach(w)
               PROVE  OneOpen' /\ CaseOnce'
    BY AttachesLatest
  <1>0. IInv /\ PlanRowsOK /\ \A n \in Positions : route[n].op \in Ops
    BY TypeParts, RouteDomain DEF PlanInv, IInv, PlanRowsOK, Positions, Position
  <1>1. /\ Positions' = Positions /\ \A n \in Positions : route'[n].op = route[n].op
        /\ OpenPositions' \subseteq OpenPositions
    BY <1>0, SamePositions
  <1>2. \A n \in Positions : decision'[route[n].op] = decision[route[n].op]
    BY <1>0, Decisions, DecisionAssumption DEF ChoiceInv, CaseOnce
  <1>3. CaseOnce'
    BY <1>1, <1>2 DEF ChoiceInv, CaseOnce
  <1>4. ASSUME latest' # 0, decision'[latest'] \in Cases, ~(Attached(latest)')
        PROVE  OpenPositions = {} /\ ~(Used(decision[latest])')
    <2>1. CASE UNCHANGED <<decision, latest>>
      BY <1>1, <1>4, <2>1 DEF Attached, Used, ChoiceInv, OneOpen
    <2>2. ASSUME NEW w \in Workers, held[w] \in Ops, decision[held[w]] = NoDecision,
                 latest' = held[w], NEW c \in Choices,
                 decision' = [decision EXCEPT ![held[w]] = c]
          PROVE  OpenPositions = {} /\ ~(Used(decision[latest])')
      <3>1. c \in Cases /\ decision'[latest'] = c
        BY <1>0, <1>4, <2>2 DEF PlanRowsOK
      <3>2. OpenPositions = {} /\ ~Used(c)
        BY <3>1, DecisionAssumption DEF Choices
      <3> QED
        BY <1>1, <1>2, <3>1, <3>2 DEF Used
    <2> QED
      BY <1>0, <2>1, <2>2, Deciding
  <1> QED
    BY <1>1, <1>3, <1>4 DEF ChoiceInv, OneOpen

LEMMA InitChoiceInv == Init => ChoiceInv
  <1> SUFFICES ASSUME Init PROVE ChoiceInv
    OBVIOUS
  <1>1. Positions = {} /\ OpenPositions = {}
    BY DEF Init, OpenPositions, Positions
  <1> QED
    BY <1>1 DEF Init, ChoiceInv, LastDecision, OneOpen, CaseOnce, Active

LEMMA NextChoiceInv ==
    PlanInv /\ OneHolder /\ ChoiceInv /\ [Next]_vars /\ GuardedChoice => ChoiceInv'
  BY NextLastDecision, NextOneOpen DEF ChoiceInv

(* The participant has one situation open, the cycle is paused while that   *)
(* is, and no case is worked on twice.                                      *)
OneSituation ==
    /\ \A m, n \in OpenPositions : m = n
    /\ \A n \in Positions : route[n].as = "paused" => cycle = "paused"
    /\ \A m, n \in Positions : decision[route[m].op] = decision[route[n].op] => m = n

(* If only choosing looked at the token, as generating, attaching and       *)
(* completing do, late attempts could do no harm to the route: that check   *)
(* alone is missing in _run_operation.  Presenting needs none.              *)
THEOREM GuardKeepsOneSituation == Spec /\ [][GuardedChoice]_vars => []OneSituation
  <1>1. PlanInv /\ OneHolder /\ ChoiceInv /\ [Next]_vars /\ [GuardedChoice]_vars => ChoiceInv'
    <2>1. ASSUME IInv, UNCHANGED vars, NEW w \in Workers, Choose(w) PROVE FALSE
      <3>1. pc'[w] # "choose"
        BY <2>1, TypeParts DEF IInv, ThreadsOK, Choose, AfterChoice, AfterPreparation
      <3> QED
        BY <2>1, <3>1 DEF Choose, vars, workVars
    <2> QED
      BY <2>1, NextChoiceInv DEF GuardedChoice, PlanInv
  <1>2. PausedSituationInPausedCycle /\ ChoiceInv => OneSituation
    BY DEF PausedSituationInPausedCycle, ChoiceInv, OneOpen, CaseOnce, OneSituation,
           OpenPositions, Presented
  <1> QED
    BY <1>1, <1>2, InitChoiceInv, PlanInvHolds, HolderIsOne, PausedWhilePaused, PTL DEF Spec

-----------------------------------------------------------------------------
(* Until an attempt is lost, the one that works holds its operation. *)

FirstAttempts == \A o \in Ops : attempts[o] <= 1

(* One thread works, and its attempt is the operation's first.              *)
OneThread ==
    /\ \A w \in Workers : pc[w] # "idle" => Holds(w)
    /\ \A v, w \in Workers : pc[v] # "idle" /\ pc[w] # "idle" => v = w

SequentialInv == FirstAttempts => OneThread /\ ChoiceInv

(* Before a step that leaves only first attempts there were only these.     *)
LEMMA FirstBefore ==
    ASSUME OpRowsOK, [Next]_vars, FirstAttempts'
    PROVE  FirstAttempts
  <1>1. UNCHANGED attempts \/ \E p \in Ops : attempts' = [attempts EXCEPT ![p] = @ + 1]
    BY DEF Next, WorkerStep, Participant, Enqueue, Claim, Choose, CheckAttempt, Attach,
           DiscardStale, Present, Complete, RaiseError, Fail, Lose, Heartbeat, Age, StartPrepared,
           FinishSituation, PauseCycle, ResumeCycle, CompleteCycle, ParticipantOnly, vars, opVars
  <1>2. \A o \in Ops : attempts[o] \in Nat
    BY Constants DEF OpRowsOK
  <1> QED
    BY <1>1, <1>2 DEF FirstAttempts, OpRowsOK

(* A claim finds every thread idle and the operation unclaimed.             *)
LEMMA ClaimAlone ==
    ASSUME PlanInv, FirstAttempts, OneThread, FirstAttempts',
           NEW w \in Workers, NEW o \in Ops, Claim(w, o)
    PROVE  attempts[o] = 0 /\ \A v \in Workers : pc[v] = "idle"
  <1>0. OpRowsOK /\ \A v \in Workers : ThreadKnowsOp(v)
    BY TypeParts DEF PlanInv, IInv
  <1>1. attempts[o] = 0
    <2>1. attempts[o] \in Nat /\ attempts'[o] = attempts[o] + 1
      BY <1>0, Constants DEF Claim, OpRowsOK
    <2> QED
      BY <2>1 DEF FirstAttempts
  <1>2. ASSUME NEW v \in Workers, pc[v] # "idle" PROVE FALSE
    <2>1. held[v] \in Ops /\ claim[v] \in 1..attempts[held[v]] /\ Holds(v)
      BY <1>0, <1>2 DEF ThreadKnowsOp, OneThread
    <2>2. held[v] = o
      BY <2>1 DEF Holds, Claim, Expired, Active, PlanInv, OneActiveOp
    <2> QED
      BY <1>1, <2>1, <2>2
  <1> QED
    BY <1>1, <1>2

LEMMA NextOneThread ==
    ASSUME PlanInv, FirstAttempts, OneThread, [Next]_vars, FirstAttempts'
    PROVE  OneThread'
  <1>0. IInv /\ OpRowsOK /\ ThreadsOK /\ \A v \in Workers : ThreadKnowsOp(v)
    BY TypeParts DEF PlanInv, IInv
  <1>1. ASSUME NEW w \in Workers, NEW o \in Ops, Claim(w, o) PROVE OneThread'
    <2>1. attempts[o] = 0 /\ \A v \in Workers : pc[v] = "idle"
      BY <1>1, ClaimAlone
    <2>2. /\ held'[w] = o /\ claim'[w] = 1 /\ attempts'[o] = 1 /\ opStatus'[o] = "running"
          /\ \A v \in Workers : v # w => pc'[v] = "idle"
      BY <1>0, <1>1, <2>1 DEF Claim, OpRowsOK, ThreadsOK
    <2>3. o # 0
      BY Constants
    <2> QED
      BY <2>2, <2>3 DEF OneThread, Holds
  <1>2. ASSUME \A w \in Workers, o \in Ops : ~Claim(w, o),
               NEW v \in Workers, pc'[v] # "idle"
        PROVE  pc[v] # "idle" /\ held'[v] = held[v] /\ claim'[v] = claim[v]
    <2>1. ASSUME NEW w \in Workers, Choose(w) \/ Attach(w)
          PROVE  pc[v] # "idle" /\ held'[v] = held[v] /\ claim'[v] = claim[v]
      <3>1. CASE v = w
        BY <2>1, <3>1 DEF Choose, Attach
      <3>2. CASE v # w
        BY <1>0, <1>2, <2>1, <3>2, ChooseCases DEF Choose, Attach, ThreadsOK
      <3> QED
        BY <3>1, <3>2
    <2>2. ASSUME NEW w \in Workers, BecomeIdle(w)
          PROVE  pc[v] # "idle" /\ held'[v] = held[v] /\ claim'[v] = claim[v]
      BY <1>0, <1>2, <2>2 DEF BecomeIdle, ThreadsOK
    <2>3. ASSUME NEW w \in Workers, NEW label \in {"attach", "settle", "error"},
                 pc[w] # "idle", pc' = [pc EXCEPT ![w] = label],
                 UNCHANGED <<held, claim, chosen>>
          PROVE  pc[v] # "idle" /\ held'[v] = held[v] /\ claim'[v] = claim[v]
      BY <1>0, <1>2, <2>3 DEF ThreadsOK
    <2>4. CASE UNCHANGED workVars
      BY <1>2, <2>4 DEF workVars
    <2> QED
      BY <1>0, <1>2, <2>1, <2>2, <2>3, <2>4, ThreadCases
  <1>3. ASSUME \A w \in Workers, o \in Ops : ~Claim(w, o),
               NEW v \in Workers, pc'[v] # "idle"
        PROVE  Holds(v)'
    <2>1. /\ Holds(v) /\ held[v] \in Ops /\ pc[v] # "idle"
          /\ held'[v] = held[v] /\ claim'[v] = claim[v]
      BY <1>0, <1>2, <1>3 DEF OneThread, ThreadKnowsOp
    <2>2. UNCHANGED <<opStatus, attempts>> \/ \E k \in {"prepare", "next"} : Enqueue(k)
      <3>1. ASSUME NEW w \in Workers, Complete(w) \/ Fail(w), ~UNCHANGED opStatus PROVE FALSE
        <4>1. pc[w] # "idle" /\ pc'[w] = "idle"
          BY <1>0, <3>1 DEF Complete, Fail, BecomeIdle, ThreadsOK
        <4>2. v = w
          BY <2>1, <4>1 DEF OneThread
        <4> QED
          BY <1>3, <4>1, <4>2
      <3> QED
        BY <1>3, <3>1
        DEF Next, WorkerStep, Participant, Choose, CheckAttempt, Attach, DiscardStale, Present,
            Complete, RaiseError, Fail, Lose, Heartbeat, Age, StartPrepared, FinishSituation,
            PauseCycle, ResumeCycle, CompleteCycle, ParticipantOnly, vars, opVars
    <2>3. opStatus'[held[v]] = opStatus[held[v]] /\ attempts'[held[v]] = attempts[held[v]]
      BY <1>0, <2>1, <2>2 DEF Enqueue, Holds, OpRowsOK
    <2> QED
      BY <2>1, <2>3 DEF Holds
  <1> QED
    BY <1>1, <1>2, <1>3 DEF OneThread

LEMMA InitSequential == Init => SequentialInv
  BY InitChoiceInv DEF Init, SequentialInv, OneThread

LEMMA NextSequential ==
    PlanInv /\ OneHolder /\ SequentialInv /\ [Next]_vars => SequentialInv'
  <1> SUFFICES ASSUME PlanInv, OneHolder, SequentialInv, [Next]_vars, FirstAttempts'
               PROVE  OneThread' /\ ChoiceInv'
    BY DEF SequentialInv
  <1>1. FirstAttempts
    BY FirstBefore, TypeParts DEF PlanInv, IInv
  <1>2. OneThread /\ ChoiceInv
    BY <1>1 DEF SequentialInv
  <1>3. GuardedChoice
    BY <1>2 DEF GuardedChoice, Choose, OneThread
  <1> QED
    BY <1>1, <1>2, <1>3, NextOneThread, NextChoiceInv

(* Until a lease expires the participant has at most one situation open,    *)
(* although an operation chooses, attaches and presents it in transactions  *)
(* of their own (assessment_runtime/m10_product_flow.py): the one attempt   *)
(* there is chooses under a token it holds.                                 *)
THEOREM OneAtATime == Spec => []OneSituationPresented
  <1>1. SequentialInv => OneSituationPresented
    BY DEF SequentialInv, ChoiceInv, FirstAttempts, OneOpen, OpenPositions,
           OneSituationPresented, Presented
  <1> QED
    BY <1>1, InitSequential, NextSequential, PlanInvHolds, HolderIsOne, PTL DEF Spec

=============================================================================
