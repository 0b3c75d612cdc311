--------------------------- MODULE ProductCycleQueue ---------------------------
(***************************************************************************)
(* The preparation of one participant's product cycle: the queue           *)
(* product_cycle_preparation_operations                                    *)
(* (Api/product_cycle_preparation_queue.py), what its threads do to the    *)
(* cycle, its route and its assessment situations (m10_product_flow,       *)
(* m7_cycle_planner), and what the participant does to them meanwhile.     *)
(* Every action is one committed transaction, a read whose result is used  *)
(* in a later one, or an exception.                                        *)
(*                                                                         *)
(* The situations are generated by the LLM (functional generation).  An    *)
(* attempt is identified by its attempt_token; as every claim makes a new  *)
(* token, the number of the claim stands for it.  A participant's cycle    *)
(* and operations are touched by nobody else's.                            *)
(***************************************************************************)
EXTENDS Naturals, Sequences

CONSTANTS
    Workers,    \* queue threads, one per API worker process
    Cases,      \* the cases of the frozen route
    NoDecision, \* no route decision has been saved under the key
    Declined,   \* a decision without a case: WAITING_CURRENT_AS, OUT_OF_TIME, ...
    MaxOps,     \* bound: operations of the participant
    MaxClaims   \* bound: claims of one operation; the last one runs undisturbed

Ops == 1..MaxOps

ASSUME DecisionAssumption == NoDecision # Declined /\ {NoDecision, Declined} \cap Cases = {}
ASSUME BoundAssumption == {MaxOps, MaxClaims} \subseteq Nat

VARIABLES
    opStatus, kind, attempts,   \* the operation rows
    stale,      \* locked_at is older than ten minutes
    decision,   \* the route decision saved under an operation's key
    latest,     \* the operation whose decision was saved last
    cycle,      \* m5_cycles.status
    route,      \* m7_route_positions, by position_no, each with its situation
    pc, held, claim,   \* the worker threads
    chosen      \* the operation whose decision the thread works on

opVars == <<opStatus, kind, attempts, stale>>
planVars == <<decision, latest>>
cycleVars == <<cycle, route>>
workVars == <<pc, held, claim, chosen>>
vars == <<opVars, planVars, cycleVars, workVars>>

Processing == {"choose", "check", "attach", "present", "settle"}
Settled == {"completed", "failed"}
Presented == {"active", "paused"}
Positions == DOMAIN route

(* A position: the operation whose decision it was attached to, the status *)
(* of its assessment situation and its own state.                          *)
Position ==
    [op : Ops, as : {"admitted", "closed"} \cup Presented,
     state : {"not_presented", "in_progress", "completed"}]

TypeOK ==
    /\ opStatus \in [Ops -> {"absent", "queued", "running"} \cup Settled]
    /\ kind \in [Ops -> {"prepare", "next"}]
    /\ attempts \in [Ops -> 0..MaxClaims]
    /\ stale \in [Ops -> BOOLEAN]
    /\ decision \in [Ops -> Cases \cup {NoDecision, Declined}]
    /\ latest \in Ops \cup {0}
    /\ cycle \in {"absent", "prepared", "active", "paused", "closed"}
    /\ route \in Seq(Position)
    /\ pc \in [Workers -> {"idle", "error"} \cup Processing]
    /\ held \in [Workers -> Ops \cup {0}]
    /\ claim \in [Workers -> 0..MaxClaims]
    /\ chosen \in [Workers -> Ops \cup {0}]

Init ==
    /\ opStatus = [o \in Ops |-> "absent"]
    /\ kind = [o \in Ops |-> "prepare"]
    /\ attempts = [o \in Ops |-> 0]
    /\ stale = [o \in Ops |-> FALSE]
    /\ decision = [o \in Ops |-> NoDecision]
    /\ latest = 0
    /\ cycle = "absent"
    /\ route = <<>>
    /\ pc = [w \in Workers |-> "idle"]
    /\ held = [w \in Workers |-> 0]
    /\ claim = [w \in Workers |-> 0]
    /\ chosen = [w \in Workers |-> 0]

-----------------------------------------------------------------------------
(* Enqueueing and claiming. *)

Active(o) == opStatus[o] \in {"queued", "running"}

(* A preparation of the same content that has not failed answers the       *)
(* request, whatever its key; a next request is always a new one.          *)
AnsweredBefore(k) ==
    k = "prepare" /\ \E o \in Ops : kind[o] = "prepare" /\ opStatus[o] = "completed"

Enqueue(k) ==
    /\ k = "next" => cycle # "absent"
    /\ \A o \in Ops : ~Active(o)
    /\ ~AnsweredBefore(k)
    /\ \E o \in Ops :
        /\ opStatus[o] = "absent"
        /\ \A p \in Ops : p < o => opStatus[p] # "absent"
        /\ opStatus' = [opStatus EXCEPT ![o] = "queued"]
        /\ kind' = [kind EXCEPT ![o] = k]
    /\ UNCHANGED <<attempts, stale, planVars, cycleVars, workVars>>

(* Faulty: the last claim is not granted. *)
ExpiredEarly(o) == opStatus[o] = "running" /\ stale[o] /\ attempts[o] + 1 < MaxClaims

Expired(o) == opStatus[o] = "running" /\ stale[o]

(* Leases are recovered and an operation is taken in one transaction. *)
Claim(w, o) ==
    /\ pc[w] = "idle"
    /\ opStatus[o] = "queued" \/ Expired(o)
    /\ \A p \in Ops : p < o => opStatus[p] # "queued" /\ ~Expired(p)
    /\ attempts[o] < MaxClaims
    /\ opStatus' = [p \in Ops |->
           IF p = o THEN "running" ELSE IF Expired(p) THEN "queued" ELSE opStatus[p]]
    /\ attempts' = [attempts EXCEPT ![o] = @ + 1]
    /\ stale' = [p \in Ops |-> stale[p] /\ ~Expired(p)]
    /\ pc' = [pc EXCEPT ![w] = "choose"]
    /\ held' = [held EXCEPT ![w] = o]
    /\ claim' = [claim EXCEPT ![w] = attempts[o] + 1]
    /\ UNCHANGED <<kind, planVars, cycleVars, chosen>>

(* Faulty: the guard without AND attempt_token. *)
HoldsRunningJob(w) == held[w] # 0 /\ opStatus[held[w]] = "running"

(* status = 'running' AND attempt_token = the token of the claim. *)
Holds(w) ==
    /\ held[w] # 0
    /\ opStatus[held[w]] = "running"
    /\ attempts[held[w]] = claim[w]

BecomeIdle(w) ==
    /\ pc' = [pc EXCEPT ![w] = "idle"]
    /\ held' = [held EXCEPT ![w] = 0]
    /\ claim' = [claim EXCEPT ![w] = 0]
    /\ chosen' = [chosen EXCEPT ![w] = 0]

-----------------------------------------------------------------------------
(* Choosing the next situation: committed without a look at the token. *)

(* Faulty: only a situation that waits to be started is open. *)
WaitingPositions == {n \in Positions : route[n].as = "admitted"}

OpenPositions == {n \in Positions : route[n].as # "closed"}

Used(c) == \E n \in Positions : decision[route[n].op] = c

Attached(o) == \E n \in Positions : route[n].op = o

(* Which cases still contribute, and whether there is time, is left open.  *)
Choices ==
    {Declined} \cup
    (IF cycle = "closed" \/ OpenPositions # {} THEN {} ELSE {c \in Cases : ~Used(c)})

(* Faulty: the position takes over the status of its situation. *)
StatusOfSituation(p) == IF p.as = "closed" THEN "closed" ELSE p.state

StateAfterClosing(p) == IF p.as = "closed" THEN "completed" ELSE p.state

CompleteClosed(rows) ==
    [n \in DOMAIN rows |-> [rows[n] EXCEPT !.state = StateAfterClosing(rows[n])]]

(* Faulty: only the attempt that saved the decision generates. *)
OnlyWhenNew(o) == decision'[o] \in Cases /\ decision[o] = NoDecision

NeedsGeneration(o) == decision'[o] \in Cases /\ ~Attached(o)

(* What follows when the decision of d is ready for the operation of w. *)
AfterPreparation(w, d) ==
    IF kind[held[w]] = "next" /\ decision'[d] \in Cases THEN "present" ELSE "settle"

AfterChoice(w, d) ==
    /\ chosen' = [chosen EXCEPT ![w] = d]
    /\ pc' = [pc EXCEPT ![w] = IF NeedsGeneration(d) THEN "check" ELSE AfterPreparation(w, d)]

(* choose_next: one decision under a key, however often it is asked for. *)
ChooseNext(o) ==
    /\ route' = CompleteClosed(route)
    /\ IF decision[o] # NoDecision
       THEN UNCHANGED <<decision, latest>>
       ELSE /\ \E d \in Choices : decision' = [decision EXCEPT ![o] = d]
            /\ latest' = o

(* prepare creates the cycle with its plan, or finds it; once there is a   *)
(* situation it only returns the last decision.                            *)
Choose(w) ==
    /\ pc[w] = "choose"
    /\ cycle' = IF cycle = "absent" THEN "prepared" ELSE cycle
    /\ UNCHANGED <<opVars, held, claim>>
    /\ IF kind[held[w]] = "prepare" /\ route # <<>>
       THEN UNCHANGED <<decision, latest, route>> /\ AfterChoice(w, latest)
       ELSE ChooseNext(held[w]) /\ AfterChoice(w, held[w])

-----------------------------------------------------------------------------
(* Generation and presentation. *)

(* The token is read before the generation is paid for. *)
CheckAttempt(w) ==
    /\ pc[w] = "check"
    /\ IF Holds(w)
       THEN /\ pc' = [pc EXCEPT ![w] = "attach"]
            /\ UNCHANGED <<held, claim, chosen>>
       ELSE BecomeIdle(w)
    /\ UNCHANGED <<opVars, planVars, cycleVars>>

(* The generated situation is stored and attached to the decision, if the  *)
(* decision has none yet; the lock of the token's check is kept until the  *)
(* commit.                                                                 *)
Attach(w) ==
    /\ pc[w] = "attach"
    /\ Holds(w)
    /\ IF Attached(chosen[w])
       THEN UNCHANGED route
       ELSE /\ cycle # "closed"
            /\ route' = Append(route, [op |-> chosen[w], as |-> "admitted", state |-> "not_presented"])
    /\ UNCHANGED <<opVars, planVars, cycle, held, claim, chosen>>
    /\ pc' = [pc EXCEPT ![w] = AfterPreparation(w, chosen[w])]

(* An attempt that finds itself stale is discarded. *)
DiscardStale(w) ==
    /\ pc[w] \in {"attach", "settle"}
    /\ ~Holds(w)
    /\ BecomeIdle(w)
    /\ UNCHANGED <<opVars, planVars, cycleVars>>

(* Faulty: a closed situation is presented once more. *)
NotPaused(n) == route[n].as # "paused"

Presentable(n) == route[n].as \in {"admitted", "active"}

(* m7_cycle_planner.present: it starts the cycle and the situation. *)
StartSituation(n) ==
    /\ cycle' = "active"
    /\ route' = [route EXCEPT ![n].as = "active",
                            ![n].state = IF @ = "not_presented" THEN "in_progress" ELSE @]

(* Faulty: the cycle stays resumed when the presentation is refused. *)
ResumedAnyway == IF cycle = "paused" THEN "active" ELSE cycle

CycleAfterRollback == cycle

(* present_prepared_next, without a look at the token: a paused cycle is   *)
(* resumed and the situation presented, or all of it is rolled back.       *)
Present(w) ==
    /\ pc[w] = "present"
    /\ \/ \E n \in Positions :
          /\ route[n].op = chosen[w]
          /\ cycle # "closed"
          /\ Presentable(n)
          /\ StartSituation(n)
          /\ pc' = [pc EXCEPT ![w] = "settle"]
       \/ /\ \A n \in Positions :
               route[n].op = chosen[w] => cycle = "closed" \/ ~Presentable(n)
          /\ cycle' = CycleAfterRollback
          /\ pc' = [pc EXCEPT ![w] = "error"]
          /\ UNCHANGED route
    /\ UNCHANGED <<opVars, planVars, held, claim, chosen>>

-----------------------------------------------------------------------------
(* How an attempt ends. *)

Complete(w) ==
    /\ pc[w] = "settle"
    /\ Holds(w)
    /\ opStatus' = [opStatus EXCEPT ![held[w]] = "completed"]
    /\ stale' = [stale EXCEPT ![held[w]] = FALSE]
    /\ BecomeIdle(w)
    /\ UNCHANGED <<kind, attempts, planVars, cycleVars>>

(* Anything but a stale token rolls the open transaction back: an LLM      *)
(* failure, a situation that is not admitted, a lost database.             *)
RaiseError(w) ==
    /\ pc[w] \in Processing
    /\ pc' = [pc EXCEPT ![w] = "error"]
    /\ UNCHANGED <<opVars, planVars, cycleVars, held, claim, chosen>>

(* An operation fails at its first error. *)
Fail(w) ==
    /\ pc[w] = "error"
    /\ IF Holds(w)
       THEN /\ opStatus' = [opStatus EXCEPT ![held[w]] = "failed"]
            /\ stale' = [stale EXCEPT ![held[w]] = FALSE]
       ELSE UNCHANGED <<opStatus, stale>>
    /\ BecomeIdle(w)
    /\ UNCHANGED <<kind, attempts, planVars, cycleVars>>

(* The process dies, or the failure cannot be written; not in the last     *)
(* claim.                                                                  *)
Lose(w) ==
    /\ held[w] # 0
    /\ claim[w] < MaxClaims
    /\ BecomeIdle(w)
    /\ UNCHANGED <<opVars, planVars, cycleVars>>

(* The heartbeat thread ends with the attempt, before a failure is written. *)
Heartbeat(w) ==
    /\ pc[w] \in Processing
    /\ Holds(w)
    /\ stale[held[w]]
    /\ stale' = [stale EXCEPT ![held[w]] = FALSE]
    /\ UNCHANGED <<opStatus, kind, attempts, planVars, cycleVars, workVars>>

(* A heartbeat may come too late, except in the last claim. *)
Age(o) ==
    /\ opStatus[o] = "running"
    /\ ~stale[o]
    /\ attempts[o] < MaxClaims
    /\ stale' = [stale EXCEPT ![o] = TRUE]
    /\ UNCHANGED <<opStatus, kind, attempts, planVars, cycleVars, workVars>>

-----------------------------------------------------------------------------
(* The participant. *)

ParticipantOnly == UNCHANGED <<opVars, planVars, workVars>>

(* start_prepared: presents the latest open situation; when it is active,  *)
(* or the cycle is paused, nothing changes.                                *)
StartPrepared(n) ==
    /\ \A m \in OpenPositions : m <= n
    /\ route[n].as = "admitted"
    /\ cycle \in {"prepared", "active"}
    /\ StartSituation(n)
    /\ ParticipantOnly

(* The scenario ends and the participant closes the situation of the first *)
(* position in progress.                                                   *)
FinishSituation(n) ==
    /\ cycle = "active"
    /\ route[n].state = "in_progress"
    /\ \A m \in Positions : route[m].state = "in_progress" => n <= m
    /\ route[n].as = "active"
    /\ route' = [route EXCEPT ![n].as = "closed"]
    /\ cycle' = "paused"
    /\ ParticipantOnly

(* Pausing and resuming apply to the latest presented situation, if any. *)
SwitchPresented(from, to) ==
    LET presented == {n \in Positions : route[n].as \in Presented} IN
    route' = [n \in Positions |->
        IF n \in presented /\ (\A m \in presented : m <= n) /\ route[n].as = from
        THEN [route[n] EXCEPT !.as = to] ELSE route[n]]

PauseCycle ==
    /\ cycle = "active"
    /\ cycle' = "paused"
    /\ SwitchPresented("active", "paused")
    /\ ParticipantOnly

ResumeCycle ==
    /\ cycle = "paused"
    /\ cycle' = "active"
    /\ SwitchPresented("paused", "active")
    /\ ParticipantOnly

(* The participant completes or refuses, or the time is up. *)
CompleteCycle ==
    /\ cycle \in {"prepared", "active", "paused"}
    /\ cycle' = "closed"
    /\ route' = CompleteClosed([n \in Positions |-> [route[n] EXCEPT !.as = "closed"]])
    /\ ParticipantOnly

-----------------------------------------------------------------------------
WorkerStep(w) ==
    \/ \E o \in Ops : Claim(w, o)
    \/ Choose(w) \/ CheckAttempt(w) \/ Attach(w) \/ DiscardStale(w) \/ Present(w)
    \/ Complete(w) \/ RaiseError(w) \/ Fail(w)

Participant ==
    \/ \E k \in {"prepare", "next"} : Enqueue(k)
    \/ \E n \in Positions : StartPrepared(n) \/ FinishSituation(n)
    \/ PauseCycle \/ ResumeCycle \/ CompleteCycle

Next ==
    \/ \E w \in Workers : WorkerStep(w) \/ Lose(w) \/ Heartbeat(w)
    \/ \E o \in Ops : Age(o)
    \/ Participant

Spec == Init /\ [][Next]_vars

(* No thread works on the operation any more. *)
Abandoned(o) == \A w \in Workers : ~(Holds(w) /\ held[w] = o)

(* Threads of a started process run on, calls return or time out, and the  *)
(* lease of a lost attempt expires.                                        *)
FairSpec ==
    /\ Spec
    /\ \A w \in Workers : WF_vars(WorkerStep(w))
    /\ \A o \in Ops : WF_vars(Abandoned(o) /\ Age(o))

-----------------------------------------------------------------------------
(* Properties *)

(* While no attempt has been lost, the participant works on one situation  *)
(* at a time, whichever operations chose, attached and presented it.       *)
OneSituationPresented ==
    (\A o \in Ops : attempts[o] <= 1) =>
        \A m, n \in Positions : {route[m].as, route[n].as} \subseteq Presented => m = n

(* A completed operation whose own decision names a case has attached its  *)
(* situation, and a next one has presented it.                             *)
CompletedOperationIsUsable ==
    \A o \in Ops : opStatus[o] = "completed" /\ decision[o] \in Cases =>
        \E n \in Positions :
            /\ route[n].op = o
            /\ kind[o] = "next" => route[n].as # "admitted"

(* While the participant has paused the situation, the time does not run   *)
(* for it: the cycle is paused too, or another situation is presented.  An *)
(* expired attempt that presents late does not resume the cycle.           *)
PausedSituationInPausedCycle ==
    \A n \in Positions : route[n].as = "paused" =>
        cycle = "paused" \/ \E m \in Positions \ {n} : route[m].as \in Presented

(* A situation that was closed is never presented again. *)
ClosedSituationStays ==
    [][\A n \in Positions : route[n].as = "closed" => route'[n].as = "closed"]_vars

(* Every operation is completed or failed in the end. *)
OperationSettles == \A o \in Ops : Active(o) ~> opStatus[o] \in Settled

QueueStatus(o) ==
    CASE opStatus[o] = "absent" -> "none"
      [] opStatus[o] = "queued" -> "waiting"
      [] opStatus[o] = "running" -> "taken"
      [] opStatus[o] = "completed" -> "done"
      [] OTHER -> "failed"

Queue == INSTANCE FencedQueue WITH
    Jobs <- Ops,
    status <- [o \in Ops |-> QueueStatus(o)],
    epoch <- attempts,
    claim <- [w \in Workers |-> [job |-> held[w], epoch |-> claim[w]]]

(* The queue implements the abstract one: only the latest claim settles an *)
(* operation, once.                                                        *)
ImplementsFencedQueue == Queue!Spec

=============================================================================
