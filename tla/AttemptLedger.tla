---------------------------- MODULE AttemptLedger ----------------------------
(* What the processing requests of M6 promise about the answers of a        *)
(* provider: the attempts of a request are numbered, at most the newest one *)
(* is open, only an open attempt can be accepted, and an accepted answer is *)
(* the last word: nothing is attempted after it.                            *)
EXTENDS Naturals

CONSTANT Requests

VARIABLES
    begun,    \* request -> how many attempts were begun
    open,     \* request -> the attempt whose answer still counts, or 0
    accepted  \* request -> the attempt whose answer was accepted, or 0

vars == <<begun, open, accepted>>

Init ==
    /\ begun = [r \in Requests |-> 0]
    /\ open = [r \in Requests |-> 0]
    /\ accepted = [r \in Requests |-> 0]

Begin(r) ==
    /\ accepted[r] = 0 /\ open[r] = 0
    /\ begun' = [begun EXCEPT ![r] = @ + 1]
    /\ open' = [open EXCEPT ![r] = begun[r] + 1]
    /\ UNCHANGED accepted

Accept(r) ==
    /\ open[r] # 0
    /\ accepted' = [accepted EXCEPT ![r] = open[r]]
    /\ open' = [open EXCEPT ![r] = 0]
    /\ UNCHANGED begun

(* It has failed, or its time is over. *)
GiveUp(r) ==
    /\ open[r] # 0
    /\ open' = [open EXCEPT ![r] = 0]
    /\ UNCHANGED <<begun, accepted>>

Next == \E r \in Requests : Begin(r) \/ Accept(r) \/ GiveUp(r)

Spec == Init /\ [][Next]_vars
=============================================================================
