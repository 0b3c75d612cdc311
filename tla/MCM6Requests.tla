---------------------------- MODULE MCM6Requests ----------------------------
EXTENDS M6Requests, TLC

CONSTANTS e1, a1

MCEvidence == {e1}
MCRequests == {e1, a1}

FairSpec == RequestsSpec /\ WorkersFair /\ LeasesEnd
=============================================================================
