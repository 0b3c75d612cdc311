---------------------------- MODULE MCM10Pipeline ----------------------------
EXTENDS M10Pipeline, TLC

CONSTANTS s1, s2

MCEvidence == {Evidence(s, b) : s \in Situations, b \in Boundaries}
MCRequests == MCEvidence \cup {Assessment(s, b) : s \in Situations, b \in Boundaries}

MCOne == {s1}
MCTwo == {s1, s2}

(* Two boundaries of one situation; the other one is closed with the cycle. *)
MCBoundaries == [s \in Situations |-> IF s = s1 THEN 2 ELSE 0]
MCBoundary == [s \in Situations |-> IF s = s1 THEN 1 ELSE 0]
=============================================================================
