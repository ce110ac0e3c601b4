----------------------------- MODULE MCServices -----------------------------
(* The instance of Services that TLC checks. *)
EXTENDS Services

MCReplicaOf == [q \in Requests |-> IF q = "q1" THEN "r1" ELSE "r2"]
MCMaxOf == [l \in Limits |-> 2]
MCWindowOf == [l \in Limits |-> IF l = "event" THEN 2 ELSE 3]

=============================================================================
