--------------------------- MODULE MC_NavThrottle ---------------------------
(* Instances of NavThrottle for TLC: two workers and two hosts, each worker *)
(* with navigations to both.                                                *)
EXTENDS NavThrottle

MCWorkerOf == [r \in Requests |-> IF r \in {"a", "b", "x", "y"} THEN "w1" ELSE "w2"]
MCHostOf   == [r \in Requests |-> IF r \in {"x", "y"} THEN "h2" ELSE "h1"]
=============================================================================
