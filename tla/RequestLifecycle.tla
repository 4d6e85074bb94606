-------------------------- MODULE RequestLifecycle --------------------------
(***************************************************************************)
(* What src/src/network/HttpClient.zig promises the consumer of a request, *)
(* whatever happens on the way (queues, gates, interception, redirects,    *)
(* nested pumps): a submitted request is answered by exactly one callback  *)
(* - done, error or shutdown - is never heard of again once it is retired, *)
(* and borrows connections only while it is unanswered, never more of them *)
(* than the pool has.                                                      *)
(***************************************************************************)
EXTENDS Naturals, FiniteSets

CONSTANTS Reqs, Endless, Conns   \* Endless: streams the server may never end

VARIABLES phase, leased
vars == <<phase, leased>>

Init == phase = [r \in Reqs |-> "idle"] /\ leased = {}

Submit(r) == /\ phase[r] = "idle"
             /\ phase' = [phase EXCEPT ![r] = "open"]
             /\ UNCHANGED leased

(* submitSync refuses a request while the connection is going away.        *)
Refuse(r) == /\ phase[r] = "idle"
             /\ phase' = [phase EXCEPT ![r] = "gone"]
             /\ UNCHANGED leased

Borrow(r) == /\ phase[r] = "open" /\ r \notin leased
             /\ Cardinality(leased) < Conns
             /\ leased' = leased \cup {r}
             /\ UNCHANGED phase

GiveBack(r) == /\ r \in leased
               /\ leased' = leased \ {r}
               /\ UNCHANGED phase

(* The done or error callback.                                             *)
Answer(r) == /\ phase[r] = "open"
             /\ phase' = [phase EXCEPT ![r] = "answered"]
             /\ UNCHANGED leased

(* The end of the transfer, with its connection if it still has one; an    *)
(* unanswered one gets its shutdown callback in the same step.             *)
Retire(r) == /\ phase[r] \in {"open", "answered"}
             /\ phase' = [phase EXCEPT ![r] = "gone"]
             /\ leased' = leased \ {r}

Next == \E r \in Reqs : \/ Submit(r) \/ Refuse(r) \/ Borrow(r) \/ GiveBack(r)
                        \/ Answer(r) \/ Retire(r)

(* An open request is answered or retired, an answered one is retired.     *)
Fairness == \A r \in Reqs \ Endless : WF_vars(Answer(r) \/ Retire(r))

SafeSpec == Init /\ [][Next]_vars
Spec     == SafeSpec /\ Fairness
=============================================================================
