---------------------------- MODULE MC_HttpClient ----------------------------
(* Instances of HttpClient for TLC.  Transfers, frames and keys are named   *)
(* by strings; each configuration picks the requests its question needs.    *)
EXTENDS HttpClient

Second == {"b", "sync2", "stream2"}        \* requests of the second frame
MCOwnerOf == [t \in Reqs |-> IF t \in Second THEN "frame2" ELSE "frame1"]

NoKeys    == [g \in Gates |-> [t \in Reqs |-> None]]
(* Everything asks for the same robots.txt.                                 *)
RobotsKey == [g \in Gates |-> [t \in Reqs |-> IF g = "robots" THEN "k" ELSE None]]
(* ... and the ones that are neither navigations nor synchronous need the   *)
(* same preflight first.                                                    *)
BothKeys  == [g \in Gates |-> [t \in Reqs |->
                IF g = "robots" \/ t \notin SyncReqs \cup DocReqs THEN "k" ELSE None]]
=============================================================================
