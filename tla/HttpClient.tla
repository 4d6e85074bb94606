----------------------------- MODULE HttpClient -----------------------------
(***************************************************************************)
(* The HTTP client of one worker thread (src/src/network/HttpClient.zig)   *)
(* with its two single-flight gates (RobotsGate, CorsGate), the connection *)
(* pool of Network.zig and the Fetch-interception table of                 *)
(* server/cdp/domains/fetch.zig.                                           *)
(*                                                                         *)
(* Everything here runs on ONE thread, so what can go wrong is re-entrancy:*)
(* a consumer callback runs JavaScript, JavaScript starts, cancels or      *)
(* tears down other transfers, and a synchronous request pumps the client  *)
(* again from inside that callback.  The call stack is therefore state:    *)
(* `stack' holds the frames of the functions that are still running, top   *)
(* first, and every action is one straight-line piece of the frame on top. *)
(***************************************************************************)
EXTENDS Integers, FiniteSets, SequencesExt

CONSTANTS
  Reqs,          \* requests of consumers (XHR, fetch, EventSource, scripts)
  Fetches,       \* slots for the gates' own internal requests
  Owners,        \* frames / workers: one HttpClient.Owner each
  Keys,          \* robots.txt urls and preflight keys
  None,
  OwnerOf,       \* [Reqs -> Owners]
  KeyOf,         \* ["robots" and "cors" -> [Reqs -> Keys \cup {None}]]
  SyncReqs,      \* requests made with submitSync
  DocReqs,       \* resource_type == .document
  StreamReqs,    \* req.streaming (EventSource)
  ModuleReqs,    \* scripts that an import statement waits for
  ThrottledReqs, \* req.throttle
  Conns,         \* size of the connection pool
  MaxHops,       \* redirects + auth retries of one transfer
  ServeMode,     \* a CDP client is attached and may intercept
  Hazards        \* re-entrancies a consumer may produce, see HazardNames

Ids   == Reqs \cup Fetches
Gates == {"robots", "cors"}
Slots == Gates \X Keys

(* Behaviours of a consumer (or of libcurl) under which the client does     *)
(* NOT keep what its comments say; section 6 of README.md explains each.    *)
HazardNames ==
  {"errSync",          \* an error_callback run by abort() makes a sync request
   "streamAbortSync",  \* a nested pump sees the end of an aborted stream
   "cancelDetached",   \* cancel() of a transfer already killed mid-delivery
   "resumeFail",       \* the pipeline of a resumed (unparked) transfer fails
   "doneFail",         \* a done_callback returns an error
   "badAnswer"}        \* a malformed Fetch.continueRequest / fulfillRequest

ASSUME Constants ==
  /\ Conns \in Nat \ {0} /\ MaxHops \in Nat /\ ServeMode \in BOOLEAN
  /\ Hazards \subseteq HazardNames
  /\ Reqs \cap Fetches = {} /\ None \notin Ids \cup Owners \cup Keys
  /\ Owners \cap {"page", "client"} = {}
  /\ OwnerOf \in [Reqs -> Owners]
  /\ KeyOf \in [Gates -> [Reqs -> Keys \cup {None}]]
  /\ SyncReqs \subseteq Reqs /\ DocReqs \subseteq Reqs
  /\ StreamReqs \subseteq Reqs /\ ThrottledReqs \subseteq Reqs
  /\ ModuleReqs \subseteq Reqs /\ IsFiniteSet(Ids)

VARIABLES
  state,         \* Transfer.state; "none" before newRequest
  retired,       \* _retired: deinit ran, the transfer is on the graveyard
  owner,         \* Transfer.owner: linked in that owner's list
  events,        \* _events still to be delivered
  started,       \* res.stream.started
  outcome,       \* history: the done/error/shutdown callbacks that ran
  settled,       \* _outcome_delivered
  notified,      \* _notified_fail
  detached,      \* detachInDelivery replaced the callbacks with no-ops
  hops,          \* _redirect_count + auth retries
  pending,       \* pending_queue: waiting for a connection
  delayed,       \* delayed_queue: waiting for a per-host slot
  delayedCount,
  dispatch,      \* dispatch_queue
  gated,         \* gated_queue
  dispatchCount,
  conns,         \* transfers whose connection is in the multi handle
  free,          \* connections left in the pool
  open,          \* SingleFlight.pending has an entry
  waiters,       \* ... and the transfers parked behind it
  fetchOf,       \* which entry an internal request will resolve
  verdict,       \* robot_store
  blocking,      \* blocking_requests: owner -> the sync request it is in
  held,          \* InterceptState.waiting: transfers CDP may still answer
  intercepted,   \* Client.intercepted
  mailbox,       \* teardown message sitting in the driver's inbox
  disconnected,  \* Client.disconnected, or the driver's loop has ended
  fault,         \* lp.assert / debug assertions that failed
  stack

lvars  == <<state, retired, owner>>
cbvars == <<outcome, settled, notified, detached>>
evars  == <<events, started, hops>>
qvars  == <<pending, delayed, delayedCount>>
dvars  == <<dispatch, gated, dispatchCount>>
nvars  == <<conns, free>>
gvars  == <<open, waiters, fetchOf, verdict>>
cvars  == <<held, intercepted>>
mvars  == <<mailbox, disconnected>>
vars   == <<lvars, cbvars, evars, qvars, dvars, nvars, gvars, blocking, cvars,
            mvars, fault, stack>>
(* What only callbacks, gates and the dispatcher touch.                    *)
idle   == <<evars, qvars, dvars, nvars, fetchOf, verdict, blocking, cvars,
            mvars>>

Parked == {"parked_intercept", "parked_auth", "parked_robots", "parked_cors"}
States == {"none", "created", "queued", "delayed", "buffered", "inflight",
           "delivering", "aborted"} \cup Parked
Live   == {t \in Ids : state[t] # "none" /\ t \notin retired}

-----------------------------------------------------------------------------
(* Frames of the call stack                                                *)

Stages == {"start", "after_intercept", "after_cors", "throttle", "network",
           "failed"}
TickOrder == <<"ungate", "dispatch", "delayed", "pending", "process",
               "delayed", "pending", "ungate", "dispatch", "drain">>
TransferOps == {"js", "pipe", "abort", "flush", "sync", "import", "deliver",
                "finish"}
Ops == TransferOps \cup {"tick", "release", "stop", "kill"}

(* op: the function; id: what it works on; how: a variant of it; pc: the   *)
(* step a tick is at, or who called the pipeline; todo: the waiters a      *)
(* flush still has to resume; old: the transfers that existed when         *)
(* cancelRequests was called.                                              *)
Frame(op, id, how, pc, todo) ==
  [op |-> op, id |-> id, how |-> how, pc |-> pc, todo |-> todo, old |-> {}]

(* Callers of the pipeline: the first and the last clean up a failure with *)
(* abortPipelineError, the other two with failAsync.                       *)
Submitter == 0   \* Transfer.submit
Ticker    == 1   \* startPending, startDelayed
Redirect  == 2   \* processMessages
Resumer   == 3   \* a gate's flushPending, a CDP answer

Js(t, cb)        == Frame("js", t, cb, 0, <<>>)
Tick(mode)       == Frame("tick", None, mode, 1, <<>>)
Pipe(t, stage, who) == Frame("pipe", t, stage, who, <<>>)
Abort(t, saved)  == Frame("abort", t, saved, 0, <<>>)
Flush(f, how, q) == Frame("flush", f, how, 0, q)
Sync(t, how)     == Frame("sync", t, how, 0, <<>>)
Import(t, how)   == Frame("import", t, how, 0, <<>>)
Stop(o, ids)     == [Frame("stop", o, "", 0, <<>>) EXCEPT !.old = ids]
Release(o)       == Frame("release", o, "", 0, <<>>)
Kill(o)          == Frame("kill", o, "", 0, <<>>)
Deliver(t, how)  == Frame("deliver", t, how, 0, <<>>)
Finish(t)        == Frame("finish", t, "", 0, <<>>)

(* Names that end in _bug are not part of the model: each is the definition *)
(* after it with a slip a maintainer could make, for the mutation runs.     *)

Running(op) == stack # <<>> /\ Head(stack).op = op
Top     == Head(stack)
Below   == Tail(stack)
OnStack(op) == \E i \in DOMAIN stack : stack[i].op = op
At(step) == Running("tick") /\ TickOrder[Top.pc] = step
SyncWait == Top.how = "sync_wait"

-----------------------------------------------------------------------------
(* Pieces of handlers                                                      *)

IndexOf(s, t) == CHOOSE i \in 1..Len(s) : s[i] = t
Unlink(s, t)  == IF Contains(s, t) THEN RemoveAt(s, IndexOf(s, t)) ELSE s
SwapRemove(s, t) ==
  IF Contains(s, t)
  THEN SubSeq([s EXCEPT ![IndexOf(s, t)] = s[Len(s)]], 1, Len(s) - 1)
  ELSE s

Linked(t) == Contains(dispatch, t) \/ Contains(gated, t)
Broken(name, bad) == IF bad THEN {name} ELSE {}
Trip(name, bad) == fault' = fault \cup Broken(name, bad)
NotParked(t) == Broken("unpark", state[t] \notin Parked)

removeConn_bug(t) == UNCHANGED nvars

removeConn(t) ==
  /\ conns' = conns \ {t}
  /\ free' = IF t \in conns THEN free + 1 ELSE free

leaveIntercept(st) ==
  intercepted' = IF st \in {"parked_intercept", "parked_auth"}
                 THEN intercepted - 1 ELSE intercepted

(* Links a transfer that is already in the dispatch list a second time.     *)
scheduleDispatch_bug(t, st, evs, broken) ==
  /\ events' = [events EXCEPT ![t] = @ \o evs]
  /\ fault' = fault \cup broken
  /\ IF st = "delivering" THEN UNCHANGED dvars
     ELSE /\ dispatch' = Append(dispatch, t)
          /\ dispatchCount' = dispatchCount + 1
          /\ UNCHANGED gated
  /\ state' = [state EXCEPT ![t] = IF st = "delivering" THEN st
                                   ELSE "buffered"]

(* Append events and hand the transfer, whose state is st, to the          *)
(* dispatcher: failAsync and bufferEvents, both through scheduleDispatch.  *)
(* `broken' are the assertions that failed on the way here.                *)
scheduleDispatch(t, st, evs, broken) ==
  /\ events' = [events EXCEPT ![t] = @ \o evs]
  /\ fault' = fault \cup broken
       \cup Broken("schedule", st \notin {"created", "inflight", "delivering"})
  /\ IF st = "delivering" \/ Linked(t)
     THEN UNCHANGED dvars
     ELSE /\ dispatch' = Append(dispatch, t)
          /\ dispatchCount' = dispatchCount + 1
          /\ UNCHANGED gated
  /\ state' = [state EXCEPT ![t] = IF st = "delivering" THEN st
                                   ELSE "buffered"]

detachInDelivery_bug(t) ==          \* stays in its owner's list
  /\ state' = [state EXCEPT ![t] = "aborted"]
  /\ detached' = detached \cup {t}
  /\ UNCHANGED owner

detachInDelivery(t) ==
  /\ state' = [state EXCEPT ![t] = "aborted"]
  /\ detached' = detached \cup {t}
  /\ owner' = [owner EXCEPT ![t] = None]

(* Leaves a transfer that is complete in the dispatch queue.                *)
unlink_bug(t, st) ==
  /\ pending' = IF st = "queued" THEN Unlink(pending, t) ELSE pending
  /\ delayed' = IF st = "delayed" THEN Unlink(delayed, t) ELSE delayed
  /\ delayedCount' = delayedCount - (IF st = "delayed" THEN 1 ELSE 0)
  /\ UNCHANGED dvars

(* deinit takes the transfer off whatever queue it is on.                   *)
unlink(t, st) ==
  /\ pending' = IF st = "queued" THEN Unlink(pending, t) ELSE pending
  /\ delayed' = IF st = "delayed" THEN Unlink(delayed, t) ELSE delayed
  /\ delayedCount' = delayedCount - (IF st = "delayed" THEN 1 ELSE 0)
  /\ dispatch' = Unlink(dispatch, t)
  /\ gated' = Unlink(gated, t)
  /\ dispatchCount' = dispatchCount - (IF Linked(t) THEN 1 ELSE 0)

(* Transfer.deinit of a transfer in state st, without its gate entry.      *)
deinit(t, st) ==
  IF t \in retired
  THEN /\ fault' = fault \cup {"deinit"}
       /\ UNCHANGED <<state, retired, owner, qvars, dvars, nvars, intercepted>>
  ELSE /\ retired' = retired \cup {t}
       /\ state' = [state EXCEPT ![t] = st]
       /\ leaveIntercept(st)
       /\ removeConn(t)
       /\ Trip("unlink", \/ st = "queued"  /\ ~Contains(pending, t)
                         \/ st = "delayed" /\ ~Contains(delayed, t))
       /\ unlink(t, st)
       /\ owner' = [owner EXCEPT ![t] = None]

gateRemove_bug(t, st) == UNCHANGED waiters

(* RobotsGate.remove / CorsGate.remove, the gate half of deinit.           *)
gateRemove(t, st) ==
  IF st \notin {"parked_robots", "parked_cors"} \/ t \in retired
  THEN UNCHANGED waiters
  ELSE waiters' = [s \in Slots |->
                     IF (s[1] = "robots") <=> (st = "parked_robots")
                     THEN SwapRemove(waiters[s], t) ELSE waiters[s]]

take_bug(f, how, below) ==          \* loses the waiters of the entry
  /\ stack' = below
  /\ open' = open \ {fetchOf[f]}
  /\ waiters' = [waiters EXCEPT ![fetchOf[f]] = <<>>]

(* flushPending of fetch f's entry: the waiters leave the table and are    *)
(* resumed one by one by the Flush frame.                                  *)
take(f, how, below) ==
  LET s == fetchOf[f] IN
  /\ stack' = IF s \in open THEN <<Flush(f, how, waiters[s])>> \o below
              ELSE below
  /\ open' = open \ {s}
  /\ waiters' = [waiters EXCEPT ![s] = <<>>]

(* A consumer callback that runs JavaScript gets a frame.  SyncContext's   *)
(* callbacks, the no-ops of a detached transfer and a module script whose  *)
(* manager is waiting for an import (is_evaluating) only return.           *)
Quiet(t) ==
  \/ t \in SyncReqs \cup detached
  \/ /\ t \in ModuleReqs
     /\ \E i \in DOMAIN stack : /\ stack[i].op = "import"
                               /\ OwnerOf[stack[i].id] = OwnerOf[t]
Callback(t, cb, below) == IF Quiet(t) THEN below ELSE <<Js(t, cb)>> \o below

(* requestFailed and the error_callback it calls, then `below'.            *)
requestFailed(t, aborted, below) ==
  IF t \in notified \/ aborted
  THEN /\ stack' = below
       /\ UNCHANGED <<notified, settled, outcome, open, waiters>>
  ELSE /\ notified' = notified \cup {t}
       /\ settled' = settled \cup {t}
       /\ outcome' = [outcome EXCEPT ![t] = IF t \in detached THEN @
                                            ELSE Append(@, "err")]
       /\ IF t \in Fetches
          THEN take(t, IF fetchOf[t][1] = "cors" THEN "deny" ELSE "store",
                    below)
          ELSE /\ stack' = Callback(t, "err", below)
               /\ UNCHANGED <<open, waiters>>

abort_bug(t, below) ==              \* does not hold the state
  /\ UNCHANGED state
  /\ requestFailed(t, FALSE, <<Abort(t, state[t])>> \o below)

(* Transfer.abort up to its error_callback: the state is held at           *)
(* .delivering so that a re-entrant teardown defers.                       *)
abort(t, below) ==
  /\ state' = [state EXCEPT ![t] = "delivering"]
  /\ requestFailed(t, FALSE, <<Abort(t, state[t])>> \o below)

-----------------------------------------------------------------------------
(* Transfer.kill and the teardown of an owner, a page or the client        *)

Targets(o) ==
  {t \in Live : /\ state[t] # "aborted"
                /\ CASE o = "client" -> TRUE
                     [] o = "page"   -> owner[t] # None
                     [] OTHER        -> owner[t] = o}

(* Frees a transfer in the middle of its own callback.                      *)
KillOne_bug(t) ==
  /\ Running("kill") /\ t \in Targets(Top.id)
  /\ outcome' = [outcome EXCEPT ![t] = Append(@, "shutdown")]
  /\ deinit(t, state[t])
  /\ gateRemove(t, state[t])
  /\ UNCHANGED <<notified, detached, open, settled, evars, fetchOf, verdict,
                 blocking, held, mvars, stack>>

(* One iteration of the loops of abortRequests and Client.abort.           *)
KillOne(t) ==
  /\ Running("kill") /\ t \in Targets(Top.id)
  /\ notified' = IF ServeMode THEN notified \cup {t} ELSE notified
  /\ IF state[t] = "delivering"
     THEN /\ detachInDelivery(t)
          /\ UNCHANGED <<retired, outcome, qvars, dvars, nvars, intercepted,
                         open, waiters, fault>>
     ELSE /\ outcome' = [outcome EXCEPT ![t] = Append(@, "shutdown")]
          /\ deinit(t, state[t])
          /\ IF t \in Fetches
             THEN /\ open' = open \ {fetchOf[t]}
                  /\ waiters' = [waiters EXCEPT ![fetchOf[t]] = <<>>]
             ELSE gateRemove(t, state[t]) /\ UNCHANGED open
          /\ UNCHANGED detached
  /\ UNCHANGED <<settled, evars, fetchOf, verdict, blocking, held, mvars,
                 stack>>

KillEnd ==
  /\ Running("kill") /\ Targets(Top.id) = {}
  /\ stack' = Below
  /\ Trip("leak", /\ Top.id = "client"
                  /\ \/ Live # {} \/ open # {} \/ conns # {}
                     \/ pending \o delayed \o dispatch \o gated # <<>>)
  /\ UNCHANGED <<lvars, cbvars, idle, open, waiters>>

(* One iteration of cancelRequests (id <= last_id: t is in the frame's     *)
(* `old').                                                                 *)
Stoppable(t) ==
  /\ owner[t] = Top.id /\ t \in Top.old /\ t \notin settled
  /\ ~(state[t] = "buffered" /\ events[t] # <<>> /\ Last(events[t]) = "done")

StopOne(t) ==
  /\ Running("stop") /\ Stoppable(t)
  /\ abort(t, stack)
  /\ UNCHANGED <<retired, owner, detached, idle, fault>>

StopEnd ==
  /\ Running("stop") /\ ~\E t \in Live : Stoppable(t)
  /\ stack' = Below
  /\ UNCHANGED <<lvars, cbvars, idle, open, waiters, fault>>

(* The error_callback of abort() has returned: the single real teardown.   *)
AbortEnd ==
  /\ Running("abort")
  /\ stack' = Below
  /\ IF Top.how = "delivering"
     THEN /\ detachInDelivery(Top.id)
          /\ UNCHANGED <<retired, qvars, dvars, nvars, intercepted, waiters,
                         fault>>
     ELSE /\ deinit(Top.id, Top.how)
          /\ gateRemove(Top.id, Top.how)
          /\ UNCHANGED detached
  /\ UNCHANGED <<outcome, settled, notified, evars, open, fetchOf, verdict,
                 blocking, held, mvars>>

-----------------------------------------------------------------------------
(* JavaScript                                                              *)

InJs == Running("js")

(* Client.request: newRequest, then submit.                                *)
Request(t) ==
  /\ InJs /\ t \in Reqs \ SyncReqs /\ state[t] = "none"
  /\ state' = [state EXCEPT ![t] = "created"]
  /\ owner' = [owner EXCEPT ![t] = OwnerOf[t]]
  /\ stack' = <<Pipe(t, "start", Submitter)>> \o stack
  /\ UNCHANGED <<retired, cbvars, idle, open, waiters, fault>>

TearingDown == disconnected \/ mailbox # None

(* Under an abort() the client does not stand a nested pump.               *)
SafeToPump == "errSync" \in Hazards \/ ~OnStack("abort")

(* Transfer.submitSync up to its first tickSync.                           *)
SyncRequest(t) ==
  /\ InJs /\ t \in SyncReqs /\ state[t] = "none"
  /\ state' = [state EXCEPT ![t] = "created"]
  /\ IF TearingDown
     THEN /\ retired' = retired \cup {t}
          /\ outcome' = [outcome EXCEPT ![t] = <<"err">>]
          /\ UNCHANGED <<owner, blocking, stack, fault>>
     ELSE /\ SafeToPump
          /\ owner' = [owner EXCEPT ![t] = OwnerOf[t]]
          /\ blocking' = [blocking EXCEPT ![OwnerOf[t]] = t]
          /\ Trip("clobber", blocking[OwnerOf[t]] # None)
          /\ stack' = <<Pipe(t, "start", Submitter), Sync(t, "pump")>> \o stack
          /\ UNCHANGED <<retired, outcome>>
  /\ UNCHANGED <<settled, notified, detached, evars, qvars, dvars, nvars,
                 gvars, cvars, mvars>>

(* An import statement: ScriptManagerBase.waitForImport pumps the client   *)
(* without registering a blocking request.                                 *)
ImportModule(t) ==
  /\ InJs /\ t \in ModuleReqs \cap Live /\ outcome[t] = <<>>
  /\ SafeToPump
  /\ stack' = <<Import(t, "pump")>> \o stack
  /\ UNCHANGED <<lvars, cbvars, idle, open, waiters, fault>>

(* Transfer.cancel, through the handle an XHR, fetch or EventSource clears *)
(* in its done, error and shutdown callbacks.                              *)
Cancel(t) ==
  /\ InJs /\ t \in (Live \cap Reqs) \ (SyncReqs \cup settled)
  /\ state[t] = "aborted" => "cancelDetached" \in Hazards
  /\ abort(t, stack)
  /\ UNCHANGED <<retired, owner, detached, idle, fault>>

(* A scheduled navigation, a removed iframe, a terminated worker:          *)
(* abortRequests / abortOwner.                                             *)
AbortOwner(o) ==
  /\ InJs /\ \E t \in Reqs : owner[t] = o
  /\ stack' = <<Kill(o)>> \o stack
  /\ UNCHANGED <<lvars, cbvars, idle, open, waiters, fault>>

(* window.stop(): Frame.stopLoading.  finishEarly hands over what the main *)
(* navigation has received so far, if its headers have arrived.            *)
CanFinishEarly(t) ==
  t \in DocReqs \ StreamReqs /\ state[t] = "inflight" /\ t \in conns

StopLoading(o) ==
  /\ InJs /\ \E t \in Reqs : owner[t] = o
  /\ stack' = <<Stop(o, {t \in Reqs : state[t] # "none"})>> \o stack
  /\ \/ UNCHANGED <<state, events, dvars, nvars, fault>>
     \/ \E t \in Reqs : /\ owner[t] = o /\ CanFinishEarly(t)
                        /\ removeConn(t)
                        /\ scheduleDispatch(t, "inflight", <<"data", "done">>, {})
  /\ UNCHANGED <<retired, owner, cbvars, started, hops, qvars, gvars,
                 blocking, cvars, mvars>>

Return ==
  /\ InJs
  /\ stack' = Below
  /\ UNCHANGED <<lvars, cbvars, idle, open, waiters, fault>>

-----------------------------------------------------------------------------
(* The request pipeline                                                    *)

AtStage(stage) == Running("pipe") /\ Top.how = stage
Goto(stage) == stack' = <<[Top EXCEPT !.how = stage]>> \o Below

(* A step that throws. Client code can throw (out of memory, libcurl) at   *)
(* any stage; "resumeFail" is needed where abortPipelineError would run    *)
(* the error_callback inside a flush or a CDP command.                     *)
MayThrow == Top.pc = Resumer => "resumeFail" \in Hazards

(* .start and .redirect: announce the request; the CDP listener may keep   *)
(* it (its InterceptState.put), else go on.                                *)
PipeStart ==
  /\ AtStage("start")
  /\ \/ Goto("after_intercept") /\ UNCHANGED <<state, cvars>>
     \/ /\ ServeMode
        /\ stack' = Below
        /\ state' = [state EXCEPT ![Top.id] = "parked_intercept"]
        /\ intercepted' = intercepted + 1
        /\ held' = held \cup {Top.id}
  /\ UNCHANGED <<retired, owner, cbvars, evars, qvars, dvars, nvars, gvars,
                 blocking, mvars, fault>>

(* SingleFlight.enter: join the entry, or open it and fetch; the error of  *)
(* the internal fetch's own submit is swallowed.                           *)
EnterGate(gate) ==
  LET t == Top.id
      s == <<gate, KeyOf[gate][t]>>
      parked == IF gate = "cors" THEN "parked_cors" ELSE "parked_robots"
  IN  IF s \in open
      THEN /\ waiters' = [waiters EXCEPT ![s] = Append(@, t)]
           /\ state' = [state EXCEPT ![t] = parked]
           /\ stack' = Below
           /\ UNCHANGED <<retired, owner, cbvars, evars, open, fetchOf, held>>
      ELSE \E f \in Fetches :
           /\ \/ state[f] = "none"
              \/ f \in retired /\ \A i \in DOMAIN stack : stack[i].id # f
           /\ open' = open \cup {s}
           /\ waiters' = [waiters EXCEPT ![s] = <<t>>]
           /\ fetchOf' = [fetchOf EXCEPT ![f] = s]
           /\ state' = [state EXCEPT ![t] = parked, ![f] = "created"]
           /\ stack' = <<Pipe(f, "start", Submitter)>> \o Below
           /\ retired' = retired \ {f}
           /\ outcome' = [outcome EXCEPT ![f] = <<>>]
           /\ settled' = settled \ {f}
           /\ notified' = notified \ {f}
           /\ detached' = detached \ {f}
           /\ events' = [events EXCEPT ![f] = <<>>]
           /\ started' = started \ {f}
           /\ hops' = [hops EXCEPT ![f] = 0]
           /\ held' = held \ {f}
           /\ UNCHANGED owner

Gated(gate, t) == t \in Reqs /\ KeyOf[gate][t] # None

(* .after_intercept: blocked URLs and modes, then the CORS gate.           *)
PipeAfterIntercept ==
  /\ AtStage("after_intercept")
  /\ \/ /\ stack' = Below
        /\ scheduleDispatch(Top.id, state[Top.id], <<"err">>, {})
        /\ UNCHANGED <<retired, owner, cbvars, started, hops, open, waiters,
                       fetchOf, held>>
     \/ /\ Gated("cors", Top.id) /\ EnterGate("cors")
        /\ UNCHANGED <<dvars, fault>>
     \/ /\ ~Gated("cors", Top.id) /\ Goto("after_cors")
        /\ UNCHANGED <<state, retired, owner, cbvars, evars, dvars, open,
                       waiters, fetchOf, held, fault>>
  /\ UNCHANGED <<qvars, nvars, verdict, blocking, intercepted, mvars>>

(* .after_cors: a cache hit is the response; else the robots gate.         *)
PipeAfterCors ==
  LET t == Top.id
      known == IF Gated("robots", t) THEN verdict[KeyOf["robots"][t]]
               ELSE "allow"
  IN
  /\ AtStage("after_cors")
  /\ \/ /\ t \notin StreamReqs
        /\ stack' = Below
        /\ scheduleDispatch(t, state[t], <<"data", "done">>, {})
        /\ UNCHANGED <<retired, owner, cbvars, started, hops, open, waiters,
                       fetchOf, held>>
     \/ /\ known \in {"deny", "mixed"}
        /\ stack' = Below
        /\ scheduleDispatch(t, state[t], <<"err">>, {})
        /\ UNCHANGED <<retired, owner, cbvars, started, hops, open, waiters,
                       fetchOf, held>>
     \/ /\ known = "unknown" /\ EnterGate("robots")
        /\ UNCHANGED <<dvars, fault>>
     \/ /\ known \in {"allow", "mixed"}
        /\ Goto("throttle")
        /\ UNCHANGED <<state, retired, owner, cbvars, evars, dvars, open,
                       waiters, fetchOf, held, fault>>
  /\ UNCHANGED <<qvars, nvars, verdict, blocking, intercepted, mvars>>

(* .throttle: RateLimiter.reserve gave a start time, now or later; the     *)
(* ordered insert of Client.delay may land anywhere among other hosts'.    *)
PipeThrottle ==
  /\ AtStage("throttle")
  /\ \/ Goto("network") /\ UNCHANGED <<state, delayed, delayedCount>>
     \/ /\ Top.id \in ThrottledReqs
        /\ stack' = Below
        /\ state' = [state EXCEPT ![Top.id] = "delayed"]
        /\ delayedCount' = delayedCount + 1
        /\ \E i \in 1..Len(delayed) + 1 : delayed' = InsertAt(delayed, i, Top.id)
  /\ UNCHANGED <<retired, owner, cbvars, evars, pending, dvars, nvars, gvars,
                 blocking, cvars, mvars, fault>>

(* .network: processTransfer.  makeRequest resets the per-response state   *)
(* and may throw before or after the connection is committed.              *)
PipeNetwork ==
  LET t == Top.id IN
  /\ AtStage("network")
  /\ IF free = 0
     THEN /\ pending' = Append(pending, t)
          /\ state' = [state EXCEPT ![t] = "queued"]
          /\ stack' = Below
          /\ UNCHANGED <<notified, started, nvars>>
     ELSE /\ notified' = notified \ {t}
          /\ started' = started \ {t}
          /\ state' = [state EXCEPT ![t] = "inflight"]
          /\ conns' = conns \cup {t}
          /\ free' = free - 1
          /\ (stack' = Below \/ (MayThrow /\ Goto("failed")))
          /\ UNCHANGED pending
  /\ UNCHANGED <<retired, owner, outcome, settled, detached, events, hops,
                 delayed, delayedCount, dvars, gvars, blocking, cvars, mvars,
                 fault>>

PipeThrow ==
  /\ Running("pipe") /\ Top.how # "failed" /\ MayThrow
  /\ Goto("failed")
  /\ UNCHANGED <<lvars, cbvars, idle, open, waiters, fault>>

(* The tick below the pipeline frame fails with it: a sync_wait tick hands *)
(* the error to whoever pumps, any other ends the driver's loop.           *)
FailTick(below) ==
  IF Head(below).how = "sync_wait"
  THEN /\ stack' = <<[Head(Tail(below)) EXCEPT !.how = "err"]>> \o Tail(Tail(below))
       /\ UNCHANGED disconnected
  ELSE /\ stack' = Tail(below)
       /\ disconnected' = TRUE

(* Who cleans up: abortPipelineError runs the error_callback at once, the  *)
(* others buffer the error.                                                *)
PipeFailed ==
  LET t == Top.id IN
  /\ AtStage("failed")
  /\ CASE Top.pc \in {Submitter, Resumer} ->
            /\ IF state[t] \in {"created", "inflight"}
               THEN abort(t, Below)
               ELSE /\ stack' = Below
                    /\ UNCHANGED <<state, outcome, settled, notified, open,
                                   waiters>>
            /\ UNCHANGED <<events, dvars, nvars, disconnected, fault>>
       [] Top.pc = Ticker ->
            /\ FailTick(Below)
            /\ IF state[t] = "created"
               THEN scheduleDispatch(t, "created", <<"err">>, {})
               ELSE UNCHANGED <<state, events, dvars, fault>>
            /\ UNCHANGED <<outcome, settled, notified, open, waiters, nvars>>
       [] Top.pc = Redirect ->
            /\ stack' = Below
            /\ removeConn(t)
            /\ scheduleDispatch(t, state[t], <<"err">>, {})
            /\ UNCHANGED <<outcome, settled, notified, open, waiters,
                           disconnected>>
  /\ UNCHANGED <<retired, owner, detached, started, hops, qvars, fetchOf,
                 verdict, blocking, cvars, mailbox>>

(* One waiter of a flush: unpark it, then resume or fail it.  A robots     *)
(* verdict is looked up for each waiter's own path; none fails open.       *)
FlushOne ==
  LET w == Head(Top.todo)
      rest == <<[Top EXCEPT !.todo = Tail(@)]>> \o Below
      ruling == IF Top.how = "store" THEN verdict[fetchOf[Top.id][2]] ELSE Top.how
      stage == IF Top.how = "store" THEN "throttle" ELSE "after_cors"
  IN
  /\ Running("flush") /\ Top.todo # <<>>
  /\ \/ /\ ruling # "deny"
        /\ state' = [state EXCEPT ![w] = "created"]
        /\ stack' = <<Pipe(w, stage, Resumer)>> \o rest
        /\ fault' = fault \cup NotParked(w)
        /\ UNCHANGED <<events, dvars>>
     \/ /\ ruling \in {"deny", "mixed"}
        /\ scheduleDispatch(w, "created", <<"err">>, NotParked(w))
        /\ stack' = rest
  /\ UNCHANGED <<retired, owner, cbvars, started, hops, qvars, nvars, gvars,
                 blocking, cvars, mvars>>

FlushEnd ==
  /\ Running("flush") /\ Top.todo = <<>>
  /\ stack' = Below
  /\ UNCHANGED <<lvars, cbvars, idle, open, waiters, fault>>

-----------------------------------------------------------------------------
(* Client._tick                                                            *)

NextStep ==
  stack' = IF Top.pc = Len(TickOrder) THEN Below
           ELSE <<[Top EXCEPT !.pc = @ + 1]>> \o Below

NoBlocking == \A o \in Owners : blocking[o] = None

isGated_bug(t) ==                   \* other frames' callbacks pass
  /\ t \in Reqs
  /\ t \in DocReqs \/ (blocking[OwnerOf[t]] \notin {None, t})

isGated_bug2(t) ==                  \* gates the blocking request itself
  t \in Reqs /\ (t \in DocReqs \/ ~NoBlocking)

(* A document is never delivered on a sync pump; anything else waits for   *)
(* the blocking request, whichever frame made it.                          *)
isGated(t) ==
  /\ t \in Reqs
  /\ \/ t \in DocReqs
     \/ ~NoBlocking /\ t # blocking[OwnerOf[t]]

(* Move the last gated transfer that may go to the front of the dispatch   *)
(* queue: one iteration of the loops of dispatchCompleted and of           *)
(* releaseBlocking, which walk backwards to keep the order.                *)
UngateLast(mayGo(_)) ==
  \E i \in DOMAIN gated :
    /\ mayGo(gated[i]) /\ \A j \in DOMAIN gated : mayGo(gated[j]) => j <= i
    /\ dispatch' = <<gated[i]>> \o dispatch
    /\ gated' = RemoveAt(gated, i)
NoneToUngate(mayGo(_)) == ~\E i \in DOMAIN gated : mayGo(gated[i])

(* dispatchCompleted, first half: nobody blocks any more.                  *)
Ungateable(t) == NoBlocking /\ ~(SyncWait /\ isGated(t))

TickUngate ==
  /\ At("ungate")
  /\ \/ UngateLast(Ungateable) /\ UNCHANGED stack
     \/ NoneToUngate(Ungateable) /\ NextStep /\ UNCHANGED <<dispatch, gated>>
  /\ UNCHANGED <<lvars, cbvars, evars, qvars, dispatchCount, nvars, gvars,
                 blocking, cvars, mvars, fault>>

(* ... second half: one pop of the dispatch queue.                         *)
TickDispatch ==
  LET t == Head(dispatch) IN
  /\ At("dispatch") /\ dispatch # <<>>
  /\ dispatch' = Tail(dispatch)
  /\ IF SyncWait /\ isGated(t)
     THEN /\ gated' = Append(gated, t)
          /\ UNCHANGED <<state, dispatchCount, stack>>
     ELSE /\ dispatchCount' = dispatchCount - 1
          /\ state' = [state EXCEPT ![t] = "delivering"]
          /\ stack' = <<Deliver(t, IF state[t] = "inflight" THEN "batch"
                                   ELSE "last")>> \o stack
          /\ UNCHANGED gated
  /\ UNCHANGED <<retired, owner, cbvars, evars, qvars, nvars, gvars, blocking,
                 cvars, mvars, fault>>

TickDispatchEnd ==
  /\ At("dispatch") /\ dispatch = <<>>
  /\ NextStep
  /\ UNCHANGED <<lvars, cbvars, idle, open, waiters, fault>>

(* startDelayed: the head, when it is due.                                 *)
TickDelayed ==
  LET t == Head(delayed) IN
  /\ At("delayed") /\ delayed # <<>>
  /\ delayed' = Tail(delayed)
  /\ delayedCount' = delayedCount - 1
  /\ state' = [state EXCEPT ![t] = "created"]
  /\ stack' = <<Pipe(t, "network", Ticker)>> \o stack
  /\ UNCHANGED <<retired, owner, cbvars, evars, pending, dvars, nvars, gvars,
                 blocking, cvars, mvars, fault>>

(* startPending: one pop of the pending queue, with a connection to spare. *)
TickPending ==
  LET t == Head(pending) IN
  /\ At("pending") /\ pending # <<>> /\ free > 0
  /\ pending' = Tail(pending)
  /\ state' = [state EXCEPT ![t] = "created"]
  /\ stack' = <<Pipe(t, "network", Ticker)>> \o stack
  /\ UNCHANGED <<retired, owner, cbvars, evars, delayed, delayedCount, dvars,
                 nvars, gvars, blocking, cvars, mvars, fault>>

(* The next step: no delayed transfer is due, no pending one can start,    *)
(* libcurl has no more messages, the inbox is empty.                       *)
TickStep ==
  /\ \/ At("delayed") \/ At("process") \/ At("drain")
     \/ At("pending") /\ (pending = <<>> \/ free = 0)
  /\ NextStep
  /\ UNCHANGED <<lvars, cbvars, idle, open, waiters, fault>>

(* libcurl hands a chunk of a stream to dataCallback.  One undelivered     *)
(* data event stands for the whole batch (data_queued).                    *)
StreamChunk(t) ==
  /\ At("process") /\ t \in conns \cap StreamReqs
  /\ state[t] \in {"inflight", "delivering"} /\ ~Contains(events[t], "data")
  /\ started' = started \cup {t}
  /\ events' = [events EXCEPT ![t] = Append(@, "data")]
  /\ IF state[t] = "inflight" /\ ~Linked(t)
     THEN /\ dispatch' = Append(dispatch, t)
          /\ dispatchCount' = dispatchCount + 1
     ELSE UNCHANGED <<dispatch, dispatchCount>>
  /\ UNCHANGED <<lvars, cbvars, hops, qvars, gated, nvars, gvars, blocking,
                 cvars, mvars, fault, stack>>

(* processOneMessage of a transfer whose own callback, which is still on    *)
(* the stack, was aborted: the pump is one nested in that callback.         *)
ProcessAborted(t) ==
  /\ "streamAbortSync" \in Hazards
  /\ At("process") /\ t \in conns /\ state[t] = "aborted"
  /\ deinit(t, "aborted")
  /\ UNCHANGED <<cbvars, evars, gvars, blocking, held, mvars, stack>>

Answered(t) == At("process") /\ t \in conns /\ state[t] # "aborted"

(* ... the complete response, or the end of a stream already started;      *)
(* ... a transport, CORS or redirect error;                                *)
ProcessResponse(t) ==
  /\ Answered(t)
  /\ removeConn(t)
  /\ \/ scheduleDispatch(t, state[t], IF t \in started THEN <<"done">>
                                      ELSE <<"data", "done">>, {})
     \/ scheduleDispatch(t, state[t], <<"err">>, {})
  /\ UNCHANGED <<retired, owner, cbvars, started, hops, qvars, gvars,
                 blocking, cvars, mvars, stack>>

(* Of a stream that its own callback aborted (streamAbortSync) nothing is  *)
(* left to answer.                                                          *)
ProcessOneMessage(t) ==
  IF state[t] = "aborted" THEN ProcessAborted(t) ELSE ProcessResponse(t)

ProcessRedirect_bug(t) ==           \* neither counts nor gives back
  /\ Answered(t) /\ t \notin started
  /\ state' = [state EXCEPT ![t] = "created"]
  /\ stack' = <<Pipe(t, "start", Redirect)>> \o stack
  /\ UNCHANGED <<retired, owner, cbvars, events, started, hops, qvars, dvars,
                 nvars, gvars, blocking, cvars, mvars, fault>>

ProcessRedirect_bug2(t) ==          \* no limit
  /\ Answered(t) /\ t \notin started
  /\ removeConn(t)
  /\ hops' = [hops EXCEPT ![t] = @ + 1]
  /\ state' = [state EXCEPT ![t] = "created"]
  /\ stack' = <<Pipe(t, "start", Redirect)>> \o stack
  /\ UNCHANGED <<retired, owner, cbvars, events, started, qvars, dvars, gvars,
                 blocking, cvars, mvars, fault>>

(* ... a redirect: the pipeline starts again, without the connection;      *)
ProcessRedirect(t) ==
  /\ Answered(t) /\ t \notin started /\ hops[t] < MaxHops
  /\ removeConn(t)
  /\ hops' = [hops EXCEPT ![t] = @ + 1]
  /\ state' = [state EXCEPT ![t] = "created"]
  /\ stack' = <<Pipe(t, "start", Redirect)>> \o stack
  /\ UNCHANGED <<retired, owner, cbvars, events, started, qvars, dvars, gvars,
                 blocking, cvars, mvars, fault>>

ProcessAuth_bug(t) ==               \* parks without an InterceptState entry
  /\ Answered(t) /\ ServeMode /\ t \notin started /\ hops[t] < MaxHops
  /\ removeConn(t)
  /\ hops' = [hops EXCEPT ![t] = @ + 1]
  /\ state' = [state EXCEPT ![t] = "parked_auth"]
  /\ intercepted' = intercepted + 1
  /\ UNCHANGED <<held, retired, owner, cbvars, events, started, qvars, dvars,
                 gvars, blocking, mvars, fault, stack>>

(* ... an auth challenge the CDP listener wants to answer.                 *)
ProcessAuth(t) ==
  /\ Answered(t) /\ ServeMode /\ t \notin started /\ hops[t] < MaxHops
  /\ removeConn(t)
  /\ hops' = [hops EXCEPT ![t] = @ + 1]
  /\ state' = [state EXCEPT ![t] = "parked_auth"]
  /\ intercepted' = intercepted + 1
  /\ held' = held \cup {t}
  /\ UNCHANGED <<retired, owner, cbvars, events, started, qvars, dvars, gvars,
                 blocking, mvars, fault, stack>>

(* drainInbox: a CDP answer for an intercepted transfer.  Each of the four *)
(* commands first removes the InterceptState entry.                        *)
Answers(t) == At("drain") /\ t \in held /\ held' = held \ {t}
Unpark(t) == /\ leaveIntercept(state[t])
             /\ state' = [state EXCEPT ![t] = "created"]
             /\ fault' = fault \cup NotParked(t)

(* continueRequest, continueWithAuth with credentials, and fulfillRequest  *)
(* with a redirect: back into the pipeline.  One redirect too many fails   *)
(* like a pipeline that throws.                                            *)
AnswerResume(t) ==
  /\ Answers(t) /\ t \in Live
  /\ Unpark(t)
  /\ \/ /\ \E stage \in {"after_intercept", "network"} :
             stack' = <<Pipe(t, stage, Resumer)>> \o stack
        /\ UNCHANGED hops
     \/ /\ hops[t] < MaxHops \/ "resumeFail" \in Hazards
        /\ hops' = [hops EXCEPT ![t] = IF @ < MaxHops THEN @ + 1 ELSE @]
        /\ stack' = <<Pipe(t, IF hops[t] < MaxHops THEN "after_intercept"
                              ELSE "failed", Resumer)>> \o stack
  /\ UNCHANGED <<retired, owner, cbvars, events, started, qvars, dvars, nvars,
                 gvars, blocking, mvars>>

(* fulfillRequest with a response, failRequest and a cancelled auth        *)
(* challenge: buffered for the dispatcher.                                 *)
AnswerBuffer(t) ==
  /\ Answers(t) /\ t \in Live
  /\ leaveIntercept(state[t])
  /\ \E evs \in {<<"data", "done">>, <<"err">>} :
       scheduleDispatch(t, "created", evs, NotParked(t))
  /\ UNCHANGED <<retired, owner, cbvars, started, hops, qvars, nvars, gvars,
                 blocking, mvars, stack>>

(* The transfer is gone, or the command is malformed and returns an error  *)
(* after it removed the entry.                                             *)
AnswerNothing(t) ==
  /\ Answers(t) /\ (t \in Live => "badAnswer" \in Hazards)
  /\ UNCHANGED <<lvars, cbvars, evars, qvars, dvars, nvars, gvars, blocking,
                 intercepted, mvars, fault, stack>>

(* A message that ends the page (Target.closeTarget) waits for an outer    *)
(* tick; one that ends the connection also interrupts a nested one.        *)
DrainTeardown ==
  /\ At("drain") /\ mailbox # None
  /\ \/ /\ mailbox = "close" /\ ~SyncWait
        /\ stack' = <<Kill("page")>> \o stack
        /\ UNCHANGED disconnected
     \/ /\ mailbox = "disconnect"
        /\ disconnected' = TRUE
        /\ stack' = IF SyncWait
                    THEN <<[Head(Below) EXCEPT !.how = "err"]>> \o Tail(Below)
                    ELSE Below
  /\ mailbox' = None
  /\ UNCHANGED <<lvars, cbvars, evars, qvars, dvars, nvars, gvars, blocking,
                 cvars, fault>>

-----------------------------------------------------------------------------
(* Transfer.deliver                                                        *)

Delivering(ev) ==
  /\ Running("deliver") /\ state[Top.id] # "aborted" /\ events[Top.id] # <<>>
  /\ Head(events[Top.id]) = ev
  /\ events' = [events EXCEPT ![Top.id] = Tail(@)]

(* failDelivery: a callback of t failed; `below' is the caller of deliver. *)
failDelivery(t, below) ==
  requestFailed(t, state[t] = "aborted", <<Finish(t)>> \o below)

(* The start, header and data callbacks; one may fail without having run   *)
(* any JavaScript.                                                         *)
DeliverData ==
  LET t == Top.id IN
  /\ Delivering("data")
  /\ \/ /\ stack' = IF t \in Fetches THEN stack ELSE Callback(t, "data", stack)
        /\ UNCHANGED <<notified, settled, outcome, open, waiters>>
     \/ failDelivery(t, Below)
  /\ UNCHANGED <<lvars, detached, started, hops, qvars, dvars, nvars, fetchOf,
                 verdict, blocking, cvars, mvars, fault>>

(* done_callback.  A robots fetch stores what it learnt and flushes its    *)
(* entry, a preflight flushes with its answer.                             *)
DeliverDone ==
  LET t == Top.id
      s == fetchOf[t]
      ended == <<[Top EXCEPT !.how = "done"]>> \o Below
  IN
  /\ Delivering("done")
  /\ settled' = settled \cup {t}
  /\ outcome' = [outcome EXCEPT ![t] = Append(@, "done")]
  /\ IF t \notin Fetches
     THEN /\ stack' = Callback(t, "done", ended)
          /\ UNCHANGED <<open, waiters, verdict>>
     ELSE IF s[1] = "cors"
     THEN /\ \E how \in {"allow", "deny"} : take(t, how, ended)
          /\ UNCHANGED verdict
     ELSE /\ \E v \in {"unknown", "allow", "deny", "mixed"} :
               verdict' = [verdict EXCEPT ![s[2]] = v]
          /\ take(t, "store", ended)
  /\ UNCHANGED <<lvars, notified, detached, started, hops, qvars, dvars, nvars,
                 fetchOf, blocking, cvars, mvars, fault>>

DeliverErr ==
  /\ Delivering("err")
  /\ requestFailed(Top.id, FALSE, <<Finish(Top.id)>> \o Below)
  /\ UNCHANGED <<lvars, detached, started, hops, qvars, dvars, nvars, fetchOf,
                 verdict, blocking, cvars, mvars, fault>>

(* A callback that ran JavaScript returns an error to deliver().           *)
JsFail ==
  LET t == Top.id IN
  /\ InJs /\ (Top.how = "data" \/ (Top.how = "done" /\ "doneFail" \in Hazards))
  /\ failDelivery(t, Tail(Below))
  /\ UNCHANGED <<lvars, detached, idle, fault>>

(* The loop ends: every event delivered, or the transfer was torn down.  A *)
(* stream goes back to .inflight until its next batch.                     *)
DeliverEnd ==
  LET t == Top.id IN
  /\ Running("deliver") /\ (events[t] = <<>> \/ state[t] = "aborted")
  /\ IF state[t] = "aborted" \/ Top.how # "batch"
     THEN /\ stack' = <<Finish(t)>> \o Below
          /\ UNCHANGED state
     ELSE /\ stack' = Below
          /\ state' = [state EXCEPT ![t] = "inflight"]
  /\ UNCHANGED <<retired, owner, cbvars, idle, open, waiters, fault>>

finishDelivery ==
  LET t == Top.id IN
  /\ Running("finish")
  /\ outcome' = IF state[t] = "aborted" /\ t \notin settled
                THEN [outcome EXCEPT ![t] = Append(@, "shutdown")] ELSE outcome
  /\ deinit(t, state[t])
  /\ stack' = Below
  /\ UNCHANGED <<settled, notified, detached, evars, gvars, blocking, held,
                 mvars>>

-----------------------------------------------------------------------------
(* Whoever pumps the client from inside JavaScript                         *)

Pumping == Running("sync") \/ Running("import")

(* tickSync: refuses to tick when a teardown is waiting.                   *)
Pump ==
  /\ Pumping /\ outcome[Top.id] = <<>> /\ Top.how = "pump"
  /\ stack' = IF TearingDown THEN <<[Top EXCEPT !.how = "err"]>> \o Below
              ELSE <<Tick("sync_wait")>> \o stack
  /\ UNCHANGED <<lvars, cbvars, idle, open, waiters, fault>>

(* The error sends submitSync through abort(), to sever its stack frame    *)
(* from the transfer; waitForImport just returns it.                       *)
SyncAbort ==
  /\ Running("sync") /\ outcome[Top.id] = <<>> /\ Top.how = "err"
  /\ abort(Top.id, <<Sync(Top.id, "exit")>> \o Below)
  /\ UNCHANGED <<retired, owner, detached, idle, fault>>

SyncReturn ==
  /\ Running("sync") /\ (outcome[Top.id] # <<>> \/ Top.how = "exit")
  /\ blocking' = [blocking EXCEPT ![OwnerOf[Top.id]] = None]
  /\ stack' = <<Release(OwnerOf[Top.id])>> \o Below
  /\ UNCHANGED <<lvars, cbvars, evars, qvars, dvars, nvars, gvars, cvars,
                 mvars, fault>>

(* releaseBlocking: what the owner's blocking request had gated.           *)
Released(t) == t \in Reqs /\ OwnerOf[t] = Top.id

ReleaseOne ==
  /\ Running("release")
  /\ \/ UngateLast(Released) /\ UNCHANGED stack
     \/ NoneToUngate(Released) /\ stack' = Below /\ UNCHANGED <<dispatch, gated>>
  /\ UNCHANGED <<lvars, cbvars, evars, qvars, dispatchCount, nvars, gvars,
                 blocking, cvars, mvars, fault>>

ImportReturn ==
  /\ Running("import") /\ (outcome[Top.id] # <<>> \/ Top.how = "err")
  /\ stack' = Below
  /\ UNCHANGED <<lvars, cbvars, idle, open, waiters, fault>>

-----------------------------------------------------------------------------
(* The runner's loop, and the world outside the thread                     *)

InLoop == stack = <<>> /\ ~disconnected

(* Tasks of the event loop: timers, parsing, evaluating CDP commands.      *)
RunTask ==
  /\ InLoop /\ \E t \in Reqs : state[t] = "none" \/ t \in Live
  /\ stack' = <<Js(None, "task")>>
  /\ UNCHANGED <<lvars, cbvars, idle, open, waiters, fault>>

TickBegin ==
  /\ InLoop
  /\ stack' = <<Tick("all")>>
  /\ Trip("blocking", ~NoBlocking)
  /\ UNCHANGED <<lvars, cbvars, idle, open, waiters>>

(* The network thread puts a teardown message into the driver's inbox.     *)
PeerLeaves(m) ==
  /\ ServeMode /\ ~disconnected /\ mailbox = None
  /\ mailbox' = m
  /\ UNCHANGED <<lvars, cbvars, evars, qvars, dvars, nvars, gvars, blocking,
                 cvars, disconnected, fault, stack>>

(* Without a CDP client the run simply ends.                               *)
Quit ==
  /\ InLoop /\ ~ServeMode
  /\ disconnected' = TRUE
  /\ UNCHANGED <<lvars, cbvars, evars, qvars, dvars, nvars, gvars, blocking,
                 cvars, mailbox, fault, stack>>

(* BrowserContext.deinit aborts what is still intercepted ...              *)
Exiting == stack = <<>> /\ disconnected

AbortHeld(t) ==
  /\ Exiting /\ t \in held
  /\ held' = held \ {t}
  /\ IF t \in Live
     THEN /\ leaveIntercept(state[t])
          /\ scheduleDispatch(t, "created", <<"err">>, NotParked(t))
     ELSE UNCHANGED <<state, events, dvars, intercepted, fault>>
  /\ UNCHANGED <<retired, owner, cbvars, started, hops, qvars, nvars, gvars,
                 blocking, mvars, stack>>

(* ... then the session and the client are torn down.                      *)
Exit ==
  /\ Exiting /\ held = {} /\ Live # {}
  /\ stack' = <<Kill("client")>>
  /\ UNCHANGED <<lvars, cbvars, idle, open, waiters, fault>>

Exited == Exiting /\ held = {} /\ Live = {} /\ UNCHANGED vars

-----------------------------------------------------------------------------
Init ==
  /\ state = [t \in Ids |-> "none"] /\ retired = {}
  /\ owner = [t \in Ids |-> None] /\ events = [t \in Ids |-> <<>>]
  /\ started = {} /\ outcome = [t \in Ids |-> <<>>]
  /\ settled = {} /\ notified = {} /\ detached = {}
  /\ hops = [t \in Ids |-> 0]
  /\ pending = <<>> /\ delayed = <<>> /\ delayedCount = 0
  /\ dispatch = <<>> /\ gated = <<>> /\ dispatchCount = 0
  /\ conns = {} /\ free = Conns
  /\ open = {} /\ waiters = [s \in Slots |-> <<>>]
  /\ fetchOf = [f \in Fetches |-> None]
  /\ verdict = [k \in Keys |-> "unknown"]
  /\ blocking = [o \in Owners |-> None]
  /\ held = {} /\ intercepted = 0
  /\ mailbox = None /\ disconnected = FALSE
  /\ fault = {} /\ stack = <<>>

Loop == RunTask \/ TickBegin \/ Quit \/ Exit \/ \E t \in Ids : AbortHeld(t)
World == \E m \in {"close", "disconnect"} : PeerLeaves(m)
Script ==
  \/ Return \/ JsFail
  \/ \E t \in Reqs : Request(t) \/ SyncRequest(t) \/ ImportModule(t) \/ Cancel(t)
  \/ \E o \in Owners : AbortOwner(o) \/ StopLoading(o)
Teardown ==
  \/ KillEnd \/ StopEnd \/ AbortEnd
  \/ \E t \in Ids : KillOne(t) \/ StopOne(t)
Pipeline ==
  \/ PipeStart \/ PipeAfterIntercept \/ PipeAfterCors \/ PipeThrottle
  \/ PipeNetwork \/ PipeThrow \/ PipeFailed \/ FlushOne \/ FlushEnd
Answer(t) == AnswerResume(t) \/ AnswerBuffer(t) \/ AnswerNothing(t)
Process(t) ==
  \/ StreamChunk(t) \/ ProcessOneMessage(t)
  \/ ProcessRedirect(t) \/ ProcessAuth(t)
Ticking ==
  \/ TickUngate \/ TickDispatch \/ TickDispatchEnd \/ TickDelayed
  \/ TickPending \/ TickStep \/ DrainTeardown
  \/ \E t \in Ids : Process(t) \/ Answer(t)
Delivery ==
  \/ DeliverData \/ DeliverDone \/ DeliverErr \/ DeliverEnd \/ finishDelivery
Waiting ==
  \/ Pump \/ SyncAbort \/ SyncReturn \/ ReleaseOne \/ ImportReturn

Next ==
  \/ Loop \/ World \/ Script \/ Teardown \/ Pipeline \/ Ticking \/ Delivery
  \/ Waiting \/ Exited

Spec == Init /\ [][Next]_vars

(* The runner ticks on every iteration of its loop, scripts are finite     *)
(* programs, libcurl answers or times out every transfer (an event stream  *)
(* excepted) and the clock reaches every delayed start.  Nothing is        *)
(* assumed of the CDP client.                                              *)
Step == \/ Teardown \/ Pipeline \/ Ticking \/ Delivery \/ Waiting \/ Exit
        \/ \E t \in Ids : AbortHeld(t)
Fairness ==
  /\ SF_vars(TickBegin) /\ SF_vars(Return) /\ WF_vars(Step)
  /\ SF_vars(TickDelayed)
  /\ \A t \in Ids \ StreamReqs : SF_vars(ProcessResponse(t))

FairSpec == Spec /\ Fairness

-----------------------------------------------------------------------------
(* Properties                                                              *)

Variants == States \cup Stages \cup
  {"", "pump", "task", "data", "done", "err", "exit", "all", "sync_wait", "batch",
   "last", "allow", "deny", "store"}
Frames == {f \in [op : Ops, id : Ids \cup Owners \cup {None, "page", "client"},
                  how : Variants, pc : Nat, todo : Seq(Ids), old : SUBSET Ids] :
             /\ f.op \in TransferOps \ {"js"} => f.id \in Ids
             /\ f.op = "js" => f.id \in Ids \cup {None}}

(* Every variable has the type its declaration in the code gives it.       *)
TypeOK ==
  /\ state \in [Ids -> States] /\ retired \subseteq Ids
  /\ owner \in [Ids -> Owners \cup {None}]
  /\ outcome \in [Ids -> Seq({"done", "err", "shutdown"})]
  /\ settled \subseteq Ids /\ notified \subseteq Ids /\ detached \subseteq Ids
  /\ events \in [Ids -> Seq({"data", "done", "err"})]
  /\ started \subseteq Ids /\ hops \in [Ids -> 0..MaxHops]
  /\ pending \in Seq(Ids) /\ delayed \in Seq(Ids) /\ delayedCount \in Int
  /\ dispatch \in Seq(Ids) /\ gated \in Seq(Ids) /\ dispatchCount \in Int
  /\ conns \subseteq Ids /\ free \in Int
  /\ open \subseteq Slots /\ waiters \in [Slots -> Seq(Ids)]
  /\ fetchOf \in [Fetches -> Slots \cup {None}]
  /\ verdict \in [Keys -> {"unknown", "allow", "deny", "mixed"}]
  /\ blocking \in [Owners -> Ids \cup {None}]
  /\ held \subseteq Ids /\ intercepted \in Int
  /\ mailbox \in {None, "close", "disconnect"} /\ disconnected \in BOOLEAN
  /\ fault \subseteq {"unpark", "schedule", "unlink", "deinit", "leak",
                      "clobber", "blocking"}
  /\ stack \in Seq(Frames)

(* No assertion of the code fails: unpark of a transfer that is not parked,*)
(* scheduleDispatch in a wrong state, a second deinit, an unlink from a    *)
(* queue the transfer is not in, two blocking requests of one frame, an    *)
(* outer tick inside a blocking request, anything left by Client.abort.    *)
AssertsHold == fault = {}

(* The state of a transfer, looking through the .delivering that abort()   *)
(* holds it at while the error_callback runs.                              *)
AbortsOf(t) == {i \in DOMAIN stack : stack[i].op = "abort" /\ stack[i].id = t}
StateOf(t) == IF AbortsOf(t) = {} THEN state[t] ELSE stack[Max(AbortsOf(t))].how

(* The intrusive queues hold exactly the transfers whose state says so,    *)
(* once, and the counters Client.activity reports agree with them.         *)
InState(sts) == {t \in Live : StateOf(t) \in sts}
QueuesExact ==
  /\ IsInjective(pending) /\ ToSet(pending) = InState({"queued"})
  /\ IsInjective(delayed) /\ ToSet(delayed) = InState({"delayed"})
  /\ IsInjective(dispatch \o gated)
  /\ InState({"buffered"}) \subseteq ToSet(dispatch \o gated)
  /\ ToSet(dispatch \o gated) \subseteq InState({"buffered", "inflight"})
  /\ delayedCount = Len(delayed)
  /\ dispatchCount = Len(dispatch) + Len(gated)
  /\ intercepted = Cardinality(InState({"parked_intercept", "parked_auth"}))

(* The pool gets every connection back: what is not free is held by a live *)
(* transfer that libcurl is working for, or that is being torn down.       *)
PoolExact ==
  /\ free + Cardinality(conns) = Conns /\ free >= 0
  /\ InState({"inflight"}) \subseteq conns
  /\ conns \subseteq InState({"inflight", "delivering", "aborted"})

(* Nobody waits for nothing: a transfer parked at a gate is behind exactly *)
(* one open entry, or about to be resumed; an open entry has a fetch in    *)
(* progress that will flush it.                                            *)
Flushing(t) == \E i \in DOMAIN stack :
                 stack[i].op = "flush" /\ Contains(stack[i].todo, t)
Behind(t)  == {s \in Slots : Contains(waiters[s], t)}
GatesServed ==
  /\ \A s \in open : \E f \in Fetches \cap Live :
                        fetchOf[f] = s /\ outcome[f] = <<>>
  /\ \A s \in Slots : waiters[s] # <<>> => s \in open
  /\ \A t \in Ids : Behind(t) # {} =>
       /\ t \in InState({"parked_robots", "parked_cors"})
       /\ Cardinality(Behind(t)) = 1
  /\ ~OnStack("kill") => \A t \in InState({"parked_robots", "parked_cors"}) :
                           Behind(t) # {} \/ Flushing(t)

(* A transfer parked for the CDP client can still be answered.             *)
InterceptAnswerable ==
  InState({"parked_intercept", "parked_auth"}) \subseteq held

(* No function still running works on a transfer that deinit has retired,  *)
(* and a flush never holds one.                                            *)
NoZombie ==
  \A i \in DOMAIN stack :
    /\ stack[i].op \in {"pipe", "abort", "deliver", "finish"}
         => stack[i].id \notin retired
    /\ ToSet(stack[i].todo) \cap retired = {}

(* No JavaScript runs on a blocking request's stack (startPending,         *)
(* isGated), and no document is delivered on any nested pump.              *)
NoJsWhileBlocking ==
  \A i, j \in DOMAIN stack : i < j =>
    /\ stack[j].op = "sync" => stack[i].op # "js"
    /\ stack[j].op \in {"sync", "import"} =>
         ~(stack[i].op = "deliver" /\ stack[i].id \in DocReqs)

(* Callbacks of a response run after its connection has gone back to the   *)
(* pool; only a stream is delivered while libcurl is still receiving.      *)
NoConnInCallback ==
  \A i \in DOMAIN stack :
    stack[i].op = "deliver" /\ stack[i].id \in conns => stack[i].id \in StreamReqs

(* A callback runs with nothing on the stack that it could trip over: no   *)
(* JavaScript under a blocking request, no document under a nested pump,   *)
(* and no connection but a stream's (NoJsWhileBlocking, NoConnInCallback). *)
CallbackStacks == NoJsWhileBlocking /\ NoConnInCallback

(* An owner's list names only live transfers that may still call it, so a  *)
(* frame that has aborted its requests is free to die.                     *)
OwnerLinks ==
  \A t \in Ids : owner[t] # None <=> t \in (Live \cap Reqs) \ detached

(* Nothing happens to a retired request: no callback, no state change, no  *)
(* connection.                                                             *)
Quiesced == \A t \in Reqs \cap retired :
  state'[t] = state[t] /\ outcome'[t] = outcome[t] /\ t \notin conns'
NothingAfterRetire == [][Quiesced]_vars

(* A blocking script always gets its answer: every call that reaches into  *)
(* the client from the runner's loop returns to it.                        *)
StackUnwinds == stack # <<>> ~> stack = <<>>

(* The client keeps the promise of RequestLifecycle.  A second callback is *)
(* a phase of its own, which no step of RequestLifecycle leads to.         *)
Lifecycle == INSTANCE RequestLifecycle WITH
  Endless <- StreamReqs,
  leased <- conns \cap Reqs,
  phase <- [t \in Reqs |-> IF state[t] = "none"      THEN "idle"
                          ELSE IF Len(outcome[t]) > 1 THEN "twice"
                          ELSE IF t \in retired     THEN "gone"
                          ELSE IF outcome[t] # <<>> THEN "answered" ELSE "open"]
ImplementsLifecycle == Lifecycle!SafeSpec
KeepsLifecycle      == Lifecycle!Spec
=============================================================================
