----------------------- MODULE HttpClientStepProofs -----------------------
(***************************************************************************)
(* Every step of src/src/network/HttpClient.zig keeps every transfer in    *)
(* its place: the rest of the steps, the invariant, and the properties     *)
(* that follow from it.                                                    *)
(***************************************************************************)
EXTENDS HttpClientPlaceProofs

-----------------------------------------------------------------------------
(* An entry of a gate is flushed                                           *)

(* A transfer waits behind one entry, the one of its key.                  *)
LEMMA QueueSlot ==
  ASSUME NEW t
  PROVE  /\ \A r \in Slots : t \in Queue(r) =>
              /\ t \in Reqs /\ r \in open /\ t \notin Todos
              /\ Where[t] \in AtGate /\ SlotAt(t, Where[t]) = r
         /\ \A r : t \in Reqs /\ Where[t] \in AtGate /\ SlotAt(t, Where[t]) = r
                   /\ r \in open /\ t \notin Todos => t \in Queue(r)
<1> HIDE DEF Where
<1>1. ASSUME NEW r \in Slots, t \in Queue(r)
      PROVE  /\ t \in Reqs /\ r \in open /\ t \notin Todos
             /\ Where[t] \in AtGate /\ SlotAt(t, Where[t]) = r
  <2>1. r[1] \in {"robots", "cors"} /\ r = <<r[1], r[2]>>
    BY DEF Slots, Gates
  <2> QED BY <1>1, <2>1 DEF Queue, StateAt, AtGate, SlotAt
<1>2. ASSUME NEW r, t \in Reqs, Where[t] \in AtGate, SlotAt(t, Where[t]) = r,
             r \in open, t \notin Todos
      PROVE  t \in Queue(r)
  <2>1. CASE Where[t] = "parked_cors"
    <3>1. r = <<"cors", KeyOf["cors"][t]>>
      BY <1>2, <2>1 DEF SlotAt
    <3>2. r[1] = "cors" /\ r[2] = KeyOf["cors"][t]
      BY <3>1
    <3> QED BY <1>2, <2>1, <3>2 DEF Queue, StateAt
  <2>2. CASE Where[t] = "parked_robots"
    <3>1. r = <<"robots", KeyOf["robots"][t]>>
      BY <1>2, <2>2 DEF SlotAt
    <3>2. r[1] = "robots" /\ r[2] = KeyOf["robots"][t]
      BY <3>1
    <3> QED BY <1>2, <2>2, <3>2 DEF Queue, StateAt
  <2> QED BY <1>2, <2>1, <2>2 DEF AtGate
<1> QED BY <1>1, <1>2

(* The outcome of t, if it is a fetch, flushes its entry; nobody moves.    *)
Takes(t) ==
  /\ Stays /\ Live' = Live /\ UNCHANGED <<fetchOf, Dying>>
  /\ \A f \in Workers' : f.op # "pipe"
  /\ \A u \in Ids : u # t => state'[u] = state[u]
  /\ \A f \in Fetches : f # t => outcome'[f] = outcome[f]
  /\ \/ t \in Reqs /\ UNCHANGED <<open, waiters, Todos>>
     \/ \E s : /\ t \in Fetches /\ s = fetchOf[t] /\ open' = open \ {s}
               /\ waiters' = [waiters EXCEPT ![s] = <<>>]
               /\ Todos' = Todos \cup (IF s \in open THEN ToSet(waiters[s]) ELSE {})
               /\ \A u \in ToSet(waiters[s]) : state[u] \in AtGate

(* The waiters move from the entry to the flush.                           *)
LEMMA GateTakes ==
  ASSUME Given, NEW t \in Live, t \notin Todos, Takes(t)
  PROVE  GateInv'
<1>1. t \in Ids /\ Reqs \subseteq Ids /\ Fetches \subseteq Ids /\ Reqs \cap Fetches = {}
  BY Constants DEF Live, Ids
<1>2. Where' = Where
  BY DEF Takes, Stays
<1>3. GateInv /\ waiters \in [Slots -> Seq(Born)]
  BY DEF Given, Places, IInv, Data, Flights
<1>4. Where[t] # "none"
  BY <1>1, WhereLive DEF Given, Places
<1> HIDE DEF Where
<1>5. \A f \in Workers' : f.op = "pipe" /\ f.pc = Submitter /\ f.id \in Fetches =>
         \A u \in ToSet(waiters'[fetchOf'[f.id]]) : state'[u] \in AtGate
  BY DEF Takes
<1>6. CASE t \in Reqs
  <2>1. UNCHANGED <<open, waiters, Todos, fetchOf, Dying>> /\ Live' = Live
    BY <1>1, <1>6 DEF Takes
  <2>2. \A s : Queue(s)' = Queue(s)
    BY <1>2, <2>1 DEF Queue
  <2>3. \A f \in Fetches : outcome'[f] = outcome[f]
    BY <1>1, <1>6 DEF Takes
  <2>4. \A u \in Todos' : u \in Reqs \cap Live' /\ state'[u] \in AtGate
    BY <1>1, <1>3, <2>1 DEF GateInv, Takes
  <2> QED BY <1>2, <1>3, <1>5, <2>1, <2>2, <2>3, <2>4 DEF GateInv
<1>7. CASE t \in Fetches
  <2>1. PICK s : /\ s = fetchOf[t] /\ open' = open \ {s}
                 /\ waiters' = [waiters EXCEPT ![s] = <<>>]
                 /\ Todos' = Todos \cup (IF s \in open THEN ToSet(waiters[s]) ELSE {})
                 /\ \A u \in ToSet(waiters[s]) : state[u] \in AtGate
    BY <1>1, <1>7 DEF Takes
  <2>2. s \in Slots
    BY <1>3, <1>4, <1>7, <2>1 DEF GateInv
  <2>3. ToSet(waiters[s]) = Queue(s) /\ Once(waiters[s], Queue(s))
    BY <1>3, <2>2, OnceMeans DEF GateInv
  <2>4. s \notin open => Queue(s) = {}
    BY DEF Queue
  <2>5. Todos' = Todos \cup Queue(s)
    BY <2>1, <2>3, <2>4
  <2>6. \A r \in Slots : r # s => Queue(r)' = Queue(r)
    <3> SUFFICES ASSUME NEW r \in Slots, r # s, NEW u
                 PROVE  u \in Queue(r)' <=> u \in Queue(r)
      OBVIOUS
    <3>1. r \in open' <=> r \in open
      BY <2>1
    <3>2. ~(u \in Queue(r) /\ u \in Queue(s))
      BY <2>2, QueueSlot
    <3>3. u \in Queue(r) => u \notin Todos'
      BY <2>5, <3>2 DEF Queue
    <3> QED BY <1>2, <2>5, <3>1, <3>3 DEF Queue
  <2>7. Queue(s)' = {} /\ s \notin open'
    BY <2>1 DEF Queue
  <2>8. \A r \in Slots : Once(waiters'[r], Queue(r)')
    <3>1. ASSUME NEW r \in Slots, r # s PROVE Once(waiters'[r], Queue(r)')
      BY <1>3, <2>1, <2>6, <3>1 DEF GateInv
    <3>2. waiters'[s] = <<>>
      BY <1>3, <2>1, <2>2
    <3> QED BY <2>7, <3>1, <3>2, OnceEmpty
  <2>9. \A r \in open' : \E f \in Fetches :
          Where'[f] # "none" /\ fetchOf'[f] = r /\ outcome'[f] = <<>>
    <3> SUFFICES ASSUME NEW r \in open'
                 PROVE  \E f \in Fetches :
                          Where'[f] # "none" /\ fetchOf'[f] = r /\ outcome'[f] = <<>>
      OBVIOUS
    <3>1. r \in open /\ r # s
      BY <2>1
    <3>2. PICK f \in Fetches : Where[f] # "none" /\ fetchOf[f] = r /\ outcome[f] = <<>>
      BY <1>3, <3>1 DEF GateInv
    <3>3. f # t
      BY <2>1, <3>1, <3>2
    <3> QED BY <1>2, <3>2, <3>3 DEF Takes
  <2>10. \A f \in Fetches : Where'[f] # "none" => fetchOf'[f] \in Slots
    BY <1>2, <1>3 DEF GateInv, Takes
  <2>11. \A u \in Todos' : u \in Reqs \cap Live' /\ state'[u] \in AtGate
    <3> SUFFICES ASSUME NEW u \in Todos' PROVE u \in Reqs \cap Live' /\ state'[u] \in AtGate
      OBVIOUS
    <3>1. u \in Reqs /\ u \in Ids /\ u # t /\ state[u] \in AtGate
      <4>1. CASE u \in Todos
        BY <1>1, <1>3, <4>1 DEF GateInv
      <4>2. CASE u \in Queue(s)
        BY <1>1, <1>7, <2>1, <2>3, <4>2 DEF Queue
      <4> QED BY <2>5, <4>1, <4>2
    <3>2. u \in Live
      <4>1. CASE u \in Todos
        BY <1>3, <4>1 DEF GateInv
      <4>2. CASE u \in Queue(s)
        <5>1. Where[u] \in AtGate
          BY <2>2, <4>2, QueueSlot
        <5>2. Where[u] # "none"
          BY <5>1 DEF AtGate
        <5> QED BY <3>1, <5>2, WhereLive DEF Given, Places
      <4> QED BY <2>5, <4>1, <4>2
    <3> QED BY <3>1, <3>2 DEF Takes
  <2>12. ~Dying' => \A u \in Ids : Where'[u] \in AtGate =>
                      u \in Reqs /\ (u \in Todos' \/ SlotAt(u, Where'[u]) \in open')
    <3> SUFFICES ASSUME ~Dying', NEW u \in Ids, Where[u] \in AtGate
                 PROVE  u \in Reqs /\ (u \in Todos' \/ SlotAt(u, Where[u]) \in open')
      BY <1>2
    <3>1. u \in Reqs /\ (u \in Todos \/ SlotAt(u, Where[u]) \in open)
      BY <1>3 DEF GateInv, Takes
    <3>2. CASE SlotAt(u, Where[u]) = s
      BY <2>5, <3>1, <3>2, QueueSlot
    <3>3. CASE SlotAt(u, Where[u]) # s
      BY <2>1, <2>5, <3>1, <3>3
    <3> QED BY <3>2, <3>3
  <2> QED BY <1>5, <2>8, <2>9, <2>10, <2>11, <2>12 DEF GateInv
<1> QED BY <1>1, <1>6, <1>7 DEF Ids

-----------------------------------------------------------------------------
(* Callbacks                                                               *)

TodosOf(m) == {t \in Ids : \E f \in FramesIn(m) : f.op = "flush" /\ Contains(f.todo, t)}

(* m is a stack on which t is aborted, delivered or finished and on which  *)
(* no flush is that does not run.                                          *)
Holding(t, m) ==
  /\ Sound(m) /\ m # <<>> /\ Head(m).op \in {"abort", "deliver", "finish"} /\ Head(m).id = t
  /\ \A f \in FramesIn(m) : f.op = "flush" => f \in On

(* It may call back, and flush an entry.                                   *)
LEMMA CallsBack ==
  ASSUME Given, NEW t \in Ids, NEW m, Holding(t, m)
  PROVE  /\ \A cb : /\ t \in Reqs \ SyncReqs
                    /\ \/ cb \notin {"data", "done"}
                       \/ Head(m).op = "deliver" /\ (cb = "done" <=> Head(m).how = "done")
                    => Pushes(Js(t, cb), m)
         /\ \A s \in Slots : \A how : t \in Fetches => Pushes(Flush(t, how, waiters[s]), m)
<1> DEFINE w == Head(m)
           R == FramesIn(Tail(m))
<1>1. /\ \A g \in R : Over(w, g) /\ FramesIn(m) = {w} \cup R
      /\ w.op \in {"abort", "deliver", "finish"} /\ w.id = t
  BY SoundPop DEF Holding, Pushes
<1>2. FramesIn(m) = {w} \cup R
  BY SoundPop DEF Holding
<1> HIDE DEF w, R
<1>3. Reqs \cap Fetches = {} /\ Reqs \subseteq Ids
  BY Constants DEF Ids
<1>4. ASSUME NEW cb, t \in Reqs \ SyncReqs,
             \/ cb \notin {"data", "done"}
             \/ w.op = "deliver" /\ (cb = "done" <=> w.how = "done")
      PROVE  Pushes(Js(t, cb), m)
  <2> DEFINE f == Js(t, cb)
  <2>1. f.op = "js" /\ f.id = t /\ f.how = cb
    BY Fields
  <2> HIDE DEF f
  <2>2. Kind(f)
    BY <1>4, <2>1 DEF Kind
  <2>3. ASSUME NEW g \in FramesIn(m) PROVE Over(f, g)
    <3>1. CASE g = w
      BY <1>1, <2>1, <3>1 DEF Over, Working
    <3>2. CASE g \in R
      <4>1. Over(w, g)
        BY <1>1, <3>2
      <4>2. g.op \notin {"pipe", "kill", "release", "flush", "sync"}
        BY <1>1, <1>3, <1>4, <4>1 DEF Over, Silent
      <4> QED BY <2>1, <4>2 DEF Over, Working
    <3> QED BY <1>2, <3>1, <3>2
  <2>4. Reports(f) => m # <<>> /\ CalledBy(f, Head(m))
    BY <1>1, <1>4, <2>1 DEF Reports, CalledBy, Holding, w
  <2> QED BY <2>2, <2>3, <2>4 DEF Pushes, f
<1>5. ASSUME NEW s \in Slots, NEW how, t \in Fetches
      PROVE  Pushes(Flush(t, how, waiters[s]), m)
  <2> DEFINE f == Flush(t, how, waiters[s])
  <2>1. f.op = "flush" /\ f.id = t /\ f.todo = waiters[s]
    BY Fields
  <2>2. Once(waiters[s], Queue(s))
    BY DEF Given, Places, GateInv
  <2>3. IsInjective(waiters[s]) /\ \A u : Contains(waiters[s], u) <=> u \in Queue(s)
    BY <2>2, OnceMeans
  <2> HIDE DEF f
  <2>4. Kind(f)
    BY <1>5, <2>1, <2>3 DEF Kind
  <2>5. ASSUME NEW g \in FramesIn(m) PROVE Over(f, g)
    <3>1. CASE g = w
      BY <1>1, <2>1, <3>1 DEF Over, Working
    <3>2. CASE g \in R
      <4>1. Over(w, g)
        BY <1>1, <3>2
      <4>2. g.op = "flush" => \A u \in Ids : ~(Contains(f.todo, u) /\ Contains(g.todo, u))
        <5> SUFFICES ASSUME g.op = "flush", NEW u \in Ids, Contains(f.todo, u),
                            Contains(g.todo, u)
                     PROVE  FALSE
          OBVIOUS
        <5>1. g \in On
          BY <1>2, <3>2 DEF Holding
        <5>2. u \in Todos
          BY <5>1 DEF Todos
        <5>3. u \in Queue(s)
          BY <2>1, <2>3
        <5> QED BY <5>2, <5>3 DEF Queue
      <4>3. g.op \notin {"pipe", "kill", "release"}
        BY <4>1 DEF Over
      <4> QED BY <2>1, <4>2, <4>3 DEF Over, Working
    <3> QED BY <1>2, <3>1, <3>2
  <2>6. ~Reports(f)
    BY <2>1 DEF Reports
  <2> QED BY <2>4, <2>5, <2>6 DEF Pushes, f
<1> QED BY <1>4, <1>5 DEF w

(* What a callback of t leaves on the stack.                               *)
CallsFor(t, m, cb) ==
  \/ t \in Reqs /\ stack' = Callback(t, cb, m)
  \/ t \in Fetches /\ \E how : take(t, how, m)

(* The callback, or the flush, is on top and nothing else has changed.     *)
LEMMA Reported ==
  ASSUME Given, NEW t \in Ids, NEW m, Holding(t, m), NEW cb, CallsFor(t, m, cb),
         \/ cb \notin {"data", "done"}
         \/ Head(m).op = "deliver" /\ (cb = "done" <=> Head(m).how = "done"),
         t \in Fetches => fetchOf[t] \in Slots
  PROVE  /\ CallsInv'
         /\ \A f : f.op \notin {"js", "flush"} => (f \in On' <=> f \in FramesIn(m))
         /\ t \in Reqs => Todos' = TodosOf(m)
         /\ t \in Fetches =>
              Todos' = TodosOf(m) \cup (IF fetchOf[t] \in open THEN ToSet(waiters[fetchOf[t]])
                                        ELSE {})
<1>1. Reqs \cap Fetches = {}
  BY Constants
<1>2. CASE stack' = m /\ (t \in Fetches => fetchOf[t] \notin open)
  <2>1. CallsInv' /\ On' = FramesIn(m)
    BY <1>2 DEF Holding, CallsInv, On
  <2>2. Todos' = TodosOf(m)
    BY <2>1 DEF Todos, TodosOf
  <2> QED BY <1>2, <2>1, <2>2
<1>3. CASE t \in Reqs /\ stack' # m
  <2>1. t \in Reqs \ SyncReqs /\ stack' = <<Js(t, cb)>> \o m
    BY <1>1, <1>3 DEF CallsFor, Callback, Quiet
  <2>2. PICK f : f = Js(t, cb)
    OBVIOUS
  <2>3. Pushes(f, m)
    BY <2>1, <2>2, CallsBack
  <2>4. CallsInv' /\ On' = {f} \cup FramesIn(m)
    BY <2>1, <2>2, <2>3, SoundPush DEF Holding, CallsInv, On
  <2>5. f.op = "js"
    BY <2>2, Fields
  <2>6. Todos' = TodosOf(m)
    BY <2>4, <2>5 DEF Todos, TodosOf
  <2> QED BY <1>1, <1>3, <2>4, <2>5, <2>6
<1>4. CASE t \in Fetches /\ fetchOf[t] \in open
  <2>0. PICK how : take(t, how, m)
    BY <1>1, <1>4 DEF CallsFor
  <2>00. PICK s \in Slots : s = fetchOf[t]
    BY <1>4
  <2>01. PICK f : f = Flush(t, how, waiters[s])
    OBVIOUS
  <2>1. s = fetchOf[t] /\ f = Flush(t, how, waiters[s]) /\ stack' = <<f>> \o m
    BY <1>4, <2>0, <2>00, <2>01 DEF take
  <2>2. Pushes(f, m)
    BY <1>4, <2>1, CallsBack
  <2>3. CallsInv' /\ On' = {f} \cup FramesIn(m)
    BY <2>1, <2>2, SoundPush DEF Holding, CallsInv, On
  <2>4. f.op = "flush" /\ f.todo = waiters[s]
    BY <2>1, Fields
  <2>5. Once(waiters[s], Queue(s)) /\ Queue(s) \subseteq Ids
    BY DEF Given, Places, GateInv, Queue, Ids
  <2>6. \A u : Contains(f.todo, u) <=> u \in Queue(s)
    BY <2>4, <2>5, OnceMeans
  <2>7. ToSet(waiters[s]) = Queue(s)
    BY <2>5, OnceMeans
  <2>8. Todos' = TodosOf(m) \cup Queue(s)
    <3>1. Todos' = {u \in Ids : \E g \in {f} \cup FramesIn(m) : g.op = "flush" /\ Contains(g.todo, u)}
      BY <2>3 DEF Todos
    <3>2. \A u : u \in Todos' <=> u \in TodosOf(m) \cup Queue(s)
      BY <2>4, <2>5, <2>6, <3>1 DEF TodosOf
    <3> QED BY <3>2
  <2> QED BY <1>1, <1>4, <2>1, <2>3, <2>4, <2>7, <2>8
<1>5. t \in Fetches /\ fetchOf[t] \notin open => stack' = m
  BY <1>1 DEF CallsFor, take
<1>6. t \in Reqs \/ t \in Fetches
  BY DEF Ids
<1> QED BY <1>1, <1>2, <1>3, <1>4, <1>5, <1>6

-----------------------------------------------------------------------------
(* Transfer.abort                                                          *)

(* abort() may put the state of t aside and run on the stack base.         *)
AbortsOn(t, base) ==
  /\ t \in Live /\ t \notin settled \cup notified /\ state[t] # "aborted"
  /\ Saves[t] = {} /\ t \notin Todos
  /\ Sound(base) /\ Pushes(Abort(t, state[t]), base)
  /\ \A f \in On : f.op = "pipe" => f.id = t
  /\ \A f \in FramesIn(base) : f.op # "pipe"
  /\ \A f : f.op \in {"abort", "deliver", "finish", "flush", "kill"} =>
       (f \in FramesIn(base) <=> f \in On)
  /\ \A u : (\E f \in FramesIn(base) : f.op = "sync" /\ f.id = u)
              <=> (\E f \in On : f.op = "sync" /\ f.id = u)
  /\ t \in Fetches => \A u \in ToSet(waiters[fetchOf[t]]) : state[u] \in AtGate

(* What it leaves alone.                                                   *)
AbortKeeps ==
  /\ UNCHANGED <<retired, detached, events, conns, free, started, pending, delayed>>
  /\ UNCHANGED <<delayedCount, dispatch, gated, dispatchCount, fetchOf, blocking, held>>
  /\ UNCHANGED <<intercepted, fault>>

(* The error callback runs with the transfer in its old place.             *)
LEMMA AbortPlaces ==
  ASSUME Given, NEW t, NEW base, AbortsOn(t, base), abort(t, base), AbortKeeps
  PROVE  Places'
<1> DEFINE A == Abort(t, state[t])
           m == <<A>> \o base
<1>1. /\ t \in Ids /\ t \in Live /\ t \notin detached /\ t \notin retired
      /\ Reqs \cap Fetches = {} /\ (t \in Reqs \/ t \in Fetches)
  BY Constants DEF AbortsOn, Given, Places, BusyInv, Live, Ids
<1>2. A.op = "abort" /\ A.id = t /\ A.how = state[t]
  BY Fields
<1> HIDE DEF A
<1>3. /\ state' = [state EXCEPT ![t] = "delivering"]
      /\ notified' = notified \cup {t} /\ settled' = settled \cup {t}
      /\ outcome' = [outcome EXCEPT ![t] = Append(@, "err")]
      /\ IF t \in Fetches
         THEN take(t, IF fetchOf[t][1] = "cors" THEN "deny" ELSE "store", m)
         ELSE stack' = Callback(t, "err", m) /\ UNCHANGED <<open, waiters>>
  BY <1>1 DEF abort, requestFailed, AbortsOn, A
<1>4. /\ Sound(m) /\ FramesIn(m) = {A} \cup FramesIn(base)
      /\ m # <<>> /\ Head(m) = A /\ Tail(m) = base
  BY SoundPush DEF AbortsOn, A
<1> HIDE DEF m
<1>5. Holding(t, m)
  BY <1>2, <1>4 DEF Holding, AbortsOn
<1>6. t \in Fetches => fetchOf[t] \in Slots
  BY <1>1, WhereLive DEF Given, Places, GateInv
<1>7. CallsFor(t, m, "err")
  BY <1>1, <1>3 DEF CallsFor
<1>8. /\ CallsInv'
      /\ \A f : f.op \notin {"js", "flush"} => (f \in On' <=> f \in FramesIn(m))
      /\ t \in Reqs => Todos' = TodosOf(m)
      /\ t \in Fetches =>
           Todos' = TodosOf(m) \cup (IF fetchOf[t] \in open THEN ToSet(waiters[fetchOf[t]])
                                     ELSE {})
  BY <1>1, <1>5, <1>6, <1>7, Reported
<1>9. TodosOf(m) = Todos
  BY <1>2, <1>4 DEF TodosOf, Todos, AbortsOn
<1>10. /\ \A f \in Workers' : f = A \/ (f \in Workers /\ f.op # "pipe")
       /\ \A f \in Workers : f.op # "pipe" => f \in Workers'
       /\ A \in Workers' /\ \A f \in Workers : f.op = "pipe" => f.id = t
  BY <1>2, <1>4, <1>8 DEF Workers, Working, AbortsOn
<1>11. Syncs' = Syncs /\ Dying' = Dying
  <2>1. Dying' = Dying
    BY <1>2, <1>4, <1>8 DEF Dying, AbortsOn
  <2>2. Syncs' = Syncs
    BY <1>2, <1>4, <1>8 DEF Syncs, AbortsOn
  <2> QED BY <2>1, <2>2
<1>12. Saves' = [Saves EXCEPT ![t] = {A}]
  <2>1. \A u \in Ids : u # t => Saves'[u] = Saves[u]
    BY <1>2, <1>4, <1>8 DEF Saves, AbortsOn
  <2>2. Saves'[t] = {A}
    <3>1. ~\E f \in On : f.op = "abort" /\ f.id = t
      BY <1>1 DEF AbortsOn, Saves
    <3> QED BY <1>1, <1>2, <1>4, <1>8, <3>1 DEF Saves, AbortsOn
  <2> QED BY <1>1, <2>1, <2>2 DEF Saves
<1>13. Stays /\ Live' = Live /\ Born' = Born
  BY <1>1, <1>3, <1>12, WhereAside DEF Given, AbortsOn, AbortKeeps, A
<1>14. UNCHANGED Where
  BY <1>13 DEF Stays
<1> HIDE DEF Where
<1>15. /\ state'[t] = "delivering" /\ \A u \in Ids : u # t => state'[u] = state[u]
       /\ outcome'[t] # <<>> /\ \A u \in Ids : u # t => outcome'[u] = outcome[u]
  <2>1. outcome'[t] = Append(outcome[t], "err") /\ outcome[t] \in Seq({"done", "err", "shutdown"})
    BY <1>1, <1>3 DEF Given, IInv, Data, Calls
  <2>2. outcome'[t] # <<>>
    BY <2>1
  <2> QED BY <1>1, <1>3, <2>2 DEF Given, IInv, Data, Life, Calls
<1>16. Elsewhere({t})
  <2>1. \A f : f.id # t => (f \in Workers' <=> f \in Workers)
    BY <1>2, <1>10
  <2> QED BY <1>3, <1>14, <1>15, <2>1 DEF Elsewhere, AbortKeeps
<1>17. BusyInv /\ StreamInv /\ AnswerInv
  BY DEF Given, Places
<1>18. BusyIn({t})'
  <2>1. state[t] = "delivering" => \E g \in Workers' : g.op = "deliver" /\ g.id = t
    <3> SUFFICES ASSUME state[t] = "delivering"
                 PROVE  \E g \in Workers' : g.op = "deliver" /\ g.id = t
      OBVIOUS
    <3>1. PICK g \in Workers : g.id = t /\ g.op # "pipe"
      BY <1>1, <1>17 DEF BusyInv
    <3>2. g.op # "abort"
      BY <1>1, <3>1 DEF AbortsOn, Saves, Workers
    <3>3. g.op # "finish"
      BY <1>17, <3>1 DEF AbortsOn, AnswerInv
    <3> QED BY <1>10, <3>1, <3>2, <3>3 DEF Workers, Working
  <2>2. \A f \in Workers' : f.id = t /\ f.op = "abort" => f = A
    BY <1>1, <1>10 DEF AbortsOn, Saves, Workers
  <2> QED BY <1>1, <1>2, <1>10, <1>13, <1>15, <2>1, <2>2 DEF BusyIn, AbortKeeps
<1>19. StreamIn({t})'
  <2>1. Terminal(events[t]) => t \notin conns
    BY <1>1, <1>17 DEF StreamInv
  <2>2. /\ UNCHANGED <<events, conns, retired>> /\ settled' = settled \cup {t}
        /\ A \in Workers' /\ A.id = t /\ A.op = "abort"
    BY <1>2, <1>3, <1>10 DEF AbortKeeps
  <2>3. Where'[t] = "buffered" => Terminal(events'[t])
    BY <1>1, <1>14, <1>17, <2>2 DEF StreamInv
  <2>4. \A f \in Workers' : f.id = t /\ f.op = "deliver" =>
           /\ f.how = "batch" => t \in conns' \/ Terminal(events'[t])
           /\ f.how = "last" => t \in settled'
    BY <1>2, <1>10, <1>17, <2>2 DEF StreamInv
  <2> QED BY <1>15, <2>1, <2>2, <2>3, <2>4 DEF StreamIn
<1>20. AnswerIn({t})'
  <2>1. t \in Born'
    BY <1>1, <1>13 DEF Live, Born
  <2>2. t \in settled' /\ t \notin retired'
    BY <1>1, <1>3 DEF AbortKeeps
  <2>3. \A f \in Workers' : f.id = t /\ f.op = "deliver" => f.how # "done"
    BY <1>1, <1>2, <1>10, <1>17 DEF AbortsOn, AnswerInv
  <2> QED BY <1>15, <2>1, <2>2, <2>3 DEF AnswerIn
<1>21. BusyInv' /\ StreamInv' /\ AnswerInv'
  BY <1>16, <1>18, <1>19, <1>20, ElsewhereKeeps DEF Given
<1>22. PendingInv' /\ DelayedInv' /\ DispatchInv' /\ PoolInv' /\ BlockInv'
  BY <1>11, <1>14, Untouched DEF Given, AbortKeeps
<1>23. HeldInv'
  <2>1. Shifts({})
    BY <1>14, WhereTable DEF Shifts
  <2> QED BY <1>13, <2>1, HeldElse DEF Given, Places, AbortKeeps
<1>24. GateInv'
  <2>1. Takes(t)
    <3>1. \A f \in Workers' : f.op # "pipe"
      BY <1>2, <1>10
    <3>2. t \in Reqs => UNCHANGED <<open, waiters, Todos>>
      BY <1>1, <1>3, <1>8, <1>9
    <3>3. t \in Fetches =>
            \E s : /\ t \in Fetches /\ s = fetchOf[t] /\ open' = open \ {s}
                   /\ waiters' = [waiters EXCEPT ![s] = <<>>]
                   /\ Todos' = Todos \cup (IF s \in open THEN ToSet(waiters[s]) ELSE {})
                   /\ \A u \in ToSet(waiters[s]) : state[u] \in AtGate
      BY <1>3, <1>8, <1>9 DEF take, AbortsOn
    <3>4. \A f \in Fetches : f # t => outcome'[f] = outcome[f]
      BY <1>15 DEF Ids
    <3> QED BY <1>1, <1>11, <1>13, <1>15, <3>1, <3>2, <3>3, <3>4 DEF Takes, AbortKeeps
  <2> QED BY <1>1, <2>1, GateTakes DEF AbortsOn
<1> QED BY <1>8, <1>21, <1>22, <1>23, <1>24 DEF Given, Places, AbortKeeps

(* A script or window.stop() aborts a request.                             *)
LEMMA ScriptAborts ==
  ASSUME Given, stack # <<>>, Top.op \in {"js", "stop"}, NEW t \in Live,
         t \in Reqs \ settled, state[t] # "aborted", abort(t, stack), AbortKeeps
  PROVE  Places'
<1>1. /\ Pushes(Top, Below) /\ On = {Top} \cup Rest /\ CallsInv
  <2>1. Running(Top.op)
    BY DEF Running, Top
  <2> QED BY <2>1, OnTopView DEF Given, Places
<1>2. \A g \in Rest : Over(Top, g)
  BY <1>1 DEF Pushes, Rest
<1>3. \A g \in On : g.op \notin {"pipe", "kill", "release", "flush", "sync"}
  BY <1>1, <1>2 DEF Over
<1>4. BusyInv /\ AnswerInv /\ t \in Ids /\ Reqs \cap Fetches = {}
  BY Constants DEF Given, Places, Live
<1>5. t \notin settled \cup notified
  BY <1>4 DEF AnswerInv
<1>6. \A f \in Workers : f.id = t => f.op = "deliver"
  <2>1. \A f \in Workers : f.id = t => f.op \notin {"abort", "finish", "pipe"}
    BY <1>3, <1>4 DEF AnswerInv, Workers
  <2> QED BY <2>1 DEF Workers, Working
<1>7. Saves[t] = {}
  BY <1>4, <1>6, WhereIs
<1>8. t \notin Todos /\ Todos = {}
  BY <1>3 DEF Todos
<1>9. state[t] \notin {"none", "created", "aborted"}
  BY <1>4, <1>6 DEF BusyInv, Live
<1>10. Pushes(Abort(t, state[t]), stack)
  <2> DEFINE A == Abort(t, state[t])
  <2>1. A.op = "abort" /\ A.id = t /\ A.how = state[t]
    BY Fields
  <2> HIDE DEF A
  <2>2. Kind(A) /\ ~Reports(A)
    BY <1>4, <1>9, <2>1 DEF Kind, Reports
  <2>3. ASSUME NEW g \in On PROVE Over(A, g)
    <3>1. g.op \in Working /\ g.id = t => g.op = "deliver" /\ state[t] = "delivering"
      BY <1>4, <1>6 DEF Workers, BusyInv
    <3> QED BY <1>3, <2>1, <3>1 DEF Over
  <2> QED BY <2>2, <2>3 DEF Pushes, A, On
<1>11. Sound(stack) /\ FramesIn(stack) = On
  BY <1>1 DEF CallsInv, On
<1>12. AbortsOn(t, stack)
  BY <1>3, <1>4, <1>5, <1>7, <1>8, <1>9, <1>10, <1>11 DEF AbortsOn
<1> QED BY <1>12, AbortPlaces

(* window.stop().                                                          *)
LEMMA StopOnePlaces == ASSUME Given, NEW t \in Ids, StopOne(t) PROVE Places'
<1>1. /\ Running("stop") /\ owner[t] = Top.id /\ t \notin settled /\ abort(t, stack)
      /\ stack # <<>> /\ Top.op = "stop"
  BY DEF StopOne, Stoppable, Running, Top
<1>2. Top.id \in Owners
  <2>1. Kind(Top)
    BY <1>1, OnTopView DEF Given, Places, Pushes
  <2> QED BY <1>1, <2>1 DEF Kind
<1>3. t \in Live /\ t \in Reqs /\ t \notin detached
  BY <1>1, <1>2, Constants DEF Given, IInv, OwnerLinks
<1>4. state[t] # "aborted"
  BY <1>3 DEF Given, Places, BusyInv
<1>5. AbortKeeps
  BY DEF StopOne, AbortKeeps, idle, evars, qvars, dvars, nvars, cvars
<1> QED BY <1>1, <1>3, <1>4, <1>5, ScriptAborts

(* XMLHttpRequest.abort() and AbortController.abort().                     *)
LEMMA CancelPlaces == ASSUME Given, NEW t \in Reqs, Cancel(t) PROVE Places'
<1>1. /\ stack # <<>> /\ Top.op = "js" /\ t \in Live /\ t \in Reqs \ settled
      /\ state[t] # "aborted" /\ abort(t, stack)
  BY DEF Cancel, InJs, Running, Top, Given, Careful
<1>2. AbortKeeps
  BY DEF Cancel, AbortKeeps, idle, evars, qvars, dvars, nvars, cvars
<1> QED BY <1>1, <1>2, ScriptAborts

(* A blocking request gives up.                                            *)
LEMMA SyncAbortPlaces == ASSUME Given, SyncAbort PROVE Places'
<1>0. PICK t, S : t = Top.id /\ S = Sync(t, "exit")
  OBVIOUS
<1> DEFINE base == <<S>> \o Below
<1>1. /\ Running("sync") /\ outcome[t] = <<>> /\ abort(t, base)
      /\ AbortKeeps
  BY <1>0 DEF SyncAbort, AbortKeeps, idle, evars, qvars, dvars, nvars, cvars
<1>2. /\ stack # <<>> /\ Top.op = "sync" /\ Sound(Below) /\ Pushes(Top, Below)
      /\ On = {Top} \cup Rest
  BY <1>1, OnTopView DEF Given, Places
<1>3. S.op = "sync" /\ S.id = t
  BY <1>0, Fields
<1>4. Pushes(S, Below)
  BY <1>0, <1>2, <1>3, Relabelled
<1>5. Sound(base) /\ FramesIn(base) = {S} \cup Rest
  BY <1>2, <1>4, SoundPush DEF Rest
<1>6. /\ Head(base) = S /\ Tail(base) = Below
  BY <1>2, <1>4, SoundPush
<1> HIDE DEF base
<1>7. \A g \in Rest : Over(Top, g)
  BY <1>2 DEF Pushes, Rest
<1>8. \A g \in Rest : g.op \notin {"pipe", "kill", "release", "flush", "sync", "abort"}
  BY <1>2, <1>7 DEF Over
<1>9. t \in SyncReqs /\ t \in Reqs /\ t \in Ids /\ t \in Born
  <2>1. t \in SyncReqs
    BY <1>0, <1>2 DEF Pushes, Kind
  <2>2. Top \in On
    BY <1>2
  <2>3. t \in Born
    BY <1>0, <1>2, <2>2, KnownOn DEF Given, TransferOps
  <2> QED BY <2>1, <2>3, Constants DEF Ids
<1>10. BusyInv /\ AnswerInv /\ Reqs \cap Fetches = {}
  BY Constants DEF Given, Places
<1>11. t \in Live /\ t \notin settled
  BY <1>1, <1>9, <1>10 DEF Live, Born, AnswerInv
<1>12. \A f \in Workers : f.id # t
  <2>1. \A g \in Rest : g.op \in Working => g.id # t
    BY <1>0, <1>2, <1>7 DEF Over
  <2> QED BY <1>2, <2>1 DEF Workers, Working
<1>13. state[t] \notin {"none", "created", "delivering", "aborted"} /\ Saves[t] = {}
  <2>1. Saves[t] = {}
    BY <1>9, <1>12, WhereIs
  <2> QED BY <1>10, <1>11, <1>12, <2>1 DEF BusyInv, Live
<1>14. t \notin notified
  BY <1>10, <1>11, <1>13 DEF AnswerInv
<1>15. Todos = {}
  BY <1>2, <1>8 DEF Todos
<1>16. Pushes(Abort(t, state[t]), base)
  <2> DEFINE A == Abort(t, state[t])
  <2>1. A.op = "abort" /\ A.id = t /\ A.how = state[t]
    BY Fields
  <2> HIDE DEF A
  <2>2. Kind(A) /\ ~Reports(A)
    BY <1>9, <1>10, <1>13, <2>1 DEF Kind, Reports
  <2>3. Over(A, S)
    BY <1>3, <1>9, <2>1 DEF Over, Silent, Working
  <2>4. ASSUME NEW g \in Rest PROVE Over(A, g)
    <3>1. g.op \in Working => g.id # t
      BY <1>2, <1>12 DEF Workers
    <3> QED BY <1>8, <2>1, <3>1 DEF Over
  <2> QED BY <1>5, <2>2, <2>3, <2>4 DEF Pushes, A
<1>17. /\ \A f : f.op # "sync" => (f \in FramesIn(base) <=> f \in On)
       /\ \A f \in On : f.op # "pipe"
       /\ \A f \in FramesIn(base) : f.op # "pipe"
  BY <1>2, <1>3, <1>5, <1>8
<1>18. \A u : (\E f \in FramesIn(base) : f.op = "sync" /\ f.id = u)
               <=> (\E f \in On : f.op = "sync" /\ f.id = u)
  BY <1>0, <1>2, <1>3, <1>5
<1>19. AbortsOn(t, base)
  BY <1>5, <1>9, <1>10, <1>11, <1>13, <1>14, <1>15, <1>16, <1>17, <1>18 DEF AbortsOn
<1> QED BY <1>1, <1>19, AbortPlaces

-----------------------------------------------------------------------------
(* A pipeline that has failed                                              *)

(* Submitter's own call fails: the request is aborted.                     *)
LEMMA SubmitFails ==
  ASSUME Given, Running("pipe"), Top.pc = Submitter, NEW t, t = Top.id,
         abort(t, Below), AbortKeeps
  PROVE  Places'
<1>1. /\ t \in Live /\ t \in Ids /\ t \notin Todos /\ state[t] \in {"created", "inflight"}
      /\ Saves[t] = {} /\ t \notin settled \cup notified
      /\ Sound(Below) /\ Pushes(Top, Below) /\ On = {Top} \cup Rest
      /\ Top \in Workers /\ Top.op = "pipe"
      /\ \A g \in Rest : g.op \in Working => g.id # t
  BY Piped
<1>2. \A g \in Rest : Over(Top, g)
  BY <1>1 DEF Pushes, Rest
<1>3. \A g \in Rest : g.op # "pipe"
  BY <1>2 DEF Over
<1>4. Submitter # Resumer
  BY DEF Submitter, Resumer
<1>5. Pushes(Abort(t, state[t]), Below)
  <2> DEFINE A == Abort(t, state[t])
  <2>1. A.op = "abort" /\ A.id = t /\ A.how = state[t]
    BY Fields
  <2> HIDE DEF A
  <2>2. Kind(A) /\ ~Reports(A)
    BY <1>1, <2>1 DEF Kind, Reports
  <2>3. ASSUME NEW g \in Rest PROVE Over(A, g)
    <3>1. Over(Top, g) /\ Top.op = "pipe" /\ Top.pc = Submitter /\ Top.id = t
      BY <1>1, <1>2
    <3>2. /\ g.op \notin {"pipe", "kill", "release"}
          /\ g.op = "flush" => t \in Fetches
          /\ g.op = "sync" => Silent(t)
      BY <1>4, <3>1 DEF Over
    <3> QED BY <1>1, <2>1, <3>2 DEF Over, Working
  <2> QED BY <2>2, <2>3 DEF Pushes, A, Rest
<1>6. t \in Fetches => \A u \in ToSet(waiters[fetchOf[t]]) : state[u] \in AtGate
  BY <1>1 DEF Given, Places, GateInv
<1>7. /\ \A f : f.op # "pipe" => (f \in FramesIn(Below) <=> f \in On)
      /\ \A f \in On : f.op = "pipe" => f.id = t
      /\ \A f \in FramesIn(Below) : f.op # "pipe"
  BY <1>1, <1>3 DEF Rest
<1>8. AbortsOn(t, Below)
  BY <1>1, <1>5, <1>6, <1>7 DEF AbortsOn
<1> QED BY <1>8, AbortPlaces

(* The error is buffered, whatever becomes of the caller.                  *)
LEMMA PipeBuffers ==
  ASSUME Given, Running("pipe"), NEW t, t = Top.id, CallsInv',
         Workers' = {f \in Workers : f.id # t}, UNCHANGED <<Syncs, Todos, Dying, Saves>>,
         scheduleDispatch(t, state[t], <<"err">>, {}), removeConn(t),
         UNCHANGED <<retired, cbvars, started, qvars, open, waiters, fetchOf, blocking, cvars>>
  PROVE  Places'
<1>1. t \in Live /\ state[t] \in {"created", "inflight"}
  BY Piped
<1>4. PICK evs \in Ending : evs = <<"err">>
  BY DEF Ending
<1>11. PICK st \in {"created", "inflight"} : st = state[t]
  BY <1>1
<1>12. scheduleDispatch(t, st, evs, {})
  BY <1>4, <1>11
<1>2. /\ state' = [state EXCEPT ![t] = "buffered"] /\ UNCHANGED fault
      /\ events' = [events EXCEPT ![t] = @ \o evs]
      /\ \/ Linked(t) /\ UNCHANGED <<dispatch, gated, dispatchCount>>
         \/ /\ ~Linked(t) /\ dispatch' = Append(dispatch, t)
            /\ dispatchCount' = dispatchCount + 1 /\ UNCHANGED gated
  BY ONLY <1>11, <1>12, SchedulesIs
<1>3. /\ UNCHANGED <<retired, detached, outcome, settled, notified, started>>
      /\ UNCHANGED <<pending, delayed, delayedCount, open, waiters, fetchOf, blocking>>
      /\ UNCHANGED <<held, intercepted>>
  BY DEF cbvars, qvars, cvars
<1>5. Buffers(t, evs)
  BY <1>1, <1>2, <1>3 DEF Buffers
<1>6. /\ BusyInv' /\ StreamInv' /\ AnswerInv'
      /\ PendingInv' /\ DelayedInv' /\ DispatchInv' /\ PoolInv'
      /\ Moves(t, "buffered") /\ Live' = Live /\ t \in Ids /\ Where[t] = state[t] /\ GateInv'
  BY <1>1, <1>3, <1>5, BuffersKeep DEF AtGate
<1>7. Shifts({state[t], "buffered"})
  BY <1>6, MoveShifts
<1>8. HeldInv'
  BY <1>1, <1>3, <1>6, <1>7, HeldElse DEF Given, Places, Kept4Cdp
<1>9. BlockInv'
  BY <1>3, Untouched DEF Given
<1> QED BY <1>2, <1>6, <1>8, <1>9 DEF Given, Places

(* The tick below returns the error.                                       *)
LEMMA FailTickView ==
  ASSUME Given, Running("pipe"), Top.pc = Ticker, NEW t, t = Top.id, FailTick(Below)
  PROVE  /\ CallsInv' /\ UNCHANGED <<Syncs, Todos, Dying, Saves>>
         /\ Workers' = {f \in Workers : f.id # t}
<1>1. /\ stack # <<>> /\ Sound(Below) /\ On = {Top} \cup Rest /\ Top.op = "pipe"
      /\ Top \in Workers /\ \A g \in Rest : g.op \in Working => g.id # t
  BY Piped
<1>2. Below # <<>> /\ Head(Below).op = "tick" /\ Good(Born, Below)
  BY <1>1, TopFrame DEF Given, Fits
<1> DEFINE K == Head(Below)
           s == Tail(Below)
<1>3. /\ Sound(s) /\ Rest = {K} \cup FramesIn(s)
  BY <1>1, <1>2, SoundPop DEF Rest
<1>4. /\ Good(Born, s) /\ Fits(K, s)
  BY <1>2, Pop
<1>5. /\ CallsInv'
      /\ \A g \in Rest : \/ g \in On' \/ Plain(g)
                         \/ g.op = "sync" /\ \E h \in On' : h.op = "sync" /\ h.id = g.id
      /\ \A g \in On' : \/ g \in Rest \/ Plain(g)
                        \/ g.op = "sync" /\ \E h \in Rest : h.op = "sync" /\ h.id = g.id
  <2>1. CASE K.how = "sync_wait"
    <3>1. stack' = Erring(s)
      BY <2>1 DEF FailTick, Erring
    <3>2. s # <<>> /\ Head(s).op \in {"sync", "import"}
      BY <1>2, <1>4, <2>1 DEF Fits
    <3>3. Head(s) \in Frames
      BY <1>4, <3>2, HeadFrame
    <3>4. PICK f : /\ CallsInv' /\ On' = {f} \cup FramesIn(Tail(s))
                   /\ FramesIn(s) = {Head(s)} \cup FramesIn(Tail(s))
                   /\ f.op = Head(s).op /\ f.id = Head(s).id
      BY <1>3, <3>1, <3>2, <3>3, Errs DEF CallsInv, On
    <3> HIDE DEF K, s
    <3>5. K.op = "tick"
      BY <1>2 DEF K
    <3>6. \A g \in Rest : \/ g \in On' \/ Plain(g)
                          \/ g.op = "sync" /\ \E h \in On' : h.op = "sync" /\ h.id = g.id
      BY <1>3, <3>2, <3>4, <3>5 DEF Plain
    <3>7. \A g \in On' : \/ g \in Rest \/ Plain(g)
                         \/ g.op = "sync" /\ \E h \in Rest : h.op = "sync" /\ h.id = g.id
      BY <1>3, <3>2, <3>4, <3>5 DEF Plain
    <3> QED BY <3>4, <3>6, <3>7
  <2>2. CASE K.how # "sync_wait"
    <3>1. stack' = s
      BY <2>2 DEF FailTick
    <3>2. CallsInv' /\ On' = FramesIn(s)
      BY <1>3, <3>1 DEF CallsInv, On
    <3> QED BY <1>2, <1>3, <3>2 DEF Plain
  <2> QED BY <2>1, <2>2
<1> HIDE DEF K, s
<1>6. \A t0 : ~Contains(<<>>, t0)
  BY DEF Contains
<1>7. \A f : Plain(f) => /\ f.op \notin Working /\ f.op # "sync"
                         /\ f.op = "flush" => \A u : ~Contains(f.todo, u)
                         /\ ~(f.op = "kill" /\ f.id = "client")
  BY <1>6 DEF Plain, Working
<1>8. Workers' = {f \in Workers : f.id # t}
  <2>1. \A f : f.op \in Working => (f \in On' <=> f \in Rest)
    <3>1. "sync" \notin Working
      BY DEF Working
    <3> QED BY <1>5, <1>7, <3>1
  <2>2. \A f : f \in Workers' <=> f \in Workers /\ f.id # t
    BY <1>1, <2>1 DEF Workers
  <2> QED BY <2>2
<1>9. Syncs' = Syncs
  BY <1>1, <1>5, <1>7 DEF Syncs
<1>10. Todos' = Todos
  BY <1>1, <1>5, <1>7 DEF Todos
<1>11. Dying' = Dying
  BY <1>1, <1>5, <1>7 DEF Dying
<1>12. Saves' = Saves
  <2>1. ASSUME NEW u \in Ids
        PROVE  {f \in On : f.op = "abort" /\ f.id = u}' = {f \in On : f.op = "abort" /\ f.id = u}
    <3>1. \A f : f.op = "abort" => ~Plain(f) /\ f.op # "sync" /\ f # Top
      BY <1>1, <1>7 DEF Working
    <3> QED BY <1>1, <1>5, <3>1
  <2> QED BY <2>1 DEF Saves
<1> QED BY <1>5, <1>8, <1>9, <1>10, <1>11, <1>12

(* A failed pipeline, by its caller.                                       *)
LEMMA PipeFailedPlaces == ASSUME Given, PipeFailed PROVE Places'
<1>0. PICK t : t = Top.id
  OBVIOUS
<1>1. /\ Running("pipe") /\ Top.how = "failed"
      /\ UNCHANGED <<retired, owner, detached, started, hops, qvars, fetchOf, verdict,
                     blocking, cvars, mailbox>>
  BY DEF PipeFailed, AtStage
<1>2. /\ t \in Live /\ t \in Ids /\ state[t] \in {"created", "inflight"} /\ Saves[t] = {}
      /\ Where[t] = state[t] /\ t \notin settled \cup notified \cup detached
      /\ outcome[t] = <<>> /\ stack # <<>> /\ On = {Top} \cup Rest /\ Top.op = "pipe"
      /\ Pushes(Top, Below) /\ Top \in Workers /\ Top.pc \in Callers
      /\ \A g \in Rest : g.op \in Working => g.id # t
  BY <1>0, <1>1, Piped
<1>3. Top.pc # Resumer
  BY <1>1, <1>2 DEF Pushes, Kind
<1>4. Top.pc \in {Submitter, Ticker, Redirect}
  BY <1>2, <1>3 DEF Callers
<1>5. Submitter # Ticker /\ Submitter # Redirect /\ Ticker # Redirect
      /\ Ticker # Resumer /\ Redirect # Resumer
  BY DEF Submitter, Ticker, Redirect, Resumer
<1>6. CASE Top.pc = Submitter
  <2>1. abort(t, Below) /\ UNCHANGED <<events, dvars, nvars, fault>>
    BY <1>0, <1>2, <1>5, <1>6 DEF PipeFailed
  <2>2. AbortKeeps
    BY <1>1, <2>1 DEF AbortKeeps, qvars, dvars, nvars, cvars
  <2> QED BY <1>0, <1>1, <1>6, <2>1, <2>2, SubmitFails
<1>7. CASE Top.pc = Redirect
  <2>1. /\ stack' = Below /\ removeConn(t) /\ scheduleDispatch(t, state[t], <<"err">>, {})
        /\ UNCHANGED <<outcome, settled, notified, open, waiters>>
    BY <1>0, <1>5, <1>7 DEF PipeFailed
  <2>2. CallsInv' /\ On' = Rest
    BY <1>2, <2>1, AfterPop DEF Given, Places
  <2>3. UNCHANGED <<Syncs, Todos, Dying, Saves>>
    BY <1>2, <2>2, HandsView
  <2>4. Workers' = {f \in Workers : f.id # t}
    BY <1>0, <1>2, <2>2 DEF Workers, Working
  <2> QED BY <1>0, <1>1, <2>1, <2>2, <2>3, <2>4, PipeBuffers DEF cbvars
<1>8. CASE Top.pc = Ticker
  <2>1. /\ FailTick(Below)
        /\ IF state[t] = "created" THEN scheduleDispatch(t, "created", <<"err">>, {})
           ELSE UNCHANGED <<state, events, dvars, fault>>
        /\ UNCHANGED <<outcome, settled, notified, open, waiters, nvars>>
    BY <1>0, <1>5, <1>8 DEF PipeFailed
  <2>2. /\ CallsInv' /\ UNCHANGED <<Syncs, Todos, Dying, Saves>>
        /\ Workers' = {f \in Workers : f.id # t}
    BY <1>0, <1>1, <1>8, <2>1, FailTickView
  <2>3. CASE state[t] = "created"
    <3>1. t \notin conns
      BY <1>2, <2>3 DEF Given, Places, PoolInv
    <3>2. removeConn(t)
      BY <2>1, <3>1, NoConn DEF Given, nvars
    <3>3. scheduleDispatch(t, state[t], <<"err">>, {})
      BY <2>1, <2>3
    <3> QED BY <1>0, <1>1, <2>1, <2>2, <3>2, <3>3, PipeBuffers DEF cbvars
  <2>4. CASE state[t] = "inflight"
    <3>1. /\ UNCHANGED <<state, retired, detached, outcome, settled, notified, events, started>>
          /\ UNCHANGED <<conns, free, pending, delayed, delayedCount, dispatch, gated>>
          /\ UNCHANGED <<dispatchCount, open, waiters, fetchOf, blocking, held, intercepted>>
          /\ UNCHANGED fault
      BY <1>1, <2>1, <2>4 DEF dvars, nvars, qvars, cvars
    <3>2. Stays /\ Live' = Live /\ Born' = Born
      BY <2>2, <3>1, SameWhere
    <3>3. UNCHANGED Where
      BY <3>2 DEF Stays
    <3> HIDE DEF Where
    <3>4. Elsewhere({t})
      BY <2>2, <3>1, <3>3 DEF Elsewhere
    <3>5. BusyInv /\ StreamInv /\ AnswerInv
      BY DEF Given, Places
    <3>6. BusyIn({t})'
      BY <1>2, <2>2, <2>4, <3>1 DEF BusyIn
    <3>7. StreamIn({t})'
      BY <1>2, <2>2, <2>4, <3>1, <3>3, <3>5 DEF StreamIn, StreamInv, Terminal
    <3>8. AnswerIn({t})'
      BY <1>2, <2>2, <3>1, <3>2, <3>5 DEF AnswerIn, AnswerInv, Live
    <3>9. BusyInv' /\ StreamInv' /\ AnswerInv'
      BY <3>4, <3>6, <3>7, <3>8, ElsewhereKeeps DEF Given
    <3>10. PendingInv' /\ DelayedInv' /\ DispatchInv' /\ PoolInv' /\ HeldInv' /\ BlockInv'
      BY <2>2, <3>1, <3>3, Untouched DEF Given
    <3>11. GateInv'
      <4>1. Shifts({})
        BY <3>3, WhereTable DEF Shifts
      <4>2. /\ \A f \in Fetches : Where'[f] # "none" <=> Where[f] # "none"
            /\ \A f \in Fetches : outcome[f] = <<>> => outcome'[f] = <<>>
            /\ \A u \in Live : state[u] \in AtGate => u \in Live' /\ state'[u] \in AtGate
            /\ \A f \in Workers' : f.op = "pipe" /\ f.pc = Submitter /\ f.id \in Fetches =>
                 \E g \in Workers : g.op = "pipe" /\ g.pc = Submitter /\ g.id = f.id
        BY <2>2, <3>1, <3>2, <3>3
      <4> QED BY <2>2, <3>1, <4>1, <4>2, GateElse DEF Given
    <3> QED BY <2>2, <3>1, <3>9, <3>10, <3>11 DEF Given, Places
  <2> QED BY <1>2, <2>3, <2>4
<1> QED BY <1>4, <1>6, <1>7, <1>8

-----------------------------------------------------------------------------
(* The waiters of a flush                                                  *)

(* The next waiter is parked at its gate and in nobody's hands; the flush  *)
(* goes on without it.                                                     *)
FlushIs(w, G) ==
  /\ w \in Reqs /\ w \in Live /\ w \in Ids /\ w \in Todos
  /\ state[w] \in AtGate /\ Where[w] = state[w] /\ Saves[w] = {}
  /\ NotParked(w) = {} /\ w \notin conns /\ \A f \in Workers : f.id # w
  /\ stack # <<>> /\ On = {Top} \cup Rest /\ G.op = "flush"
  /\ Sound(<<G>> \o Below) /\ FramesIn(<<G>> \o Below) = {G} \cup Rest
  /\ TodosOf(<<G>> \o Below) = Todos \ {w} /\ ~Dying
  /\ \A u : Contains(G.todo, u) => u # w /\ Contains(Top.todo, u)

(* That holds whenever a flush has a waiter left.                          *)
LEMMA FlushesIs ==
  ASSUME Given, Running("flush"), Top.todo # <<>>, NEW w, w = Head(Top.todo),
         NEW G, G = [Top EXCEPT !.todo = Tail(@)]
  PROVE  FlushIs(w, G)
<1>1. /\ stack # <<>> /\ Top.op = "flush" /\ Sound(Below) /\ Pushes(Top, Below)
      /\ On = {Top} \cup Rest
  BY OnTopView DEF Given, Places
<1>2. PICK F : F = Top
  OBVIOUS
<1>3. F \in Frames /\ F \in On /\ F.todo \in Seq(Born) /\ F.op = "flush" /\ F.todo # <<>>
  BY <1>1, <1>2, TopFrame, KnownOn DEF Given
<1>4. G = [F EXCEPT !.todo = Tail(F.todo)]
  BY <1>2
<1>5. G.op = "flush" /\ G.id = F.id /\ G.todo = Tail(F.todo)
  <2>1. PICK r : r = Tail(F.todo)
    OBVIOUS
  <2>2. G = [F EXCEPT !.todo = r]
    BY <1>4, <2>1
  <2>3. LET g == [F EXCEPT !.todo = r]
        IN  g.op = F.op /\ g.id = F.id /\ g.how = F.how /\ g.todo = r
    BY <1>3, Edited
  <2> QED BY <1>3, <2>1, <2>2, <2>3
<1>6. Kind(F) /\ \A g \in Rest : Over(F, g)
  BY <1>1, <1>2 DEF Pushes, Rest
<1>7. IsInjective(F.todo) /\ F.id \in Fetches
  BY <1>3, <1>6 DEF Kind
<1> DEFINE q == F.todo
           A == ToSet(q)
<1>8. Once(q, A)
  BY <1>3, <1>7, OnceIs
<1>9. w = Head(q) /\ q # <<>>
  BY <1>2, <1>3
<1> HIDE DEF q
<1>10. w \in A /\ Once(Tail(q), A \ {w})
  BY <1>8, <1>9, OnceTail
<1> HIDE DEF A
<1>11. /\ \A u : Contains(q, u) <=> u \in A
       /\ \A u : Contains(Tail(q), u) <=> u \in A \ {w}
       /\ IsInjective(Tail(q))
  BY <1>8, <1>10, OnceMeans
<1>12. w \in Todos /\ w \in Ids
  <2>1. w \in Born
    BY <1>3, <1>9 DEF q
  <2>2. Contains(F.todo, w)
    BY <1>10, <1>11 DEF q
  <2> QED BY <1>3, <2>1, <2>2 DEF Todos, Born
<1>13. w \in Reqs /\ w \in Live /\ state[w] \in AtGate
  BY <1>12 DEF Given, Places, GateInv
<1>14. Where[w] = state[w] /\ Saves[w] = {}
  BY <1>12, <1>13, WhereLive DEF Given, Places, AtGate
<1>15. NotParked(w) = {}
  BY <1>13 DEF NotParked, Broken, Parked, AtGate
<1>16. w \notin conns
  BY <1>12, <1>13, <1>14 DEF Given, Places, PoolInv, AtGate
<1>17. \A f \in Workers : f.id # w
  BY <1>13 DEF Given, Places, BusyInv, AtGate
<1>18. Pushes(G, Below)
  <2>1. Kind(G)
    BY <1>5, <1>7, <1>11 DEF Kind, q
  <2>2. ASSUME NEW g \in Rest PROVE Over(G, g)
    <3>1. Over(F, g)
      BY <1>6
    <3>2. \A u : Contains(G.todo, u) => Contains(F.todo, u)
      BY <1>5, <1>11 DEF q
    <3> QED BY <1>3, <1>5, <3>1, <3>2 DEF Over, Working
  <2>3. ~Reports(G)
    BY <1>5 DEF Reports
  <2> QED BY <2>1, <2>2, <2>3 DEF Pushes, Rest
<1>19. Sound(<<G>> \o Below) /\ FramesIn(<<G>> \o Below) = {G} \cup Rest
  BY <1>1, <1>18, SoundPush DEF Rest
<1>20. TodosOf(<<G>> \o Below) = Todos \ {w}
  <2>1. ASSUME NEW u PROVE u \in TodosOf(<<G>> \o Below) <=> u \in Todos \ {w}
    <3>1. u \in TodosOf(<<G>> \o Below)
            <=> u \in Ids /\ (u \in A \ {w} \/ \E g \in Rest : g.op = "flush" /\ Contains(g.todo, u))
      BY <1>5, <1>11, <1>19 DEF TodosOf, q
    <3>2. u \in Todos
            <=> u \in Ids /\ (u \in A \/ \E g \in Rest : g.op = "flush" /\ Contains(g.todo, u))
      BY <1>1, <1>2, <1>3, <1>11 DEF Todos, q
    <3>3. ~\E g \in Rest : g.op = "flush" /\ Contains(g.todo, w)
      BY <1>3, <1>6, <1>10, <1>11, <1>12 DEF Over, q
    <3> QED BY <3>1, <3>2, <3>3
  <2> QED BY <2>1
<1>21. ~Dying
  BY <1>1, NotDying DEF Given, Places
<1>22. \A u : Contains(G.todo, u) => u # w /\ Contains(Top.todo, u)
  BY <1>2, <1>5, <1>11 DEF q
<1> QED
  BY <1>1, <1>5, <1>12, <1>13, <1>14, <1>15, <1>16, <1>17, <1>19, <1>20, <1>21, <1>22
     DEF FlushIs

(* It leaves the gate.                                                     *)
LEMMA GateFlushed ==
  ASSUME Given, NEW t \in Todos, NEW l, l \notin AtGate, l # "none", Moves(t, l),
         Live' = Live, Todos' = Todos \ {t}, ~Dying,
         UNCHANGED <<open, waiters, fetchOf, outcome>>,
         \A u \in Ids : u # t => state'[u] = state[u],
         \A f \in Workers' : f.op = "pipe" /\ f.pc = Submitter => f \in Workers
  PROVE  GateInv'
<1>1. GateInv /\ t \in Ids /\ t \in Reqs /\ Reqs \cap Fetches = {} /\ Fetches \subseteq Ids
      /\ waiters \in [Slots -> Seq(Born)] /\ t \in Live
  BY Constants DEF Given, Places, GateInv, Todos, IInv, Data, Flights, Ids
<1>2. Where'[t] = l /\ \A u \in Ids : u # t => Where'[u] = Where[u]
  BY <1>1, MoveIs
<1>3. \A s : Queue(s)' = Queue(s)
  <2> HIDE DEF Where
  <2> SUFFICES ASSUME NEW s, NEW u PROVE u \in Queue(s)' <=> u \in Queue(s)
    OBVIOUS
  <2>1. StateAt(s) \in AtGate
    BY DEF StateAt, AtGate
  <2>2. CASE u = t
    BY <1>2, <2>1, <2>2 DEF Queue
  <2>3. CASE u # t
    BY <1>2, <2>3 DEF Queue, Ids
  <2> QED BY <2>2, <2>3
<1> HIDE DEF Where
<1>4. \A s \in open' : \E f \in Fetches :
        Where'[f] # "none" /\ fetchOf'[f] = s /\ outcome'[f] = <<>>
  BY <1>1, <1>2 DEF GateInv
<1>5. \A f \in Fetches : Where'[f] # "none" => fetchOf'[f] \in Slots
  BY <1>1, <1>2 DEF GateInv
<1>6. \A u \in Todos' : u \in Reqs \cap Live' /\ state'[u] \in AtGate
  BY <1>1 DEF GateInv, Ids
<1>7. \A u \in Ids : Where'[u] \in AtGate =>
        u \in Reqs /\ (u \in Todos' \/ SlotAt(u, Where'[u]) \in open')
  BY <1>1, <1>2 DEF GateInv
<1>8. \A f \in Workers' : f.op = "pipe" /\ f.pc = Submitter /\ f.id \in Fetches =>
        \A u \in ToSet(waiters'[fetchOf'[f.id]]) : state'[u] \in AtGate
  <2> SUFFICES ASSUME NEW f \in Workers', f.op = "pipe", f.pc = Submitter, f.id \in Fetches,
                      NEW u \in ToSet(waiters[fetchOf[f.id]])
               PROVE  state'[u] \in AtGate
    OBVIOUS
  <2>1. f \in Workers /\ state[u] \in AtGate
    BY <1>1 DEF GateInv
  <2>2. f.id \in Live
    BY <2>1 DEF Given, Places, BusyInv
  <2>3. Where[f.id] # "none"
    BY <1>1, <2>2, WhereLive DEF Given, Places
  <2>4. PICK s \in Slots : s = fetchOf[f.id]
    BY <1>1, <2>3 DEF GateInv
  <2>5. Once(waiters[s], Queue(s))
    BY <1>1 DEF GateInv
  <2>6. u \in Queue(s)
    BY <2>4, <2>5, OnceMeans
  <2>7. u \in Ids /\ u # t
    BY <1>1, <2>6 DEF Queue, Ids
  <2> QED BY <2>1, <2>7
<1>9. \A s \in Slots : Once(waiters'[s], Queue(s)')
  BY <1>1, <1>3 DEF GateInv
<1> QED BY <1>4, <1>5, <1>6, <1>7, <1>8, <1>9 DEF GateInv

(* It is resumed, refused, or left to its own gate.                        *)
LEMMA FlushOnePlaces == ASSUME Given, FlushOne PROVE Places'
<1>1. PICK w : w = Head(Top.todo)
  OBVIOUS
<1>2. PICK G : G = [Top EXCEPT !.todo = Tail(@)]
  OBVIOUS
<1>3. PICK m : m = <<G>> \o Below
  OBVIOUS
<1>4. Running("flush") /\ Top.todo # <<>>
  BY DEF FlushOne
<1>5. /\ w \in Reqs /\ w \in Live /\ w \in Ids /\ w \in Todos
      /\ state[w] \in AtGate /\ Where[w] = state[w] /\ Saves[w] = {}
      /\ NotParked(w) = {} /\ w \notin conns /\ \A f \in Workers : f.id # w
      /\ stack # <<>> /\ On = {Top} \cup Rest /\ G.op = "flush"
      /\ Sound(m) /\ FramesIn(m) = {G} \cup Rest
      /\ TodosOf(m) = Todos \ {w} /\ ~Dying
      /\ \A u : Contains(G.todo, u) => u # w /\ Contains(Top.todo, u)
  <2>1. FlushIs(w, G)
    BY <1>1, <1>2, <1>4, FlushesIs
  <2> QED BY <1>3, <2>1 DEF FlushIs
<1>6. Top.op = "flush" /\ m # <<>>
  <2>1. Top.op = "flush"
    BY <1>4 DEF Running, Top
  <2> QED BY <1>3, <2>1
<1>7. /\ UNCHANGED <<retired, detached, outcome, settled, notified, started, conns, free>>
      /\ UNCHANGED <<pending, delayed, delayedCount, open, waiters, fetchOf>>
      /\ UNCHANGED <<blocking, held, intercepted>>
  BY DEF FlushOne, cbvars, qvars, nvars, gvars, cvars
<1>8. \/ \E h : /\ state' = [state EXCEPT ![w] = "created"]
                /\ stack' = <<Pipe(w, h, Resumer)>> \o m /\ h # "failed"
                /\ fault' = fault \cup NotParked(w) /\ UNCHANGED <<events, dispatch, gated, dispatchCount>>
      \/ scheduleDispatch(w, "created", <<"err">>, NotParked(w)) /\ stack' = m
  <2>1. \/ \E h \in {"throttle", "after_cors"} :
                /\ state' = [state EXCEPT ![w] = "created"]
                /\ stack' = <<Pipe(w, h, Resumer)>> \o m
                /\ fault' = fault \cup NotParked(w) /\ UNCHANGED <<events, dvars>>
        \/ scheduleDispatch(w, "created", <<"err">>, NotParked(w)) /\ stack' = m
    BY <1>1, <1>2, <1>3 DEF FlushOne
  <2> QED BY <2>1 DEF dvars
<1>9. CASE \E h : /\ state' = [state EXCEPT ![w] = "created"]
                /\ stack' = <<Pipe(w, h, Resumer)>> \o m /\ h # "failed"
                /\ fault' = fault \cup NotParked(w) /\ UNCHANGED <<events, dispatch, gated, dispatchCount>>
  <2>1. PICK h : /\ state' = [state EXCEPT ![w] = "created"]
                /\ stack' = <<Pipe(w, h, Resumer)>> \o m /\ h # "failed"
                /\ fault' = fault \cup NotParked(w) /\ UNCHANGED <<events, dispatch, gated, dispatchCount>>
    BY <1>9
  <2>2. PICK p : p = Pipe(w, h, Resumer)
    OBVIOUS
  <2>3. p.op = "pipe" /\ p.id = w /\ p.how = h /\ p.pc = Resumer
    BY <2>2, Fields
  <2>4. Pushes(p, m)
    <3>1. Kind(p)
      BY <2>1, <2>3 DEF Kind
    <3>2. ~Reports(p)
      BY <2>3 DEF Reports
    <3>3. \A g \in {G} \cup Rest : Over(p, g)
      <4>1. Over(p, G)
        BY <1>5, <2>3 DEF Over, Working, Submitter, Resumer
      <4>2. ASSUME NEW g \in Rest PROVE Over(p, g)
        <5>1. Over(Top, g)
          BY <1>4, <4>2, OnTopView DEF Given, Places, Pushes, Rest
        <5>2. g.op \in Working => g.id # w
          BY <1>5 DEF Workers
        <5> QED BY <1>6, <2>3, <5>1, <5>2 DEF Over, Submitter, Resumer, Working
      <4> QED BY <4>1, <4>2
    <3> QED BY <1>5, <3>1, <3>2, <3>3 DEF Pushes
  <2>5. CallsInv' /\ On' = {p, G} \cup Rest
    <3>1. Sound(<<p>> \o m) /\ FramesIn(<<p>> \o m) = {p} \cup FramesIn(m)
      BY <1>5, <2>4, SoundPush
    <3>2. stack' = <<p>> \o m
      BY <2>1, <2>2
    <3> QED BY <1>5, <3>1, <3>2 DEF CallsInv, On
  <2>6. Workers' = Workers \cup {p}
    BY <1>5, <1>6, <2>3, <2>5 DEF Workers, Working
  <2>7. UNCHANGED <<Syncs, Saves>> /\ Dying' = Dying
    BY <1>5, <1>6, <2>3, <2>5 DEF Syncs, Saves, Dying
  <2>8. Todos' = Todos \ {w}
    <3>1. Todos' = TodosOf(m)
      BY <1>5, <2>3, <2>5 DEF Todos, TodosOf
    <3> QED BY <1>5, <3>1
  <2>9. PipeBegins(w, p)
    BY <1>5, <1>7, <2>1, <2>3, <2>6, <2>7 DEF PipeBegins, AtGate
  <2>10. /\ BusyInv' /\ StreamInv' /\ AnswerInv'
         /\ Moves(w, "created") /\ Live' = Live \cup {w}
    BY <1>5, <2>9, PipeEnters
  <2>11. Live' = Live
    BY <1>5, <2>10
  <2>12. BlockInv'
    BY <1>7, <2>7, Untouched DEF Given
  <2>13. PICK A : A = {state[w], "created"}
    OBVIOUS
  <2>14. /\ Shifts(A) /\ "queued" \notin A /\ "delayed" \notin A /\ A \cap Kept4Cdp = {}
         /\ A \cap {"buffered", "inflight"} = {}
         /\ A \cap {"inflight", "delivering", "aborted"} = {}
    <3>1. Shifts({Where[w], "created"})
      BY <1>5, <2>10, MoveShifts
    <3> QED BY <1>5, <2>13, <3>1 DEF AtGate, Kept4Cdp
  <2>15. PendingInv' /\ DelayedInv' /\ DispatchInv' /\ PoolInv'
    BY <1>7, <2>1, <2>14, Shifted DEF Given
  <2>16. HeldInv'
    BY <1>7, <2>11, <2>14, HeldElse DEF Given, Places
  <2>17. GateInv'
    <3>1. \A u \in Ids : u # w => state'[u] = state[u]
      BY <2>1 DEF Given, IInv, Data, Life
    <3>2. \A f \in Workers' : f.op = "pipe" /\ f.pc = Submitter => f \in Workers
      BY <2>3, <2>6 DEF Submitter, Resumer
    <3> QED BY <1>5, <1>7, <2>8, <2>10, <2>11, <3>1, <3>2, GateFlushed DEF AtGate
  <2> QED BY <1>5, <2>1, <2>5, <2>10, <2>12, <2>15, <2>16, <2>17 DEF Given, Places
<1>10. CASE scheduleDispatch(w, "created", <<"err">>, NotParked(w)) /\ stack' = m
  <2>1. PICK evs \in Ending : evs = <<"err">>
    BY DEF Ending
  <2>2. /\ state' = [state EXCEPT ![w] = "buffered"] /\ UNCHANGED fault
        /\ events' = [events EXCEPT ![w] = @ \o evs]
        /\ \/ Linked(w) /\ UNCHANGED <<dispatch, gated, dispatchCount>>
           \/ /\ ~Linked(w) /\ dispatch' = Append(dispatch, w)
              /\ dispatchCount' = dispatchCount + 1 /\ UNCHANGED gated
    <3>1. scheduleDispatch(w, "created", evs, {})
      BY <1>5, <1>10, <2>1
    <3> QED BY <3>1, SchedulesIs
  <2>3. CallsInv' /\ On' = {G} \cup Rest
    BY <1>5, <1>10 DEF CallsInv, On
  <2>4. Workers' = Workers /\ UNCHANGED <<Syncs, Saves>> /\ Dying' = Dying
    <3>1. Workers' = Workers
      BY <1>5, <1>6, <2>3 DEF Workers, Working
    <3>2. UNCHANGED <<Syncs, Saves>> /\ Dying' = Dying
      BY <1>5, <1>6, <2>3 DEF Syncs, Saves, Dying
    <3> QED BY <3>1, <3>2
  <2>5. Todos' = Todos \ {w}
    <3>1. Todos' = TodosOf(m)
      BY <1>5, <2>3 DEF Todos, TodosOf
    <3> QED BY <1>5, <3>1
  <2>6. removeConn(w)
    BY <1>5, <1>7, NoConn DEF Given
  <2>7. Buffers(w, evs)
    <3>1. state[w] \in Parked
      BY <1>5 DEF AtGate, Parked
    <3>2. Workers' = {f \in Workers : f.id # w}
      BY <1>5, <2>4
    <3> QED BY <1>5, <1>7, <2>2, <2>4, <2>6, <3>1, <3>2 DEF Buffers
  <2>8. /\ BusyInv' /\ StreamInv' /\ AnswerInv'
        /\ PendingInv' /\ DelayedInv' /\ DispatchInv' /\ PoolInv'
        /\ Moves(w, "buffered") /\ Live' = Live
    BY <2>7, BuffersKeep
  <2>9. BlockInv'
    BY <1>7, <2>4, Untouched DEF Given
  <2>10. HeldInv'
    <3>1. Shifts({Where[w], "buffered"})
      BY <1>5, <2>8, MoveShifts
    <3>2. PICK A : A = {Where[w], "buffered"}
      OBVIOUS
    <3>3. Shifts(A) /\ A \cap Kept4Cdp = {}
      BY <1>5, <3>1, <3>2 DEF AtGate, Kept4Cdp
    <3> QED BY <1>7, <2>8, <3>3, HeldElse DEF Given, Places
  <2>11. GateInv'
    <3>1. \A u \in Ids : u # w => state'[u] = state[u]
      BY <2>2 DEF Given, IInv, Data, Life
    <3> QED BY <1>5, <1>7, <2>4, <2>5, <2>8, <3>1, GateFlushed DEF AtGate
  <2> QED BY <2>2, <2>3, <2>8, <2>9, <2>10, <2>11 DEF Given, Places
<1> QED BY <1>8, <1>9, <1>10

-----------------------------------------------------------------------------
(* Transfer.deliver                                                        *)

(* D is the delivery that runs, or that the running callback returns to.   *)
DeliverOn(s, D) ==
  /\ s # <<>> /\ Sound(s) /\ D = Head(s) /\ D.op = "deliver" /\ FramesIn(s) \subseteq On
  /\ \A f \in On : f \in FramesIn(s) \/ f.op = "js"

(* Under it are only ticks, pumps, scripts and other deliveries.           *)
LEMMA DeliverIs ==
  ASSUME Given, NEW s, NEW D, DeliverOn(s, D), NEW t, t = D.id
  PROVE  /\ t \in Live /\ t \in Ids /\ D \in Workers /\ Sound(Tail(s)) /\ Pushes(D, Tail(s))
         /\ FramesIn(s) = {D} \cup FramesIn(Tail(s))
         /\ \A g \in FramesIn(Tail(s)) :
              /\ g.op \notin {"pipe", "kill", "release", "abort", "flush"}
              /\ g.op \in Working => g.id # t
         /\ \A g \in Workers : g.id = t => g = D
         /\ \A g \in Workers : g.op \in {"deliver", "finish"}
         /\ state[t] \in {"delivering", "aborted"} /\ D.how \in {"batch", "last", "done"}
         /\ \A u \in Ids : /\ Saves[u] = {}
                           /\ Where[u] = IF u \in Live THEN state[u] ELSE "none"
         /\ Todos = {} /\ ~Dying
         /\ t \in Fetches => D.how # "batch" /\ state[t] # "aborted" /\ fetchOf[t] \in Slots
         /\ state[t] = "aborted" <=> t \in detached
<1>1. /\ Sound(Tail(s)) /\ Pushes(D, Tail(s))
      /\ FramesIn(s) = {D} \cup FramesIn(Tail(s)) /\ D.op = "deliver"
  BY SoundPop DEF DeliverOn
<1>2. \A g \in FramesIn(Tail(s)) :
              /\ g.op \notin {"pipe", "kill", "release", "abort", "flush"}
              /\ g.op \in Working => g.id # t
  <2> SUFFICES ASSUME NEW g \in FramesIn(Tail(s))
               PROVE  /\ g.op \notin {"pipe", "kill", "release", "abort", "flush"}
                      /\ g.op \in Working => g.id # t
    OBVIOUS
  <2>1. Over(D, g)
    BY <1>1 DEF Pushes
  <2> QED BY <1>1, <2>1 DEF Over, Working
<1>3. \A f \in On : f = D \/ f \in FramesIn(Tail(s)) \/ f.op = "js"
  BY <1>1 DEF DeliverOn
<1>4. D \in Workers
  BY <1>1 DEF DeliverOn, Workers, Working
<1>5. /\ \A g \in Workers : g.id = t => g = D
      /\ \A g \in Workers : g.op \in {"deliver", "finish"}
  BY <1>1, <1>2, <1>3 DEF Workers, Working
<1>6. Todos = {} /\ ~Dying /\ \A u \in Ids : Saves[u] = {}
  BY <1>1, <1>2, <1>3 DEF Todos, Dying, Saves
<1>7. t \in Live /\ t \in Ids /\ state[t] \in {"delivering", "aborted"}
  BY <1>1, <1>4 DEF Given, Places, BusyInv, Live
<1>8. \A u \in Ids : Where[u] = IF u \in Live THEN state[u] ELSE "none"
  BY <1>6, WhereIs
<1> HIDE DEF Where
<1>9. D.how \in {"batch", "last", "done"} /\ (t \in Fetches => D.how # "batch")
  BY <1>1 DEF Pushes, Kind
<1>10. /\ t \in Fetches => state[t] # "aborted"
       /\ state[t] = "aborted" <=> t \in detached
  BY <1>7 DEF Given, Places, BusyInv
<1>11. t \in Fetches => fetchOf[t] \in Slots
  BY <1>7, <1>8 DEF Given, Places, GateInv
<1> QED BY <1>1, <1>2, <1>4, <1>5, <1>6, <1>7, <1>8, <1>9, <1>10, <1>11

(* The delivery takes an event and goes on, or ends, as m; what it calls   *)
(* runs above it.                                                          *)
Delivers(t, s, m, h) ==
  /\ m # <<>> /\ Head(m) = h /\ Tail(m) = Tail(s) /\ Sound(m)
  /\ h.op \in {"deliver", "finish"} /\ h.id = t
  /\ UNCHANGED <<state, retired, detached, started, conns, free, pending, delayed>>
  /\ UNCHANGED <<delayedCount, dispatch, gated, dispatchCount, fetchOf, blocking, held>>
  /\ UNCHANGED <<intercepted, fault>>
  /\ \A u \in Ids : u # t => /\ events'[u] = events[u] /\ outcome'[u] = outcome[u]
                             /\ u \in settled' <=> u \in settled
                             /\ u \in notified' <=> u \in notified
  /\ \/ stack' = m /\ UNCHANGED <<outcome, open, waiters>>
     \/ \E cb : /\ CallsFor(t, m, cb) /\ (t \in Reqs => UNCHANGED <<open, waiters>>)
                /\ \/ cb \notin {"data", "done"}
                   \/ h.op = "deliver" /\ (cb = "done" <=> h.how = "done")
  /\ Terminal(events'[t]) => Terminal(events[t])
  /\ h.op = "deliver" /\ h.how = "batch" => t \in conns \/ Terminal(events'[t])
  /\ h.op = "deliver" /\ h.how = "last" =>
       state[t] = "aborted" \/ t \in settled' \/ Terminal(events'[t])
  /\ h.op = "deliver" /\ h.how # "done" /\ t \in settled' => state[t] = "aborted"
  /\ h.op = "deliver" /\ h.how = "done" => t \in settled' /\ outcome'[t] = <<"done">>
  /\ h.op = "finish" => state[t] = "aborted" \/ t \in settled'
  /\ t \in settled' <=> outcome'[t] # <<>>
  /\ t \in notified' => t \in settled' \/ state[t] = "aborted"

(* A callback of the delivery keeps everything in its place.               *)
LEMMA DeliversPlaces ==
  ASSUME Given, NEW s, NEW D, DeliverOn(s, D), NEW t, t = D.id,
         NEW m, NEW h, Delivers(t, s, m, h)
  PROVE  Places'
<1>1. /\ t \in Live /\ t \in Ids /\ D \in Workers
      /\ FramesIn(s) = {D} \cup FramesIn(Tail(s))
      /\ \A g \in FramesIn(Tail(s)) :
           /\ g.op \notin {"pipe", "kill", "release", "abort", "flush"}
           /\ g.op \in Working => g.id # t
      /\ \A g \in Workers : g.id = t => g = D
      /\ \A g \in Workers : g.op \in {"deliver", "finish"}
      /\ state[t] \in {"delivering", "aborted"}
      /\ \A u \in Ids : /\ Saves[u] = {}
                        /\ Where[u] = IF u \in Live THEN state[u] ELSE "none"
      /\ Todos = {} /\ ~Dying
      /\ t \in Fetches => state[t] # "aborted" /\ fetchOf[t] \in Slots
      /\ state[t] = "aborted" <=> t \in detached
  BY DeliverIs
<1>2. FramesIn(m) = {h} \cup FramesIn(Tail(s))
  BY SoundPop DEF Delivers
<1>3. h.op \in {"deliver", "finish"} /\ h.id = t
  BY DEF Delivers
<1>4. Holding(t, m)
  BY <1>1, <1>2, <1>3 DEF Holding, Delivers
<1>5. TodosOf(m) = {}
  BY <1>1, <1>2, <1>3 DEF TodosOf
<1>6. Reqs \cap Fetches = {} /\ (t \in Reqs \/ t \in Fetches)
  BY <1>1, Constants DEF Ids
<1>7. /\ CallsInv'
      /\ \A f : f.op \notin {"js", "flush"} => (f \in On' <=> f \in FramesIn(m))
      /\ \/ Todos' = {} /\ UNCHANGED <<outcome, open, waiters>>
         \/ t \in Reqs /\ Todos' = {} /\ UNCHANGED <<open, waiters>>
         \/ /\ t \in Fetches /\ \E how : take(t, how, m)
            /\ Todos' = IF fetchOf[t] \in open THEN ToSet(waiters[fetchOf[t]]) ELSE {}
  <2>1. CASE stack' = m /\ UNCHANGED <<outcome, open, waiters>>
    <3>1. CallsInv' /\ On' = FramesIn(m)
      BY <1>4, <2>1 DEF Holding, CallsInv, On
    <3>2. Todos' = {}
      BY <1>5, <3>1 DEF Todos, TodosOf
    <3> QED BY <2>1, <3>1, <3>2
  <2>2. CASE \E cb : /\ CallsFor(t, m, cb) /\ (t \in Reqs => UNCHANGED <<open, waiters>>)
                     /\ \/ cb \notin {"data", "done"}
                        \/ h.op = "deliver" /\ (cb = "done" <=> h.how = "done")
    <3>1. PICK cb : /\ CallsFor(t, m, cb) /\ (t \in Reqs => UNCHANGED <<open, waiters>>)
                    /\ \/ cb \notin {"data", "done"}
                       \/ h.op = "deliver" /\ (cb = "done" <=> h.how = "done")
      BY <2>2
    <3>2. h = Head(m)
      BY DEF Delivers
    <3>3. /\ CallsInv'
          /\ \A f : f.op \notin {"js", "flush"} => (f \in On' <=> f \in FramesIn(m))
          /\ t \in Reqs => Todos' = TodosOf(m)
          /\ t \in Fetches =>
              Todos' = TodosOf(m) \cup (IF fetchOf[t] \in open THEN ToSet(waiters[fetchOf[t]])
                                        ELSE {})
      BY <1>1, <1>4, <3>1, <3>2, Reported
    <3>4. t \in Fetches => \E how : take(t, how, m)
      BY <1>6, <3>1 DEF CallsFor
    <3> QED BY <1>5, <1>6, <3>1, <3>3, <3>4
  <2> QED BY <2>1, <2>2 DEF Delivers
<1>8. \A f : f \in Workers' <=> f = h \/ (f \in Workers /\ f.id # t)
  <2> SUFFICES ASSUME NEW f PROVE f \in Workers' <=> f = h \/ (f \in Workers /\ f.id # t)
    OBVIOUS
  <2>1. f \in Workers' <=> f.op \in Working /\ (f = h \/ f \in FramesIn(Tail(s)))
    BY <1>2, <1>7 DEF Workers, Working
  <2>2. f.op \in Working /\ f \in FramesIn(Tail(s)) => f \in Workers /\ f.id # t
    BY <1>1 DEF Workers, DeliverOn
  <2>3. f \in Workers /\ f.id # t => f.op \in Working /\ f \in FramesIn(Tail(s))
    BY <1>1 DEF Workers, DeliverOn, Working
  <2>4. h.op \in Working
    BY <1>3 DEF Working
  <2> QED BY <2>1, <2>2, <2>3, <2>4
<1>9. Syncs' = Syncs /\ Dying' = Dying /\ Saves' = Saves
  <2>1. \A f : f.op \in {"sync", "kill", "abort"} => (f \in On' <=> f \in On)
    BY <1>1, <1>2, <1>3, <1>7 DEF DeliverOn
  <2>2. Dying' = Dying
    BY <2>1 DEF Dying
  <2> QED BY <2>1, <2>2 DEF Syncs, Saves
<1>10. Stays /\ Live' = Live /\ Born' = Born
  BY <1>9, SameWhere DEF Delivers
<1>11. UNCHANGED Where
  BY <1>10 DEF Stays
<1> HIDE DEF Where
<1>12. Elsewhere({t})
  <2>1. \A f : f.id # t => (f \in Workers' <=> f \in Workers)
    BY <1>3, <1>8
  <2> QED BY <1>11, <2>1 DEF Elsewhere, Delivers
<1>13. BusyIn({t})'
  BY <1>1, <1>3, <1>8, <1>10 DEF BusyIn, Delivers
<1>14. StreamIn({t})'
  <2>1. Terminal(events'[t]) => t \notin conns
    BY <1>1 DEF Given, Places, StreamInv, Delivers, Live
  <2> QED BY <1>1, <1>3, <1>8, <1>11, <2>1 DEF StreamIn, Delivers, Terminal
<1>15. AnswerIn({t})'
  <2>1. t \in Born' /\ t \notin retired
    BY <1>1, <1>10 DEF Born, Live
  <2> QED BY <1>1, <1>3, <1>8, <1>10, <2>1 DEF AnswerIn, Delivers
<1>16. BusyInv' /\ StreamInv' /\ AnswerInv'
  BY <1>12, <1>13, <1>14, <1>15, ElsewhereKeeps DEF Given
<1>17. PendingInv' /\ DelayedInv' /\ DispatchInv' /\ PoolInv' /\ HeldInv' /\ BlockInv'
  BY <1>9, <1>11, Untouched DEF Given, Delivers
<1>18. GateInv'
  <2>0. \A f \in Workers' : f.op # "pipe"
    BY <1>1, <1>3, <1>8
  <2>1. CASE Todos' = {} /\ UNCHANGED <<outcome, open, waiters>>
    <3>1. Shifts({})
      BY <1>11, WhereTable DEF Shifts
    <3>2. \A f \in Fetches : Where'[f] # "none" <=> Where[f] # "none"
      BY <1>11
    <3>3. \A u \in Live : state[u] \in AtGate => u \in Live' /\ state'[u] \in AtGate
      BY <1>10 DEF Delivers
    <3>4. Todos' = Todos /\ Dying' = Dying
      BY <1>1, <1>9, <2>1
    <3> QED BY <2>0, <2>1, <3>1, <3>2, <3>3, <3>4, GateElse DEF Given, Delivers
  <2>2. CASE \/ t \in Reqs /\ Todos' = {} /\ UNCHANGED <<open, waiters>>
             \/ /\ t \in Fetches /\ \E how : take(t, how, m)
                /\ Todos' = IF fetchOf[t] \in open THEN ToSet(waiters[fetchOf[t]]) ELSE {}
    <3>1. t \in Fetches => \A u \in ToSet(waiters[fetchOf[t]]) : state[u] \in AtGate
      <4> SUFFICES ASSUME t \in Fetches, NEW u \in ToSet(waiters[fetchOf[t]])
                   PROVE  state[u] \in AtGate
        OBVIOUS
      <4>1. PICK r \in Slots : r = fetchOf[t]
        BY <1>1
      <4>2. Once(waiters[r], Queue(r))
        BY DEF Given, Places, GateInv
      <4>3. u \in Queue(r)
        BY <4>1, <4>2, OnceMeans
      <4>4. Where[u] \in AtGate /\ u \in Reqs
        BY <4>3, QueueSlot
      <4>5. u \in Ids /\ Where[u] # "none"
        BY <4>4 DEF Ids, AtGate
      <4> QED BY <1>1, <4>4, <4>5
    <3>2. t \in Fetches =>
            \E r : /\ t \in Fetches /\ r = fetchOf[t] /\ open' = open \ {r}
                   /\ waiters' = [waiters EXCEPT ![r] = <<>>]
                   /\ Todos' = Todos \cup (IF r \in open THEN ToSet(waiters[r]) ELSE {})
                   /\ \A u \in ToSet(waiters[r]) : state[u] \in AtGate
      BY <1>1, <1>6, <2>2, <3>1 DEF take
    <3>3. t \in Reqs => UNCHANGED <<open, waiters, Todos>>
      BY <1>1, <1>6, <2>2
    <3>4. \A f \in Fetches : f # t => outcome'[f] = outcome[f]
      BY DEF Delivers, Ids
    <3>5. Takes(t)
      BY <1>1, <1>6, <1>9, <1>10, <2>0, <3>2, <3>3, <3>4 DEF Takes, Delivers
    <3> QED BY <1>1, <3>5, GateTakes
  <2> QED BY <1>7, <2>1, <2>2
<1> QED BY <1>7, <1>16, <1>17, <1>18 DEF Given, Places, Delivers

(* A delivery that has failed or is over frees its transfer.               *)
LEMMA FinishPushes ==
  ASSUME NEW D, NEW s, Pushes(D, s), D.op = "deliver", NEW h, h = Finish(D.id)
  PROVE  Pushes(h, s) /\ h.op = "finish" /\ h.id = D.id
<1>1. h.op = "finish" /\ h.id = D.id
  BY Fields
<1> QED BY <1>1 DEF Pushes, Kind, Reports, Over, Working

(* So does the error callback of one that fails.                           *)
LEMMA FailsPlaces ==
  ASSUME Given, NEW s, NEW D, DeliverOn(s, D), NEW t, t = D.id,
         NEW aborted \in BOOLEAN, aborted => state[t] = "aborted",
         ~aborted => state[t] # "aborted" \/ t \in notified,
         requestFailed(t, aborted, <<Finish(t)>> \o Tail(s)),
         Terminal(events'[t]) => Terminal(events[t]),
         \A u \in Ids : u # t => events'[u] = events[u],
         UNCHANGED <<state, retired, detached, started, conns, free, pending, delayed>>,
         UNCHANGED <<delayedCount, dispatch, gated, dispatchCount, fetchOf, blocking, held>>,
         UNCHANGED <<intercepted, fault>>
  PROVE  Places'
<1>1. /\ t \in Live /\ t \in Ids /\ Sound(Tail(s)) /\ Pushes(D, Tail(s))
      /\ state[t] = "aborted" <=> t \in detached
  BY DeliverIs
<1>2. PICK h : h = Finish(t)
  OBVIOUS
<1>3. PICK m : m = <<h>> \o Tail(s)
  OBVIOUS
<1>4. /\ m # <<>> /\ Head(m) = h /\ Tail(m) = Tail(s) /\ Sound(m)
      /\ h.op = "finish" /\ h.id = t
  <2>1. D.op = "deliver"
    BY DEF DeliverOn
  <2>2. Pushes(h, Tail(s)) /\ h.op = "finish" /\ h.id = t
    BY <1>1, <1>2, <2>1, FinishPushes
  <2> QED BY <1>1, <1>3, <2>2, SoundPush
<1>5. /\ t \in settled <=> outcome[t] # <<>>
      /\ t \in notified => t \in settled \/ state[t] = "aborted"
  BY <1>1 DEF Given, Places, AnswerInv, Live
<1>6. CASE t \in notified \/ aborted
  <2>1. stack' = m /\ UNCHANGED <<notified, settled, outcome, open, waiters>>
    BY <1>2, <1>3, <1>6 DEF requestFailed
  <2>2. Delivers(t, s, m, h)
    BY <1>4, <1>5, <1>6, <2>1 DEF Delivers
  <2> QED BY <2>2, DeliversPlaces
<1>7. CASE ~(t \in notified \/ aborted)
  <2>1. /\ notified' = notified \cup {t} /\ settled' = settled \cup {t}
        /\ outcome' = [outcome EXCEPT ![t] = Append(@, "err")]
        /\ IF t \in Fetches
           THEN take(t, IF fetchOf[t][1] = "cors" THEN "deny" ELSE "store", m)
           ELSE stack' = Callback(t, "err", m) /\ UNCHANGED <<open, waiters>>
    BY <1>1, <1>2, <1>3, <1>7 DEF requestFailed
  <2>2. CallsFor(t, m, "err") /\ (t \in Reqs => UNCHANGED <<open, waiters>>)
    BY <1>1, <2>1, Constants DEF CallsFor, Ids
  <2>3. outcome'[t] # <<>> /\ \A u \in Ids : u # t => outcome'[u] = outcome[u]
    <3>1. outcome'[t] = Append(outcome[t], "err") /\ outcome[t] \in Seq({"done", "err", "shutdown"})
      BY <1>1, <2>1 DEF Given, IInv, Data, Calls
    <3>2. outcome'[t] # <<>>
      BY <3>1
    <3> QED BY <2>1, <3>2 DEF Given, IInv, Data, Calls
  <2>4. Delivers(t, s, m, h)
    BY <1>4, <2>1, <2>2, <2>3 DEF Delivers
  <2> QED BY <2>4, DeliversPlaces
<1> QED BY <1>6, <1>7

(* Delivering an event does not change how a transfer ends, and data is    *)
(* never the end.                                                          *)
LEMMA NextEvent ==
  ASSUME NEW e \in Seq({"data", "done", "err"}), e # <<>>
  PROVE  /\ Terminal(Tail(e)) => Terminal(e)
         /\ Terminal(e) /\ Head(e) = "data" => Terminal(Tail(e))
<1>1. /\ Len(e) \in Nat /\ Len(e) >= 1 /\ Head(e) = e[1]
      /\ Tail(e) \in Seq({"data", "done", "err"}) /\ Len(Tail(e)) = Len(e) - 1
      /\ \A i \in 1..Len(Tail(e)) : Tail(e)[i] = e[i + 1]
  OBVIOUS
<1>2. PICK r \in Seq({"data", "done", "err"}) : r = Tail(e)
  BY <1>1
<1>3. r # <<>> <=> Len(r) >= 1
  OBVIOUS
<1>4. Len(r) >= 1 => r[Len(r)] = e[Len(e)]
  BY <1>1, <1>2
<1>5. Terminal(r) => Terminal(e)
  BY <1>3, <1>4 DEF Terminal, Last
<1>6. Terminal(e) /\ Head(e) = "data" => Terminal(r)
  <2> SUFFICES ASSUME Terminal(e), Head(e) = "data" PROVE Terminal(r)
    OBVIOUS
  <2>1. e[Len(e)] # e[1]
    BY <1>1 DEF Terminal, Last
  <2>2. Len(e) # 1
    BY <2>1
  <2>3. Len(r) >= 1
    BY <1>1, <1>2, <2>2
  <2> QED BY <1>3, <1>4, <2>3 DEF Terminal, Last
<1> QED BY <1>2, <1>5, <1>6

(* What delivering an event takes.                                         *)
LEMMA DeliveringIs ==
  ASSUME Given, NEW ev, Delivering(ev), NEW D, D = Top, NEW t, t = D.id
  PROVE  /\ DeliverOn(stack, D) /\ state[t] # "aborted" /\ t \in Live /\ t \in Ids
         /\ D.how # "done" /\ t \notin settled
         /\ Terminal(events'[t]) => Terminal(events[t])
         /\ Terminal(events[t]) /\ ev = "data" => Terminal(events'[t])
         /\ \A u \in Ids : u # t => events'[u] = events[u]
<1>1. /\ Running("deliver") /\ state[t] # "aborted" /\ events[t] # <<>>
      /\ Head(events[t]) = ev /\ events' = [events EXCEPT ![t] = Tail(@)]
  BY DEF Delivering
<1>2. stack # <<>> /\ D.op = "deliver"
  BY <1>1 DEF Running, Top
<1>3. DeliverOn(stack, D)
  BY <1>2 DEF DeliverOn, Given, Places, CallsInv, On, Top
<1>4. t \in Live /\ t \in Ids
  BY <1>3, DeliverIs
<1>5. events \in [Ids -> Seq({"data", "done", "err"})]
  BY DEF Given, IInv, Data, Buffered
<1>6. events'[t] = Tail(events[t]) /\ \A u \in Ids : u # t => events'[u] = events[u]
  BY <1>1, <1>4, <1>5
<1>7. PICK e \in Seq({"data", "done", "err"}) : e = events[t]
  BY <1>4, <1>5
<1>8. /\ Terminal(Tail(e)) => Terminal(e)
      /\ Terminal(e) /\ Head(e) = "data" => Terminal(Tail(e))
  BY <1>1, <1>7, NextEvent
<1>9. /\ Terminal(events'[t]) <=> Terminal(Tail(e))
      /\ Terminal(events[t]) <=> Terminal(e)
  BY <1>6, <1>7 DEF Terminal
<1>10. D \in Workers /\ D.op = "deliver" /\ \A g \in Workers : g.op \in {"deliver", "finish"}
  BY <1>2, <1>3, DeliverIs
<1>11. D.how # "done"
  <2>1. D.how = "done" => outcome[t] = <<"done">>
    BY <1>10 DEF Given, Places, AnswerInv
  <2> QED BY <1>1, <1>4, <2>1 DEF Given, OrderInv, Live
<1>12. t \notin settled
  BY <1>1, <1>10, <1>11 DEF Given, Places, StreamInv
<1> QED BY <1>1, <1>3, <1>4, <1>6, <1>7, <1>8, <1>9, <1>11, <1>12

(* The data callback.                                                      *)
LEMMA DeliverDataPlaces == ASSUME Given, DeliverData PROVE Places'
<1>1. PICK D : D = Top
  OBVIOUS
<1>2. PICK t : t = D.id
  OBVIOUS
<1>3. /\ Delivering("data")
      /\ \/ /\ stack' = IF t \in Fetches THEN stack ELSE Callback(t, "data", stack)
            /\ UNCHANGED <<notified, settled, outcome, open, waiters>>
         \/ failDelivery(t, Below)
      /\ UNCHANGED <<state, retired, detached, started, conns, free, pending, delayed>>
      /\ UNCHANGED <<delayedCount, dispatch, gated, dispatchCount, fetchOf, blocking, held>>
      /\ UNCHANGED <<intercepted, fault>>
  BY <1>1, <1>2 DEF DeliverData, lvars, qvars, dvars, nvars, cvars
<1>4. /\ DeliverOn(stack, D) /\ state[t] # "aborted" /\ t \in Live /\ t \in Ids
      /\ D.how # "done" /\ t \notin settled
      /\ Terminal(events'[t]) => Terminal(events[t])
      /\ Terminal(events[t]) => Terminal(events'[t])
      /\ \A u \in Ids : u # t => events'[u] = events[u]
  BY <1>1, <1>2, <1>3, DeliveringIs
<1>5. CASE /\ stack' = IF t \in Fetches THEN stack ELSE Callback(t, "data", stack)
           /\ UNCHANGED <<notified, settled, outcome, open, waiters>>
  <2>1. /\ stack # <<>> /\ Head(stack) = D /\ Sound(stack) /\ D.op = "deliver" /\ D \in Workers
        /\ D.how \in {"batch", "last", "done"} /\ \A g \in Workers : g.op \in {"deliver", "finish"}
    BY <1>2, <1>4, DeliverIs DEF DeliverOn
  <2>2. /\ t \in settled <=> outcome[t] # <<>>
        /\ t \in notified => t \in settled \/ state[t] = "aborted"
    BY <1>4 DEF Given, Places, AnswerInv, Live
  <2>3. /\ D.how = "batch" => t \in conns \/ Terminal(events[t])
        /\ D.how = "last" => t \in settled \/ Terminal(events[t])
    BY <1>2, <1>4, <2>1 DEF Given, Places, StreamInv
  <2>4. \/ stack' = stack
        \/ CallsFor(t, stack, "data")
    BY <1>4, <1>5 DEF CallsFor, Ids
  <2>5. Delivers(t, stack, stack, D)
    BY <1>2, <1>3, <1>4, <1>5, <2>1, <2>2, <2>3, <2>4 DEF Delivers
  <2> QED BY <1>2, <1>4, <2>5, DeliversPlaces
<1>6. CASE failDelivery(t, Below)
  <2>1. requestFailed(t, FALSE, <<Finish(t)>> \o Tail(stack))
    BY <1>4, <1>6 DEF failDelivery, Below
  <2> QED BY ZenonT(60), <1>2, <1>3, <1>4, <2>1, FailsPlaces
<1> QED BY <1>3, <1>5, <1>6

(* The error callback of a response.                                       *)
LEMMA DeliverErrPlaces == ASSUME Given, DeliverErr PROVE Places'
<1>1. PICK D : D = Top
  OBVIOUS
<1>2. PICK t : t = D.id
  OBVIOUS
<1>3. /\ Delivering("err")
      /\ requestFailed(t, FALSE, <<Finish(t)>> \o Tail(stack))
      /\ UNCHANGED <<state, retired, detached, started, conns, free, pending, delayed>>
      /\ UNCHANGED <<delayedCount, dispatch, gated, dispatchCount, fetchOf, blocking, held>>
      /\ UNCHANGED <<intercepted, fault>>
  BY <1>1, <1>2 DEF DeliverErr, lvars, qvars, dvars, nvars, cvars, Below
<1>4. /\ DeliverOn(stack, D) /\ state[t] # "aborted" /\ t \in Live /\ t \in Ids
      /\ D.how # "done" /\ t \notin settled
      /\ Terminal(events'[t]) => Terminal(events[t])
      /\ \A u \in Ids : u # t => events'[u] = events[u]
  BY <1>1, <1>2, <1>3, DeliveringIs
<1> QED BY ZenonT(60), <1>2, <1>3, <1>4, FailsPlaces

(* The done callback.                                                      *)
LEMMA DeliverDonePlaces == ASSUME Given, DeliverDone PROVE Places'
<1>1. PICK D : D = Top
  OBVIOUS
<1>2. PICK t : t = D.id
  OBVIOUS
<1>3. PICK h : h = [D EXCEPT !.how = "done"]
  OBVIOUS
<1>4. PICK m : m = <<h>> \o Below
  OBVIOUS
<1>5. /\ Delivering("done") /\ settled' = settled \cup {t}
      /\ outcome' = [outcome EXCEPT ![t] = Append(@, "done")]
      /\ IF t \notin Fetches
         THEN stack' = Callback(t, "done", m) /\ UNCHANGED <<open, waiters>>
         ELSE \E how : take(t, how, m)
      /\ UNCHANGED <<state, retired, notified, detached, started, conns, free, pending>>
      /\ UNCHANGED <<delayed, delayedCount, dispatch, gated, dispatchCount, fetchOf>>
      /\ UNCHANGED <<blocking, held, intercepted, fault>>
  BY <1>1, <1>2, <1>3, <1>4 DEF DeliverDone, lvars, qvars, dvars, nvars, cvars
<1>6. /\ DeliverOn(stack, D) /\ state[t] # "aborted" /\ t \in Live /\ t \in Ids
      /\ D.how # "done" /\ t \notin settled
      /\ Terminal(events'[t]) => Terminal(events[t])
      /\ \A u \in Ids : u # t => events'[u] = events[u]
  BY <1>1, <1>2, <1>5, DeliveringIs
<1>7. /\ stack # <<>> /\ D = Head(stack) /\ D.op = "deliver" /\ Sound(Below)
      /\ Pushes(D, Below)
  BY <1>6, DeliverIs DEF DeliverOn, Below
<1>8. h.op = "deliver" /\ h.id = t /\ h.how = "done"
  <2>1. D \in Frames
    BY <1>7, TopFrame DEF Given, Top
  <2>2. LET g == [D EXCEPT !.how = "done"]
        IN  g.op = D.op /\ g.id = D.id /\ g.how = "done" /\ g.pc = D.pc /\ g.todo = D.todo
    BY <2>1, Edited
  <2> QED BY <1>2, <1>3, <1>7, <2>2
<1>9. Pushes(h, Below)
  BY <1>2, <1>7, <1>8 DEF Pushes, Kind, Reports, Over, Working
<1>10. m # <<>> /\ Head(m) = h /\ Tail(m) = Tail(stack) /\ Sound(m)
  BY <1>4, <1>7, <1>9, SoundPush DEF Below
<1>11. /\ t \in settled <=> outcome[t] # <<>>
       /\ t \in notified => t \in settled \/ state[t] = "aborted"
  BY <1>6 DEF Given, Places, AnswerInv, Live
<1>12. outcome'[t] = <<"done">> /\ \A u \in Ids : u # t => outcome'[u] = outcome[u]
  <2>1. outcome'[t] = Append(outcome[t], "done") /\ outcome[t] = <<>>
    BY <1>5, <1>6, <1>11 DEF Given, IInv, Data, Calls
  <2>2. outcome'[t] = <<"done">>
    BY <2>1
  <2> QED BY <1>5, <2>2 DEF Given, IInv, Data, Calls
<1>13. CallsFor(t, m, "done") /\ (t \in Reqs => UNCHANGED <<open, waiters>>)
  BY <1>5, <1>6, Constants DEF CallsFor, Ids
<1>14. Delivers(t, stack, m, h)
  <2>0. settled' = settled \cup {t} /\ UNCHANGED notified
    BY <1>5
  <2>1. /\ t \in settled' /\ outcome'[t] = <<"done">> /\ outcome'[t] # <<>>
        /\ \A u \in Ids : u # t => /\ u \in settled' <=> u \in settled
                                   /\ u \in notified' <=> u \in notified
    BY <1>12, <2>0
  <2>2. h.op \in {"deliver", "finish"} /\ h.op # "finish" /\ h.how \notin {"batch", "last"}
    BY <1>8
  <2>3. h.op = "deliver" /\ ("done" = "done" <=> h.how = "done")
    BY <1>8
  <2>4. \E cb : /\ CallsFor(t, m, cb) /\ (t \in Reqs => UNCHANGED <<open, waiters>>)
                /\ \/ cb \notin {"data", "done"}
                   \/ h.op = "deliver" /\ (cb = "done" <=> h.how = "done")
    BY <1>13, <2>3
  <2>5. h.op = "deliver" /\ h.how = "done" => t \in settled' /\ outcome'[t] = <<"done">>
    BY <2>1
  <2>6. t \in settled' <=> outcome'[t] # <<>>
    BY <2>1
  <2>7. /\ h.op # "finish" /\ h.how # "batch" /\ h.how # "last" /\ h.id = t
        /\ h.op \in {"deliver", "finish"}
    BY <1>8, <2>2
  <2>8. /\ \A u \in Ids : u # t => /\ events'[u] = events[u] /\ outcome'[u] = outcome[u]
                                   /\ u \in settled' <=> u \in settled
                                   /\ u \in notified' <=> u \in notified
        /\ Terminal(events'[t]) => Terminal(events[t])
    BY <1>6, <1>12, <2>1
  <2>9. h.op = "deliver" /\ h.how # "done" /\ t \in settled' => state[t] = "aborted"
    BY <1>8
  <2>10. /\ UNCHANGED <<state, retired, detached, started, conns, free, pending, delayed>>
         /\ UNCHANGED <<delayedCount, dispatch, gated, dispatchCount, fetchOf, blocking, held>>
         /\ UNCHANGED <<intercepted, fault>>
    BY <1>5
  <2> QED BY <1>10, <2>1, <2>4, <2>5, <2>6, <2>7, <2>8, <2>9, <2>10 DEF Delivers
<1> QED BY <1>2, <1>6, <1>14, DeliversPlaces

(* A callback that ran JavaScript failed.                                  *)
LEMMA JsFailPlaces == ASSUME Given, JsFail PROVE Places'
<1>1. PICK f : f = Top
  OBVIOUS
<1>2. PICK t : t = f.id
  OBVIOUS
<1>3. PICK s : s = Below
  OBVIOUS
<1>4. PICK D : D = Head(s)
  OBVIOUS
<1>5. /\ Running("js") /\ f.how \in {"data", "done"}
      /\ requestFailed(t, state[t] = "aborted", <<Finish(t)>> \o Tail(s))
      /\ UNCHANGED <<state, retired, detached, started, conns, free, pending, delayed>>
      /\ UNCHANGED <<delayedCount, dispatch, gated, dispatchCount, fetchOf, blocking, held>>
      /\ UNCHANGED <<intercepted, fault, events>>
  BY <1>1, <1>2, <1>3
     DEF JsFail, InJs, failDelivery, lvars, idle, evars, qvars, dvars, nvars, cvars
<1>6. /\ stack # <<>> /\ f.op = "js" /\ Sound(s) /\ Pushes(f, s) /\ On = {f} \cup FramesIn(s)
  BY <1>1, <1>3, <1>5, OnTopView DEF Given, Places, Rest
<1>7. s # <<>> /\ D.op = "deliver" /\ D.id = t
  BY <1>2, <1>4, <1>5, <1>6 DEF Pushes, Reports, CalledBy
<1>8. DeliverOn(s, D)
  BY <1>4, <1>6, <1>7 DEF DeliverOn
<1>9. PICK ab \in BOOLEAN : ab <=> state[t] = "aborted"
  BY Zenon
<1>10. requestFailed(t, ab, <<Finish(t)>> \o Tail(s))
  BY <1>5, <1>9 DEF requestFailed
<1>11. (Terminal(events'[t]) => Terminal(events[t])) /\ \A u \in Ids : u # t => events'[u] = events[u]
  BY <1>5 DEF Terminal
<1> QED BY <1>5, <1>7, <1>8, <1>9, <1>10, <1>11, FailsPlaces

(* Every event is delivered.                                               *)
LEMMA DeliverEndPlaces == ASSUME Given, DeliverEnd PROVE Places'
<1>1. PICK D : D = Top
  OBVIOUS
<1>2. PICK t : t = D.id
  OBVIOUS
<1>3. /\ Running("deliver") /\ (events[t] = <<>> \/ state[t] = "aborted")
      /\ IF state[t] = "aborted" \/ D.how # "batch"
         THEN stack' = <<Finish(t)>> \o Below /\ UNCHANGED state
         ELSE stack' = Below /\ state' = [state EXCEPT ![t] = "inflight"]
      /\ UNCHANGED <<retired, detached, started, conns, free, pending, delayed>>
      /\ UNCHANGED <<delayedCount, dispatch, gated, dispatchCount, fetchOf, blocking, held>>
      /\ UNCHANGED <<outcome, settled, notified, open, waiters, intercepted, fault, events>>
  BY <1>1, <1>2 DEF DeliverEnd, cbvars, idle, evars, qvars, dvars, nvars, cvars
<1>4. stack # <<>> /\ D.op = "deliver" /\ DeliverOn(stack, D)
  <2>1. stack # <<>> /\ D.op = "deliver"
    BY <1>1, <1>3 DEF Running, Top
  <2> QED BY <1>1, <2>1 DEF DeliverOn, Given, Places, CallsInv, On, Top
<1>5. /\ t \in Live /\ t \in Ids /\ D \in Workers /\ Sound(Below) /\ Pushes(D, Below)
      /\ On = {D} \cup Rest
      /\ \A g \in Rest : /\ g.op \notin {"pipe", "kill", "release", "abort", "flush"}
                         /\ g.op \in Working => g.id # t
      /\ \A g \in Workers : g.id = t => g = D
      /\ \A g \in Workers : g.op \in {"deliver", "finish"}
      /\ state[t] \in {"delivering", "aborted"} /\ D.how \in {"batch", "last", "done"}
      /\ \A u \in Ids : /\ Saves[u] = {}
                        /\ Where[u] = IF u \in Live THEN state[u] ELSE "none"
      /\ Todos = {} /\ ~Dying
      /\ t \in Fetches => D.how # "batch" /\ state[t] # "aborted"
      /\ state[t] = "aborted" <=> t \in detached
  BY <1>2, <1>4, DeliverIs DEF Below, Rest, On
<1>6. /\ t \in settled <=> outcome[t] # <<>>
      /\ t \in notified => t \in settled \/ state[t] = "aborted"
  BY <1>5 DEF Given, Places, AnswerInv, Live
<1>7. /\ D.how = "batch" => /\ t \in conns \/ Terminal(events[t])
                            /\ t \in settled => state[t] = "aborted"
      /\ D.how = "last" => state[t] = "aborted" \/ t \in settled \/ Terminal(events[t])
      /\ D.how = "done" => t \in settled
  BY <1>2, <1>4, <1>5 DEF Given, Places, StreamInv, AnswerInv
<1>8. state[t] # "aborted" => ~Terminal(events[t])
  BY <1>3 DEF Terminal
<1>9. CASE state[t] = "aborted" \/ D.how # "batch"
  <2>1. PICK h : h = Finish(t)
    OBVIOUS
  <2>2. PICK m : m = <<h>> \o Below
    OBVIOUS
  <2>3. Pushes(h, Below) /\ h.op = "finish" /\ h.id = t
    BY <1>2, <1>4, <1>5, <2>1, FinishPushes
  <2>4. m # <<>> /\ Head(m) = h /\ Tail(m) = Tail(stack) /\ Sound(m)
    BY <1>5, <2>2, <2>3, SoundPush DEF Below
  <2>5. stack' = m /\ UNCHANGED state
    BY <1>3, <1>9, <2>1, <2>2
  <2>6. Terminal(events'[t]) <=> Terminal(events[t])
    BY <1>3 DEF Terminal
  <2>7. UNCHANGED <<outcome, settled, notified, open, waiters, events>>
    BY <1>3
  <2>8. /\ h.op = "finish" /\ h.op # "deliver" /\ h.op \in {"deliver", "finish"}
        /\ state[t] = "aborted" \/ t \in settled'
    BY <1>5, <1>7, <1>8, <1>9, <2>3, <2>7
  <2>9. Delivers(t, stack, m, h)
    BY <1>3, <1>6, <2>3, <2>4, <2>5, <2>6, <2>7, <2>8 DEF Delivers
  <2> QED BY <1>2, <1>4, <2>9, DeliversPlaces
<1>10. CASE ~(state[t] = "aborted" \/ D.how # "batch")
  <2>1. stack' = Below /\ state' = [state EXCEPT ![t] = "inflight"]
    BY <1>3, <1>10
  <2>2. /\ state[t] = "delivering" /\ t \in conns /\ t \notin settled \cup notified \cup detached
        /\ t \notin Fetches
    BY <1>5, <1>6, <1>7, <1>8, <1>10
  <2>3. CallsInv' /\ On' = Rest
    BY <1>4, <2>1, AfterPop DEF Given, Places
  <2>4. \A f : f \in Workers' <=> f \in Workers /\ f.id # t
    BY <1>2, <1>5, <2>3 DEF Workers
  <2>5. UNCHANGED <<Syncs, Todos, Dying, Saves>>
    <3>1. \A f : f \in On /\ f \notin On' => Plain(f) \/ f.op \in {"pipe", "deliver", "finish"}
      BY <1>4, <1>5, <2>3
    <3>2. \A f : f \in On' /\ f \notin On => Plain(f) \/ f.op \in {"pipe", "deliver", "finish"}
      BY <1>5, <2>3
    <3> QED BY <3>1, <3>2, HandsView
  <2>6. Moves(t, "inflight") /\ Live' = Live /\ Born' = Born
    BY <1>3, <1>5, <2>1, <2>5, WhereMoves DEF Given
  <2>7. /\ Where[t] = "delivering" /\ Where'[t] = "inflight"
        /\ \A u \in Ids : u # t => Where'[u] = Where[u]
    BY <1>5, <2>2, <2>6, MoveIs
  <2>8. state'[t] = "inflight" /\ \A u \in Ids : u # t => state'[u] = state[u]
    BY <1>5, <2>1 DEF Given, IInv, Data, Life
  <2>9. Shifts({"delivering", "inflight"})
    BY <1>5, <2>6, <2>7, MoveShifts
  <2> HIDE DEF Where
  <2>10. Elsewhere({t})
    BY <1>3, <2>4, <2>7, <2>8 DEF Elsewhere
  <2>11. BusyIn({t})' /\ StreamIn({t})' /\ AnswerIn({t})'
    <3>1. BusyIn({t})'
      BY <1>3, <2>2, <2>4, <2>6, <2>8 DEF BusyIn
    <3>2. StreamIn({t})'
      BY <1>3, <1>8, <1>10, <2>4, <2>7 DEF StreamIn, Terminal
    <3>3. AnswerIn({t})'
      BY <1>3, <1>5, <1>6, <2>2, <2>4 DEF AnswerIn, Live
    <3> QED BY <3>1, <3>2, <3>3
  <2>12. BusyInv' /\ StreamInv' /\ AnswerInv'
    BY <2>10, <2>11, ElsewhereKeeps DEF Given
  <2>13. PendingInv' /\ DelayedInv' /\ BlockInv'
    <3>1. PendingInv' /\ DelayedInv'
      BY <1>3, <2>9, Shifted DEF Given
    <3> QED BY <1>3, <2>5, <3>1, Untouched DEF Given
  <2>14. DispatchInv'
    <3>1. t \notin InDispatch \cup InGated
      BY <1>5, <2>7, NotLinked DEF Given
    <3> QED BY <1>3, <1>5, <2>6, <3>1, DispatchElse DEF Given
  <2>15. PoolInv'
    BY <1>3, <2>2, <2>7 DEF Given, Places, PoolInv
  <2>16. HeldInv'
    BY <1>3, <2>6, <2>9, HeldElse DEF Given, Places, Kept4Cdp
  <2>17. GateInv'
    <3>1. \A f \in Fetches : Where'[f] # "none" <=> Where[f] # "none"
      BY <2>2, <2>7 DEF Ids
    <3>2. \A u \in Live : state[u] \in AtGate => u \in Live' /\ state'[u] \in AtGate
      BY <2>2, <2>6, <2>8 DEF AtGate, Live
    <3>3. \A f \in Workers' : f.op # "pipe"
      BY <1>5, <2>4
    <3> QED BY <1>3, <2>5, <2>9, <3>1, <3>2, <3>3, GateElse DEF Given, AtGate
  <2> QED BY <1>3, <2>3, <2>12, <2>13, <2>14, <2>15, <2>16, <2>17 DEF Given, Places
<1> QED BY <1>9, <1>10

-----------------------------------------------------------------------------
(* Transfer.deinit                                                         *)

(* Whoever had t in hand lets it go, and it has had its outcome.           *)
Retires(t, st) ==
  /\ t \in Live /\ st = Where[t] /\ deinit(t, st)
  /\ \A f : f \in Workers' <=> f \in Workers /\ f.id # t
  /\ \A u \in Ids : u # t => Saves'[u] = Saves[u]
  /\ outcome'[t] # <<>> /\ \A u \in Ids : u # t => outcome'[u] = outcome[u]
  /\ settled' = settled /\ notified' \in {notified, notified \cup {t}}
  /\ UNCHANGED <<events, started, detached, held>>

(* It is nowhere then, and everything it had is given back.                *)
LEMMA Ends ==
  ASSUME Given, NEW t, NEW st, Retires(t, st)
  PROVE  /\ BusyInv' /\ StreamInv' /\ AnswerInv'
         /\ PendingInv' /\ DelayedInv' /\ DispatchInv' /\ PoolInv' /\ HeldInv'
         /\ t \in Ids /\ Moves(t, "none") /\ Live' = Live \ {t} /\ UNCHANGED fault
         /\ \A u \in Ids : u # t => state'[u] = state[u]
<1>1. t \in Live /\ t \in Ids /\ t \notin retired /\ t \in Born /\ st = Where[t]
  BY DEF Live, Retires, Born
<1>2. Where[t] # "none" /\ Where[t] \in States
  BY <1>1, WhereLive DEF Given, Places
<1>3. st # "none" /\ st \in States
  BY <1>1, <1>2
<1>4. /\ retired' = retired \cup {t} /\ state' = [state EXCEPT ![t] = st]
      /\ leaveIntercept(st) /\ removeConn(t) /\ unlink(t, st)
      /\ Trip("unlink", \/ st = "queued"  /\ ~Contains(pending, t)
                        \/ st = "delayed" /\ ~Contains(delayed, t))
  BY <1>1 DEF Retires, deinit
<1>5. Moves(t, "none") /\ Live' = Live \ {t} /\ Born' = Born
  BY <1>1, <1>3, <1>4, WhereEnds DEF Given, Retires
<1>6. Where'[t] = "none" /\ \A u \in Ids : u # t => Where'[u] = Where[u]
  BY <1>1, <1>5, MoveIs
<1>7. \A u \in Ids : u # t => state'[u] = state[u]
  BY <1>4 DEF Given, IInv, Data, Life
<1> HIDE DEF Where
<1>8. UNCHANGED fault
  <2>1. st = "queued" => Contains(pending, t)
    <3>1. Once(pending, {u \in Ids : Where[u] = "queued"})
      BY DEF Given, Places, PendingInv
    <3>2. \A u : Contains(pending, u) <=> u \in {v \in Ids : Where[v] = "queued"}
      BY <3>1, OnceMeans
    <3> QED BY <1>1, <3>2
  <2>2. st = "delayed" => Contains(delayed, t)
    <3>1. Once(delayed, {u \in Ids : Where[u] = "delayed"})
      BY DEF Given, Places, DelayedInv
    <3>2. \A u : Contains(delayed, u) <=> u \in {v \in Ids : Where[v] = "delayed"}
      BY <3>1, OnceMeans
    <3> QED BY <1>1, <3>2
  <2> QED BY <1>4, <2>1, <2>2 DEF Trip, Broken
<1>9. \A u \in Ids : u # t => (u \in conns' <=> u \in conns)
  BY <1>4 DEF removeConn
<1>10. Elsewhere({t})
  BY <1>1, <1>4, <1>6, <1>7, <1>9 DEF Elsewhere, Retires
<1>11. \A f \in Workers' : f.id # t
  BY DEF Retires
<1>12. BusyIn({t})' /\ StreamIn({t})' /\ AnswerIn({t})'
  <2>1. BusyIn({t})'
    BY <1>5, <1>11 DEF BusyIn
  <2>2. StreamIn({t})'
    BY <1>4, <1>6, <1>11 DEF StreamIn
  <2>3. AnswerIn({t})'
    BY <1>1, <1>4, <1>5, <1>11 DEF AnswerIn, Retires
  <2> QED BY <2>1, <2>2, <2>3
<1>13. BusyInv' /\ StreamInv' /\ AnswerInv'
  BY <1>10, <1>12, ElsewhereKeeps DEF Given
<1>14. PendingInv'
  <2>1. pending' = IF Where[t] = "queued" THEN Unlink(pending, t) ELSE pending
    BY <1>1, <1>4 DEF unlink
  <2> QED BY <1>1, <1>5, <2>1, PendingLoses DEF Given
<1>15. DelayedInv'
  <2>1. /\ delayed' = IF Where[t] = "delayed" THEN Unlink(delayed, t) ELSE delayed
        /\ delayedCount' = delayedCount - (IF Where[t] = "delayed" THEN 1 ELSE 0)
    BY <1>1, <1>4 DEF unlink
  <2> QED BY <1>1, <1>5, <2>1, DelayedLoses DEF Given
<1>16. DispatchInv'
  <2>1. /\ dispatch' = Unlink(dispatch, t) /\ gated' = Unlink(gated, t)
        /\ dispatchCount' = dispatchCount - (IF Linked(t) THEN 1 ELSE 0)
        /\ started' = started
    BY <1>4 DEF unlink, Retires
  <2> QED BY <1>1, <1>5, <1>9, <2>1, DispatchLoses DEF Given
<1>17. PoolInv'
  BY <1>1, <1>4, <1>5, PoolGives DEF Given, Retires
<1>18. HeldInv'
  <2>1. intercepted' = (intercepted + 0) - (IF Where[t] \in Kept4Cdp THEN 1 ELSE 0)
    BY <1>1, <1>4 DEF Given, IInv, Data, Cdp, leaveIntercept, Kept4Cdp
  <2>2. held' = held
    BY DEF Retires
  <2> QED BY <1>1, <1>5, <2>1, <2>2, HeldMoves DEF Given, Places, Kept4Cdp
<1> QED BY <1>1, <1>5, <1>7, <1>8, <1>13, <1>14, <1>15, <1>16, <1>17, <1>18

(* RobotsGate.remove and CorsGate.remove.                                  *)
LEMMA GateEnds ==
  ASSUME Given, NEW t \in Live, NEW st, st = Where[t], Moves(t, "none"), Live' = Live \ {t},
         t \notin Todos, gateRemove(t, st), UNCHANGED <<open, fetchOf, Todos, Dying>>,
         t \in Fetches => outcome[t] # <<>>,
         \A u \in Ids : u # t => state'[u] = state[u] /\ outcome'[u] = outcome[u],
         \A f \in Workers' : f.op # "pipe"
  PROVE  GateInv'
<1>1. GateInv /\ t \in Ids /\ t \notin retired /\ Fetches \subseteq Ids
      /\ waiters \in [Slots -> Seq(Born)]
  BY DEF Given, Places, Live, IInv, Data, Flights, Ids
<1>2. Where'[t] = "none" /\ \A u \in Ids : u # t => Where'[u] = Where[u]
  BY <1>1, MoveIs
<1> HIDE DEF Where
<1>3. \A s : Queue(s)' = Queue(s) \ {t}
  <2> SUFFICES ASSUME NEW s, NEW u PROVE u \in Queue(s)' <=> u \in Queue(s) \ {t}
    OBVIOUS
  <2>1. StateAt(s) # "none"
    BY DEF StateAt
  <2>2. CASE u = t
    BY <1>2, <2>1, <2>2 DEF Queue
  <2>3. CASE u # t
    BY <1>2, <2>3 DEF Queue, Ids
  <2> QED BY <2>2, <2>3
<1>4. \A s \in Slots : Once(waiters'[s], Queue(s)')
  <2> SUFFICES ASSUME NEW s \in Slots PROVE Once(waiters'[s], Queue(s)')
    OBVIOUS
  <2>1. Once(waiters[s], Queue(s)) /\ s[1] \in {"robots", "cors"}
    BY <1>1 DEF GateInv, Slots, Gates
  <2>2. CASE st \notin {"parked_robots", "parked_cors"}
    <3>1. t \notin Queue(s)
      BY <2>2 DEF Queue, StateAt
    <3>2. Queue(s) \ {t} = Queue(s) /\ waiters'[s] = waiters[s]
      BY <2>2, <3>1 DEF gateRemove
    <3> QED BY <1>3, <2>1, <3>2
  <2>3. CASE st \in {"parked_robots", "parked_cors"}
    <3>1. waiters'[s] = IF (s[1] = "robots") <=> (st = "parked_robots")
                        THEN SwapRemove(waiters[s], t) ELSE waiters[s]
      BY <1>1, <2>3 DEF gateRemove
    <3>2. CASE (s[1] = "robots") <=> (st = "parked_robots")
      BY <1>3, <2>1, <3>1, <3>2, OnceSwapRemove
    <3>3. CASE ~((s[1] = "robots") <=> (st = "parked_robots"))
      <4>1. t \notin Queue(s)
        BY <2>1, <2>3, <3>3 DEF Queue, StateAt
      <4>2. Queue(s) \ {t} = Queue(s)
        BY <4>1
      <4> QED BY <1>3, <2>1, <3>1, <3>3, <4>2
    <3> QED BY <3>2, <3>3
  <2> QED BY <2>2, <2>3
<1>5. \A s \in open' : \E f \in Fetches :
        Where'[f] # "none" /\ fetchOf'[f] = s /\ outcome'[f] = <<>>
  <2> SUFFICES ASSUME NEW s \in open
               PROVE  \E f \in Fetches :
                        Where'[f] # "none" /\ fetchOf'[f] = s /\ outcome'[f] = <<>>
    OBVIOUS
  <2>1. PICK f \in Fetches : Where[f] # "none" /\ fetchOf[f] = s /\ outcome[f] = <<>>
    BY <1>1 DEF GateInv
  <2>2. f # t /\ f \in Ids
    BY <1>1, <2>1
  <2> QED BY <1>2, <2>1, <2>2
<1>6. \A f \in Fetches : Where'[f] # "none" => fetchOf'[f] \in Slots
  BY <1>1, <1>2 DEF GateInv
<1>7. \A u \in Todos' : u \in Reqs \cap Live' /\ state'[u] \in AtGate
  BY <1>1 DEF GateInv, Live
<1>8. ~Dying' => \A u \in Ids : Where'[u] \in AtGate =>
                   u \in Reqs /\ (u \in Todos' \/ SlotAt(u, Where'[u]) \in open')
  <2> SUFFICES ASSUME ~Dying', NEW u \in Ids, Where'[u] \in AtGate
               PROVE  u \in Reqs /\ (u \in Todos' \/ SlotAt(u, Where'[u]) \in open')
    OBVIOUS
  <2>1. u # t
    BY <1>2 DEF AtGate
  <2>2. Where'[u] = Where[u]
    BY <1>2, <2>1
  <2> QED BY <1>1, <2>2 DEF GateInv
<1> QED BY <1>4, <1>5, <1>6, <1>7, <1>8 DEF GateInv

(* A function that has its transfer in hand returns.                       *)
LEMMA TopReturns ==
  ASSUME Given, stack # <<>>, NEW F, F = Top, F.op \in {"abort", "deliver", "finish"},
         NEW t, t = F.id, stack' = Below
  PROVE  /\ CallsInv' /\ t \in Live /\ t \in Ids /\ t \notin Todos /\ F \in Workers
         /\ state[t] \in {"delivering", "aborted"}
         /\ \A f : f \in Workers' <=> f \in Workers /\ f # F
         /\ \A g \in Workers : g # F /\ g.id = t =>
              F.op = "abort" /\ g.op = "deliver" /\ F.how = "delivering"
         /\ UNCHANGED <<Syncs, Todos, Dying>>
         /\ \A u \in Ids : u # t => Saves'[u] = Saves[u]
         /\ \A f \in Workers' : f.op # "pipe"
         /\ F.op = "finish" => Saves[t] = {}
         /\ F.op = "abort" => Saves'[t] = {}
<1>1. CallsInv' /\ On' = Rest
  BY AfterPop DEF Given, Places
<1>2. /\ Sound(Below) /\ Pushes(F, Below) /\ On = {F} \cup Rest /\ F \in Workers
      /\ \A g \in Rest : g.op \in Working /\ g.id = t =>
           F.op = "abort" /\ g.op = "deliver" /\ F.how = "delivering"
      /\ F \notin Rest
  BY TopWorks DEF Given, Places, Working
<1>3. \A g \in Rest : g.op # "pipe"
  BY <1>2 DEF Pushes, Rest, Over
<1>4. \A f : f \in Workers' <=> f \in Workers /\ f # F
  BY <1>1, <1>2 DEF Workers
<1>5. \A g \in Workers : g # F /\ g.id = t =>
              F.op = "abort" /\ g.op = "deliver" /\ F.how = "delivering"
  BY <1>2 DEF Workers
<1>6. \A f : f.op \in {"sync", "flush", "kill"} => (f \in On' <=> f \in On)
  BY <1>1, <1>2
<1>7. Syncs' = Syncs /\ Todos' = Todos
  BY <1>6 DEF Syncs, Todos
<1>8. Dying' = Dying
  BY <1>6 DEF Dying
<1>9. t \in Live /\ t \in Ids /\ state[t] \in {"delivering", "aborted"}
  BY <1>2 DEF Given, Places, BusyInv, Live
<1>10. t \notin Todos
  BY <1>9 DEF Given, Places, GateInv, AtGate
<1>11. \A u \in Ids : u # t => Saves'[u] = Saves[u]
  BY <1>1, <1>2 DEF Saves
<1>12. F.op = "finish" => Saves[t] = {}
  BY <1>5, <1>9, WhereIs
<1>13. F.op = "abort" => Saves'[t] = {}
  <2>1. \A g \in Rest : ~(g.op = "abort" /\ g.id = t)
    BY <1>2 DEF Working
  <2> QED BY <1>1, <1>9, <2>1 DEF Saves
<1>14. \A f \in Workers' : f.op # "pipe"
  BY <1>1, <1>3 DEF Workers
<1> QED BY <1>1, <1>2, <1>4, <1>5, <1>7, <1>8, <1>9, <1>10, <1>11, <1>12, <1>13, <1>14

(* A delivery is over.                                                     *)
LEMMA finishDeliveryPlaces == ASSUME Given, finishDelivery PROVE Places'
<1>1. PICK F : F = Top
  OBVIOUS
<1>2. PICK t : t = F.id
  OBVIOUS
<1>3. PICK st : st = state[t]
  OBVIOUS
<1>4. /\ Running("finish") /\ stack' = Below
      /\ outcome' = IF state[t] = "aborted" /\ t \notin settled
                    THEN [outcome EXCEPT ![t] = Append(@, "shutdown")] ELSE outcome
      /\ deinit(t, st)
      /\ UNCHANGED <<settled, notified, detached, events, started, held, blocking>>
      /\ UNCHANGED <<open, waiters, fetchOf>>
  BY <1>1, <1>2, <1>3 DEF finishDelivery, evars, gvars
<1>5. stack # <<>> /\ F.op = "finish"
  BY <1>1, <1>4 DEF Running, Top
<1>6. /\ CallsInv' /\ t \in Live /\ t \in Ids /\ t \notin Todos /\ F \in Workers
      /\ state[t] \in {"delivering", "aborted"}
      /\ \A f : f \in Workers' <=> f \in Workers /\ f # F
      /\ \A g \in Workers : g # F => g.id # t
      /\ UNCHANGED <<Syncs, Todos, Dying>>
      /\ \A u \in Ids : u # t => Saves'[u] = Saves[u]
      /\ \A f \in Workers' : f.op # "pipe"
      /\ Saves[t] = {}
  BY <1>1, <1>2, <1>4, <1>5, TopReturns
<1>7. Where[t] = st
  BY <1>3, <1>6, WhereIs
<1> HIDE DEF Where
<1>8. t \in settled \/ state[t] = "aborted"
  BY <1>2, <1>5, <1>6 DEF Given, Places, AnswerInv
<1>9. /\ outcome'[t] # <<>> /\ \A u \in Ids : u # t => outcome'[u] = outcome[u]
      /\ t \in Fetches => outcome[t] # <<>>
  <2>1. outcome \in [Ids -> Seq({"done", "err", "shutdown"})]
    BY DEF Given, IInv, Data, Calls
  <2>2. t \in settled => outcome[t] # <<>>
    BY DEF Given, Places, AnswerInv
  <2>3. CASE t \in settled
    <3>1. t \in Fetches => outcome[t] # <<>>
      BY <2>2, <2>3
    <3>2. outcome' = outcome
      BY <1>4, <2>3
    <3> QED BY <2>2, <2>3, <3>1, <3>2
  <2>4. CASE t \notin settled
    <3>1. outcome' = [outcome EXCEPT ![t] = Append(@, "shutdown")]
      BY <1>4, <1>8, <2>4
    <3>2. outcome'[t] = Append(outcome[t], "shutdown") /\ outcome[t] \in Seq({"done", "err", "shutdown"})
      BY <1>6, <2>1, <3>1
    <3>3. outcome'[t] # <<>>
      BY <3>2
    <3>4. t \notin Fetches
      BY <1>6, <1>8, <2>4 DEF Given, Places, BusyInv
    <3> QED BY <2>1, <3>1, <3>3, <3>4
  <2> QED BY <2>3, <2>4
<1>10. Retires(t, st)
  BY <1>2, <1>4, <1>6, <1>7, <1>9 DEF Retires
<1>11. /\ BusyInv' /\ StreamInv' /\ AnswerInv'
       /\ PendingInv' /\ DelayedInv' /\ DispatchInv' /\ PoolInv' /\ HeldInv'
       /\ Moves(t, "none") /\ Live' = Live \ {t} /\ UNCHANGED fault
       /\ \A u \in Ids : u # t => state'[u] = state[u]
  BY <1>10, Ends
<1>12. GateInv'
  <2>1. gateRemove(t, st)
    BY <1>3, <1>4, <1>6 DEF gateRemove
  <2> QED BY <1>4, <1>6, <1>7, <1>9, <1>11, <2>1, GateEnds
<1>13. BlockInv'
  BY <1>4, <1>6, Untouched DEF Given
<1> QED BY <1>6, <1>11, <1>12, <1>13 DEF Given, Places

(* The error callback has returned and the state of its transfer shows     *)
(* again.                                                                  *)
LEMMA WhereShown ==
  ASSUME IInv, NEW t \in Live, UNCHANGED retired, Saves'[t] = {},
         \A u \in Ids : u # t => Saves'[u] = Saves[u],
         NEW l, l # "none", state' = [state EXCEPT ![t] = l]
  PROVE  Moves(t, l) /\ Live' = Live /\ Born' = Born
<1>1. t \in Ids /\ t \notin retired /\ state[t] # "none"
  BY DEF Live
<1>2. state'[t] = l /\ \A u \in Ids : u # t => state'[u] = state[u]
  BY <1>1 DEF IInv, Data, Life
<1>3. Live' = Live /\ Born' = Born
  BY <1>1, <1>2 DEF Live, Born
<1>4. ASSUME NEW u \in Ids PROVE Where'[u] = IF u = t THEN l ELSE Where[u]
  <2>1. Where'[u] = IF u \notin Live' THEN "none"
                 ELSE IF Saves'[u] = {} THEN state'[u]
                 ELSE (CHOOSE f \in Saves'[u] : TRUE).how
    BY DEF Where
  <2>2. Where[u] = IF u \notin Live THEN "none"
                 ELSE IF Saves[u] = {} THEN state[u]
                 ELSE (CHOOSE f \in Saves[u] : TRUE).how
    BY DEF Where
  <2>3. CASE u = t
    BY <1>2, <1>3, <2>1, <2>3
  <2>4. CASE u # t
    BY <1>2, <1>3, <2>1, <2>2, <2>4
  <2> QED BY <2>3, <2>4
<1>5. Where' = [u \in Ids |-> Where'[u]] /\ Where = [u \in Ids |-> Where[u]]
  BY DEF Where
<1> HIDE DEF Where
<1>6. Where' = [Where EXCEPT ![t] = l]
  BY <1>1, <1>4, <1>5
<1> QED BY <1>3, <1>6 DEF Moves

(* The teardown at the end of abort().                                     *)
LEMMA AbortEndPlaces == ASSUME Given, AbortEnd PROVE Places'
<1>1. PICK F : F = Top
  OBVIOUS
<1>2. PICK t : t = F.id
  OBVIOUS
<1>3. PICK st : st = F.how
  OBVIOUS
<1>4. /\ Running("abort") /\ stack' = Below
      /\ IF st = "delivering"
         THEN /\ detachInDelivery(t)
              /\ UNCHANGED <<retired, pending, delayed, delayedCount, dispatch, gated>>
              /\ UNCHANGED <<dispatchCount, conns, free, intercepted, waiters, fault>>
         ELSE deinit(t, st) /\ gateRemove(t, st) /\ UNCHANGED detached
      /\ UNCHANGED <<outcome, settled, notified, events, started, open, fetchOf, blocking, held>>
  BY <1>1, <1>2, <1>3 DEF AbortEnd, evars, qvars, dvars, nvars
<1>5. stack # <<>> /\ F.op = "abort"
  BY <1>1, <1>4 DEF Running, Top
<1>6. /\ CallsInv' /\ t \in Live /\ t \in Ids /\ t \notin Todos /\ F \in Workers
      /\ state[t] \in {"delivering", "aborted"}
      /\ \A f : f \in Workers' <=> f \in Workers /\ f # F
      /\ \A g \in Workers : g # F /\ g.id = t => g.op = "deliver" /\ st = "delivering"
      /\ UNCHANGED <<Syncs, Todos, Dying>>
      /\ \A u \in Ids : u # t => Saves'[u] = Saves[u]
      /\ \A f \in Workers' : f.op # "pipe"
      /\ Saves'[t] = {}
  BY <1>1, <1>2, <1>3, <1>4, <1>5, TopReturns
<1>7. Where[t] = st
  BY <1>2, <1>3, <1>5, <1>6, WhereSaved DEF Given, Places
<1>8. t \in settled /\ outcome[t] # <<>>
  BY <1>2, <1>5, <1>6 DEF Given, Places, AnswerInv
<1>9. BlockInv'
  BY <1>4, <1>6, Untouched DEF Given
<1>10. CASE st # "delivering"
  <2>1. deinit(t, st) /\ gateRemove(t, st) /\ UNCHANGED detached
    BY <1>4, <1>10
  <2>2. Retires(t, st)
    BY <1>2, <1>4, <1>6, <1>7, <1>8, <1>10, <2>1 DEF Retires
  <2>3. /\ BusyInv' /\ StreamInv' /\ AnswerInv'
        /\ PendingInv' /\ DelayedInv' /\ DispatchInv' /\ PoolInv' /\ HeldInv'
        /\ Moves(t, "none") /\ Live' = Live \ {t} /\ UNCHANGED fault
        /\ \A u \in Ids : u # t => state'[u] = state[u]
    BY <2>2, Ends
  <2>4. GateInv'
    BY <1>4, <1>6, <1>7, <1>8, <2>1, <2>3, GateEnds
  <2> QED BY <1>6, <1>9, <2>3, <2>4 DEF Given, Places
<1>11. CASE st = "delivering"
  <2>1. /\ state' = [state EXCEPT ![t] = "aborted"] /\ detached' = detached \cup {t}
        /\ UNCHANGED <<retired, pending, delayed, delayedCount, dispatch, gated>>
        /\ UNCHANGED <<dispatchCount, conns, free, intercepted, waiters, fault>>
    BY <1>4, <1>11 DEF detachInDelivery
  <2>2. Moves(t, "aborted") /\ Live' = Live /\ Born' = Born
    BY <1>6, <2>1, WhereShown DEF Given
  <2>3. Where'[t] = "aborted" /\ \A u \in Ids : u # t => Where'[u] = Where[u]
    BY <1>6, <2>2, MoveIs
  <2>4. Shifts({"delivering", "aborted"})
    BY <1>6, <1>7, <1>11, <2>2, MoveShifts
  <2>5. state'[t] = "aborted" /\ \A u \in Ids : u # t => state'[u] = state[u]
    BY <1>6, <2>1 DEF Given, IInv, Data, Life
  <2> HIDE DEF Where
  <2>6. Elsewhere({t})
    <3>1. \A f : f.id # t => (f \in Workers' <=> f \in Workers)
      BY <1>2, <1>6
    <3> QED BY <1>4, <2>1, <2>3, <2>5, <3>1 DEF Elsewhere
  <2>7. BusyIn({t})'
    <3>1. \E g \in Workers' : g.op = "deliver" /\ g.id = t
      <4>0. F.op = "abort" /\ F.how = "delivering" /\ F.id = t /\ F \in Workers /\ BusyInv
        BY <1>2, <1>3, <1>5, <1>6, <1>11 DEF Given, Places
      <4>1. PICK g \in Workers : g.op = "deliver" /\ g.id = t
        BY <4>0 DEF BusyInv
      <4> QED BY <1>5, <1>6, <4>1
    <3>2. t \notin Fetches
      <4>1. Kind(F)
        BY <1>1, <1>4, OnTopView DEF Given, Places, Pushes
      <4> QED BY <1>2, <1>3, <1>5, <1>11, <4>1 DEF Kind
    <3> QED BY <1>6, <2>1, <2>2, <2>5, <3>1, <3>2 DEF BusyIn
  <2>8. StreamIn({t})'
    <3>1. Terminal(events[t]) => t \notin conns
      BY <1>6 DEF Given, Places, StreamInv, Live
    <3>2. StreamInv
      BY DEF Given, Places
    <3>3. \A g \in Workers : g.id = t /\ g.op = "deliver" /\ g.how = "batch" =>
             t \in conns \/ Terminal(events[t])
      BY <3>2 DEF StreamInv
    <3>4. UNCHANGED <<events, conns>> /\ Where'[t] # "buffered"
      BY <1>4, <2>1, <2>3
    <3>5. \A g \in Workers' : g.id = t /\ g.op = "deliver" =>
             /\ g.how = "batch" => t \in conns' \/ Terminal(events'[t])
             /\ state'[g.id] = "aborted"
      BY <1>6, <2>5, <3>3, <3>4
    <3>6. Terminal(events'[t]) => state'[t] = "aborted" /\ t \notin conns'
      BY <2>5, <3>1, <3>4
    <3>7. state'[t] = "aborted" /\ Where'[t] # "buffered"
      BY <2>5, <3>4
    <3>8. \A g \in Workers' : g.id \in {t} /\ g.op = "deliver" /\ g.how = "batch" =>
             g.id \in conns' \/ Terminal(events'[g.id])
      BY <3>5
    <3>9. \A u : u \in {t} <=> u = t
      OBVIOUS
    <3> QED BY <3>6, <3>7, <3>8, <3>9 DEF StreamIn
  <2>9. AnswerIn({t})'
    <3>1. t \in Born' /\ t \notin retired'
      BY <1>6, <2>1, <2>2 DEF Live, Born
    <3>2. t \in settled' /\ outcome'[t] # <<>>
      BY <1>4, <1>8
    <3>3. \A g \in Workers' : g.id = t /\ g.op = "deliver" /\ g.how = "done" =>
             outcome'[t] = <<"done">>
      BY <1>4, <1>6 DEF Given, Places, AnswerInv
    <3> QED BY <2>5, <3>1, <3>2, <3>3 DEF AnswerIn
  <2>10. BusyInv' /\ StreamInv' /\ AnswerInv'
    BY <2>6, <2>7, <2>8, <2>9, ElsewhereKeeps DEF Given
  <2>11. PendingInv' /\ DelayedInv' /\ DispatchInv'
    BY <1>4, <2>1, <2>4, Shifted DEF Given
  <2>12. PoolInv'
    BY <1>4, <1>7, <1>11, <2>1, <2>3 DEF Given, Places, PoolInv
  <2>13. HeldInv'
    BY <1>4, <2>1, <2>2, <2>4, HeldElse DEF Given, Places, Kept4Cdp
  <2>14. GateInv'
    <3>1. \A f \in Fetches : Where'[f] # "none" <=> Where[f] # "none"
      BY <1>7, <1>11, <2>3 DEF Ids
    <3>2. \A u \in Live : state[u] \in AtGate => u \in Live' /\ state'[u] \in AtGate
      BY <1>6, <2>2, <2>5 DEF AtGate, Live
    <3> QED BY <1>4, <1>6, <2>1, <2>4, <3>1, <3>2, GateElse DEF Given, AtGate
  <2> QED BY <1>6, <1>9, <2>1, <2>10, <2>11, <2>12, <2>13, <2>14 DEF Given, Places
<1> QED BY <1>10, <1>11

-----------------------------------------------------------------------------
(* Transfer.kill                                                           *)

(* A teardown runs over nothing that could start or resume a transfer, and *)
(* the client's own runs over nothing at all.                              *)
LEMMA KillIs ==
  ASSUME Given, Running("kill"), NEW K, K = Top
  PROVE  /\ stack # <<>> /\ K.op = "kill" /\ On = {K} \cup Rest /\ CallsInv
         /\ \A g \in Workers : g.op # "pipe" /\ g \in Rest
         /\ Todos = {} /\ K.id \in Owners \cup {"page", "client"}
         /\ K.id = "client" => Dying /\ Rest = {} /\ Workers = {}
         /\ K.id # "client" => ~Dying
<1>1. /\ stack # <<>> /\ K.op = "kill" /\ On = {K} \cup Rest /\ CallsInv /\ Pushes(K, Below)
  BY OnTopView DEF Given, Places
<1>2. \A g \in Rest : g.op \notin {"pipe", "kill", "flush"} /\ K.id # "client"
  BY <1>1 DEF Pushes, Rest, Over
<1>3. K.id \in Owners \cup {"page", "client"}
  BY <1>1 DEF Pushes, Kind
<1>4. \A g \in Workers : g.op # "pipe" /\ g \in Rest
  BY <1>1, <1>2 DEF Workers, Working
<1>5. Todos = {}
  BY <1>1, <1>2 DEF Todos
<1>6. K.id = "client" => Dying /\ Rest = {} /\ Workers = {}
  <2>1. K.id = "client" => Dying
    BY <1>1 DEF Dying
  <2> QED BY <1>2, <1>4, <2>1
<1>7. K.id # "client" => ~Dying
  BY <1>1, <1>2 DEF Dying
<1> QED BY <1>1, <1>3, <1>4, <1>5, <1>6, <1>7

(* Only the client's own teardown reaches the gates' fetches.              *)
LEMMA TargetIs ==
  ASSUME Given, NEW o \in Owners \cup {"page", "client"}, NEW t \in Targets(o)
  PROVE  /\ t \in Live /\ t \in Ids /\ state[t] # "aborted"
         /\ o # "client" => t \in Reqs
<1>1. t \in Live /\ t \in Ids /\ state[t] # "aborted"
  BY DEF Targets, Live
<1>2. owner[t] # None => t \in Reqs
  BY <1>1 DEF Given, IInv, OwnerLinks
<1>3. o # "client" => owner[t] # None
  BY Constants DEF Targets
<1> QED BY <1>1, <1>2, <1>3

(* A transfer in its own callback is only told.                            *)
LEMMA KillDetaches ==
  ASSUME Given, Running("kill"), NEW t \in Ids, t \in Targets(Top.id), state[t] = "delivering",
         detachInDelivery(t), notified' \in {notified, notified \cup {t}},
         UNCHANGED <<retired, outcome, qvars, dvars, nvars, intercepted, open, waiters>>,
         UNCHANGED <<fault, settled, evars, fetchOf, blocking, held, stack>>
  PROVE  Places'
<1>1. PICK K : K = Top
  OBVIOUS
<1>2. /\ K.op = "kill" /\ CallsInv /\ \A g \in Workers : g.op # "pipe"
      /\ K.id \in Owners \cup {"page", "client"}
      /\ K.id = "client" => Workers = {}
  BY <1>1, KillIs
<1>3. t \in Live /\ (K.id # "client" => t \in Reqs)
  BY <1>1, <1>2, TargetIs
<1>4. PICK g \in Workers : g.id = t /\ g.op # "pipe"
  BY <1>3 DEF Given, Places, BusyInv
<1>5. t \in Reqs /\ t \notin Fetches /\ t \notin retired
  BY <1>2, <1>3, <1>4, Constants DEF Live
<1>6. /\ state' = [state EXCEPT ![t] = "aborted"] /\ detached' = detached \cup {t}
      /\ UNCHANGED <<retired, pending, delayed, delayedCount, dispatch, gated, outcome>>
      /\ UNCHANGED <<dispatchCount, conns, free, intercepted, open, waiters, fault, stack>>
      /\ UNCHANGED <<settled, events, started, fetchOf, blocking, held>>
  BY DEF detachInDelivery, qvars, dvars, nvars, evars
<1>7. UNCHANGED <<Workers, Syncs, Todos, Dying, Saves>> /\ CallsInv'
  BY <1>2, <1>6, SameStack
<1>8. /\ Live' = Live /\ Born' = Born /\ \A u \in Ids : u # t => Where'[u] = Where[u]
      /\ \/ Stays
         \/ Moves(t, "aborted") /\ Where[t] = "delivering" /\ Where'[t] = "aborted"
  <2>1. CASE Saves[t] = {}
    <3>1. Moves(t, "aborted") /\ Live' = Live /\ Born' = Born
      BY <1>3, <1>6, <1>7, <2>1, WhereMoves DEF Given
    <3>2. Where[t] = "delivering"
      BY <1>3, <2>1, WhereIs
    <3> QED BY <3>1, <3>2, MoveIs
  <2>2. CASE Saves[t] # {}
    <3>1. Stays /\ Live' = Live /\ Born' = Born
      BY <1>3, <1>6, <1>7, <2>2, WhereHides DEF Given
    <3> QED BY <3>1 DEF Stays
  <2> QED BY <2>1, <2>2
<1>9. state'[t] = "aborted" /\ \A u \in Ids : u # t => state'[u] = state[u]
  BY <1>6 DEF Given, IInv, Data, Life
<1>10. Shifts({"delivering", "aborted"})
  <2>1. CASE Stays
    BY <2>1, WhereTable DEF Shifts, Stays
  <2>2. CASE Moves(t, "aborted") /\ Where[t] = "delivering"
    BY <2>2, MoveShifts
  <2> QED BY <1>8, <2>1, <2>2
<1>11. \A u \in Ids : Where'[u] = Where[u] \/ (u = t /\ Where[u] = "delivering" /\ Where'[u] = "aborted")
  <2>1. CASE Stays
    BY <2>1 DEF Stays
  <2> QED BY <1>8, <2>1
<1> HIDE DEF Where
<1>12. Elsewhere({t})
  BY <1>6, <1>7, <1>8, <1>9 DEF Elsewhere
<1>13. BusyIn({t})'
  <2>1. BusyInv
    BY DEF Given, Places
  <2> QED BY <1>2, <1>3, <1>4, <1>5, <1>6, <1>7, <1>8, <1>9, <2>1 DEF BusyIn, BusyInv
<1>14. StreamIn({t})'
  <2>1. Terminal(events[t]) => t \notin conns
    BY <1>3 DEF Given, Places, StreamInv, Live
  <2>2. Where'[t] = "buffered" => Terminal(events[t])
    <3>1. Where'[t] = "buffered" => Where[t] = "buffered"
      BY <1>11
    <3> QED BY <3>1 DEF Given, Places, StreamInv
  <2>3. \A f \in Workers : f.id = t /\ f.op = "deliver" =>
          (f.how = "batch" => t \in conns \/ Terminal(events[t]))
    BY DEF Given, Places, StreamInv
  <2> QED BY <1>6, <1>7, <1>9, <2>1, <2>2, <2>3 DEF StreamIn, Terminal
<1>15. AnswerIn({t})'
  <2>1. AnswerInv /\ t \in Born'
    BY <1>3, <1>8 DEF Given, Places, Live, Born
  <2> QED BY <1>3, <1>5, <1>6, <1>7, <1>8, <1>9, <2>1 DEF AnswerIn, AnswerInv
<1>16. BusyInv' /\ StreamInv' /\ AnswerInv'
  BY <1>12, <1>13, <1>14, <1>15, ElsewhereKeeps DEF Given
<1>17. PendingInv' /\ DelayedInv' /\ DispatchInv'
  BY <1>6, <1>10, Shifted DEF Given
<1>18. PoolInv'
  <2>1. PoolInv
    BY DEF Given, Places
  <2>2. /\ free' + Cardinality(conns') = Conns /\ free' >= 0
        /\ started' \cap conns' \subseteq StreamReqs
    BY <1>6, <2>1 DEF PoolInv
  <2> QED BY <1>6, <1>11, <2>1, <2>2 DEF PoolInv
<1>19. HeldInv'
  BY <1>6, <1>8, <1>10, HeldElse DEF Given, Places, Kept4Cdp
<1>20. BlockInv'
  BY <1>6, <1>7, Untouched DEF Given
<1>21. GateInv'
  <2>1. \A f \in Fetches : Where'[f] # "none" <=> Where[f] # "none"
    BY <1>11 DEF Ids
  <2>2. \A u \in Live : state[u] \in AtGate => u \in Live' /\ state'[u] \in AtGate
    BY <1>8, <1>9 DEF AtGate, Live
  <2> QED BY <1>2, <1>6, <1>7, <1>10, <2>1, <2>2, GateElse DEF Given, AtGate
<1> QED BY <1>6, <1>7, <1>16, <1>17, <1>18, <1>19, <1>20, <1>21 DEF Given, Places

(* The fetch of an entry goes with the client, and so does the entry.      *)
LEMMA GateKilled ==
  ASSUME Given, NEW t \in Live, t \in Fetches, Moves(t, "none"), Todos' = {}, Dying',
         open' = open \ {fetchOf[t]}, waiters' = [waiters EXCEPT ![fetchOf[t]] = <<>>],
         UNCHANGED <<fetchOf, Todos>>,
         \A u \in Ids : u # t => outcome'[u] = outcome[u],
         \A f \in Workers' : f.op # "pipe"
  PROVE  GateInv'
<1>1. GateInv /\ t \in Ids /\ t \notin Reqs /\ Fetches \subseteq Ids /\ Reqs \subseteq Ids
      /\ waiters \in [Slots -> Seq(Born)]
  BY Constants DEF Given, Places, Live, IInv, Data, Flights, Ids
<1>2. Where'[t] = "none" /\ \A u \in Ids : u # t => Where'[u] = Where[u]
  BY <1>1, MoveIs
<1>3. Where[t] # "none"
  BY <1>1, WhereLive DEF Given, Places
<1> HIDE DEF Where
<1>4. PICK s \in Slots : s = fetchOf[t]
  BY <1>1, <1>3 DEF GateInv
<1>5. Queue(s)' = {} /\ waiters'[s] = <<>>
  BY <1>1, <1>4 DEF Queue
<1>6. \A r : r # s => Queue(r)' = Queue(r)
  BY <1>1, <1>2, <1>4 DEF Queue
<1>7. \A r \in Slots : Once(waiters'[r], Queue(r)')
  <2>1. ASSUME NEW r \in Slots, r # s PROVE Once(waiters'[r], Queue(r)')
    BY <1>1, <1>4, <1>6, <2>1 DEF GateInv
  <2> QED BY <1>5, <2>1, OnceEmpty
<1>8. \A r \in open' : \E f \in Fetches :
        Where'[f] # "none" /\ fetchOf'[f] = r /\ outcome'[f] = <<>>
  <2> SUFFICES ASSUME NEW r \in open'
               PROVE  \E f \in Fetches :
                        Where'[f] # "none" /\ fetchOf'[f] = r /\ outcome'[f] = <<>>
    OBVIOUS
  <2>1. r \in open /\ r # s
    BY <1>4
  <2>2. PICK f \in Fetches : Where[f] # "none" /\ fetchOf[f] = r /\ outcome[f] = <<>>
    BY <1>1, <2>1 DEF GateInv
  <2>3. f # t /\ f \in Ids
    BY <1>1, <1>4, <2>1, <2>2
  <2> QED BY <1>2, <2>2, <2>3
<1>9. \A f \in Fetches : Where'[f] # "none" => fetchOf'[f] \in Slots
  BY <1>1, <1>2 DEF GateInv
<1> QED BY <1>7, <1>8, <1>9 DEF GateInv

(* One iteration of the teardown.                                          *)
LEMMA KillOnePlaces == ASSUME Given, NEW t \in Ids, KillOne(t) PROVE Places'
<1>1. PICK K : K = Top
  OBVIOUS
<1>2. Running("kill") /\ t \in Targets(K.id)
  BY <1>1 DEF KillOne
<1>3. /\ stack # <<>> /\ K.op = "kill" /\ CallsInv
      /\ \A g \in Workers : g.op # "pipe" /\ g \in Rest
      /\ Todos = {} /\ K.id \in Owners \cup {"page", "client"}
      /\ K.id = "client" => Dying
  BY <1>1, <1>2, KillIs
<1>4. t \in Live /\ state[t] # "aborted" /\ (K.id # "client" => t \in Reqs)
  BY <1>2, <1>3, TargetIs
<1>5. CASE state[t] = "delivering"
  <2>1. /\ detachInDelivery(t) /\ notified' \in {notified, notified \cup {t}}
        /\ UNCHANGED <<retired, outcome, qvars, dvars, nvars, intercepted, open, waiters>>
        /\ UNCHANGED <<fault, settled, evars, fetchOf, blocking, held, stack>>
    BY <1>5 DEF KillOne
  <2> QED BY <1>1, <1>2, <1>5, <2>1, KillDetaches
<1>6. CASE state[t] # "delivering"
  <2>1. PICK st : st = state[t]
    OBVIOUS
  <2>2. /\ outcome' = [outcome EXCEPT ![t] = Append(@, "shutdown")]
        /\ notified' \in {notified, notified \cup {t}} /\ deinit(t, st)
        /\ IF t \in Fetches
           THEN /\ open' = open \ {fetchOf[t]}
                /\ waiters' = [waiters EXCEPT ![fetchOf[t]] = <<>>]
           ELSE gateRemove(t, st) /\ UNCHANGED open
        /\ UNCHANGED <<detached, settled, events, started, fetchOf, blocking, held, stack>>
    BY <1>6, <2>1 DEF KillOne, evars
  <2>3. UNCHANGED <<Workers, Syncs, Todos, Dying, Saves>> /\ CallsInv'
    BY <1>3, <2>2, SameStack
  <2>4. Saves[t] = {} /\ Where[t] = st
    BY <1>4, <1>6, <2>1, WhereLive DEF Given, Places
  <2>5. \A f \in Workers : f.id # t
    BY <1>3, <1>4, <1>6 DEF Given, Places, BusyInv
  <2>6. outcome'[t] # <<>> /\ \A u \in Ids : u # t => outcome'[u] = outcome[u]
    <3>1. outcome \in [Ids -> Seq({"done", "err", "shutdown"})]
      BY DEF Given, IInv, Data, Calls
    <3>2. outcome'[t] = Append(outcome[t], "shutdown") /\ outcome[t] \in Seq({"done", "err", "shutdown"})
      BY <2>2, <3>1
    <3>3. outcome'[t] # <<>>
      BY <3>2
    <3> QED BY <2>2, <3>1, <3>3
  <2> HIDE DEF Where
  <2>7. Retires(t, st)
    BY <1>4, <2>2, <2>3, <2>4, <2>5, <2>6 DEF Retires
  <2>8. /\ BusyInv' /\ StreamInv' /\ AnswerInv'
        /\ PendingInv' /\ DelayedInv' /\ DispatchInv' /\ PoolInv' /\ HeldInv'
        /\ Moves(t, "none") /\ Live' = Live \ {t} /\ UNCHANGED fault
        /\ \A u \in Ids : u # t => state'[u] = state[u]
    BY <2>7, Ends
  <2>9. BlockInv'
    BY <2>2, <2>3, Untouched DEF Given
  <2>10. \A f \in Workers' : f.op # "pipe"
    BY <1>3, <2>3
  <2>11. t \notin Todos
    BY <1>3
  <2>12. GateInv'
    <3>1. CASE t \in Fetches
      <4>1. Dying
        BY <1>3, <1>4, <3>1, Constants
      <4>2. Dying' /\ Todos' = {}
        BY <1>3, <2>3, <4>1
      <4> QED BY <1>4, <2>2, <2>3, <2>6, <2>8, <2>10, <3>1, <4>2, GateKilled
    <3>2. CASE t \notin Fetches
      <4>1. gateRemove(t, st) /\ UNCHANGED <<open, fetchOf, Todos, Dying>>
        BY <2>2, <2>3, <3>2
      <4> QED BY <1>4, <2>4, <2>6, <2>8, <2>10, <2>11, <3>2, <4>1, GateEnds
    <3> QED BY <3>1, <3>2
  <2> QED BY <2>3, <2>8, <2>9, <2>12 DEF Given, Places
<1> QED BY <1>5, <1>6

(* The end of a teardown: of the client, nothing is left.                  *)
LEMMA KillEndPlaces == ASSUME Given, KillEnd PROVE Places'
<1>1. PICK K : K = Top
  OBVIOUS
<1>2. /\ Running("kill") /\ Targets(K.id) = {} /\ stack' = Below
      /\ Trip("leak", /\ K.id = "client"
                      /\ \/ Live # {} \/ open # {} \/ conns # {}
                         \/ pending \o delayed \o dispatch \o gated # <<>>)
      /\ UNCHANGED <<lvars, cbvars, idle, open, waiters>>
  BY <1>1 DEF KillEnd
<1>3. /\ stack # <<>> /\ K.op = "kill" /\ On = {K} \cup Rest /\ CallsInv
      /\ Todos = {}
      /\ K.id = "client" => Dying /\ Rest = {} /\ Workers = {}
  BY <1>1, <1>2, KillIs
<1>4. CASE K.id # "client"
  <2>1. UNCHANGED fault
    BY <1>2, <1>4 DEF Trip, Broken
  <2>2. CallsInv' /\ UNCHANGED View
    BY <1>1, <1>2, <1>3, <1>4, PlainPop DEF Plain
  <2> QED BY <1>2, <2>1, <2>2, PlainStep DEF Given, idle, gvars
<1>5. CASE K.id = "client"
  <2>1. Dying /\ Rest = {} /\ Workers = {} /\ Todos = {}
    BY <1>3, <1>5
  <2>2. Live = {}
    <3>1. \A t \in Live : state[t] = "aborted"
      BY <1>2, <1>5 DEF Targets
    <3>2. \A t \in Live : state[t] # "aborted"
      BY <2>1 DEF Given, Places, BusyInv
    <3> QED BY <3>1, <3>2
  <2>3. \A t \in Ids : Where[t] = "none"
    BY <2>2, WhereIs
  <2> HIDE DEF Where
  <2>4. open = {} /\ conns = {}
    <3>1. open = {}
      BY <2>3 DEF Given, Places, GateInv, Ids
    <3>2. conns \subseteq Ids
      BY DEF Given, IInv, Data, Network, Born
    <3> QED BY <2>3, <3>1, <3>2 DEF Given, Places, PoolInv
  <2>5. pending = <<>> /\ delayed = <<>> /\ dispatch = <<>> /\ gated = <<>>
    <3>1. Once(pending, {t \in Ids : Where[t] = "queued"}) /\ Once(delayed, {t \in Ids : Where[t] = "delayed"})
      BY DEF Given, Places, PendingInv, DelayedInv
    <3>2. {t \in Ids : Where[t] = "queued"} = {} /\ {t \in Ids : Where[t] = "delayed"} = {}
      BY <2>3
    <3>3. pending = <<>> /\ delayed = <<>>
      BY <3>1, <3>2, OnceMeans
    <3>4. InDispatch \subseteq Ids /\ InGated \subseteq Ids
      <4>1. dispatch \in Seq(Born) /\ gated \in Seq(Born) /\ Born \subseteq Ids
        BY DEF Given, IInv, Data, Dispatcher, Born
      <4> QED BY <4>1 DEF InDispatch, InGated, ToSet
    <3>5. InDispatch = {} /\ InGated = {}
      BY <2>3, <3>4 DEF Given, Places, DispatchInv
    <3>6. Once(dispatch, InDispatch) /\ Once(gated, InGated)
      BY DEF Given, Places, DispatchInv
    <3>7. dispatch = <<>> /\ gated = <<>>
      BY <3>5, <3>6, OnceMeans
    <3> QED BY <3>3, <3>7
  <2>6. UNCHANGED fault
    <3>1. pending \o delayed \o dispatch \o gated = <<>>
      BY <2>5
    <3> QED BY <1>2, <2>2, <2>4, <3>1 DEF Trip, Broken
  <2>7. /\ UNCHANGED <<state, retired, detached, outcome, settled, notified, events, started>>
        /\ UNCHANGED <<pending, delayed, delayedCount, dispatch, gated, dispatchCount, conns>>
        /\ UNCHANGED <<free, open, waiters, fetchOf, blocking, held, intercepted>>
    BY <1>2 DEF lvars, cbvars, idle, evars, qvars, dvars, nvars, cvars
  <2>8. CallsInv' /\ On' = {}
    BY <1>2, <1>3, <2>1, AfterPop DEF Given, Places
  <2>9. Workers' = {} /\ Todos' = {}
    BY <2>8 DEF Workers, Todos
  <2>10. UNCHANGED <<Syncs, Saves>>
    <3>1. \A f \in On : f.op = "kill"
      BY <1>3, <2>1
    <3> QED BY <2>8, <3>1 DEF Syncs, Saves
  <2>11. Stays /\ Live' = Live /\ Born' = Born
    BY <2>7, <2>10, SameWhere
  <2>12. UNCHANGED <<Where, Workers>>
    BY <2>1, <2>9, <2>11 DEF Stays
  <2>13. /\ BusyInv' /\ PendingInv' /\ DelayedInv' /\ DispatchInv' /\ PoolInv' /\ StreamInv'
         /\ HeldInv' /\ AnswerInv' /\ BlockInv'
    BY <2>7, <2>10, <2>12, Untouched DEF Given
  <2>14. GateInv'
    <3>1. \A s : Queue(s)' = Queue(s)
      BY <2>1, <2>7, <2>9, <2>12 DEF Queue
    <3>2. \A s \in Slots : Once(waiters'[s], Queue(s)')
      BY <2>7, <3>1 DEF Given, Places, GateInv
    <3>3. \A f \in Fetches : Where'[f] # "none" => fetchOf'[f] \in Slots
      BY <2>3, <2>12 DEF Ids
    <3>4. \A t \in Ids : Where'[t] \notin AtGate
      BY <2>3, <2>12 DEF AtGate
    <3> QED BY <2>4, <2>7, <2>9, <3>2, <3>3, <3>4 DEF GateInv
  <2> QED BY <2>6, <2>8, <2>13, <2>14 DEF Given, Places
<1> QED BY <1>4, <1>5

-----------------------------------------------------------------------------
(* New requests                                                            *)

(* Nobody knows a request that has not been made.                          *)
LEMMA Unborn ==
  ASSUME Given, NEW t \in Reqs, state[t] = "none"
  PROVE  /\ t \in Ids /\ t \notin Fetches /\ t \notin Live /\ t \notin Born
         /\ t \notin held \cup settled \cup notified \cup detached \cup conns \cup retired
         /\ \A f \in Workers : f.id # t
<1>1. t \in Ids /\ t \notin Fetches /\ t \notin Live /\ t \notin Born
  BY Constants DEF Live, Born, Ids
<1>2. t \notin held \cup detached \cup conns \cup retired
  BY <1>1 DEF Given, IInv, Data, Life, Calls, Network, Cdp
<1>3. t \notin settled \cup notified
  BY <1>1 DEF Given, Places, AnswerInv
<1>4. \A f \in Workers : f.id # t
  BY <1>1 DEF Given, Places, BusyInv
<1> QED BY <1>1, <1>2, <1>3, <1>4

(* A new request is in the pipeline, whoever made it.                      *)
LEMMA Begins ==
  ASSUME Given, NEW t \in Reqs, state[t] = "none", NEW g, PipeBegins(t, g),
         UNCHANGED <<pending, delayed, delayedCount, dispatch, gated, dispatchCount,
                     conns, free, open, waiters, fetchOf, held, intercepted, started,
                     Todos, Dying>>
  PROVE  /\ BusyInv' /\ PendingInv' /\ DelayedInv' /\ DispatchInv' /\ PoolInv'
         /\ StreamInv' /\ HeldInv' /\ AnswerInv' /\ GateInv'
<1>1. /\ t \in Ids /\ t \notin Fetches /\ t \notin Live /\ t \notin held
  BY Unborn
<1>2. /\ BusyInv' /\ StreamInv' /\ AnswerInv'
      /\ Moves(t, "created") /\ Live' = Live \cup {t} /\ Where[t] = "none"
  BY <1>1, PipeEnters
<1>3. Shifts({"none", "created"})
  BY <1>1, <1>2, MoveShifts
<1> DEFINE A == {"none", "created"}
<1>4. /\ "queued" \notin A /\ A \cap {"buffered", "inflight"} = {} /\ "delayed" \notin A
      /\ A \cap {"inflight", "delivering", "aborted"} = {}
      /\ A \cap Kept4Cdp = {} /\ A \cap AtGate = {}
  BY DEF Kept4Cdp, AtGate
<1>5. Shifts(A)
  BY <1>3
<1> HIDE DEF A
<1>6. PendingInv' /\ DelayedInv' /\ DispatchInv' /\ PoolInv'
  BY <1>4, <1>5, Shifted DEF Given
<1>7. HeldInv'
  <2>1. \A u \in Live' : IF u \in Live THEN u \in held' <=> u \in held ELSE u \notin held'
    BY <1>1, <1>2
  <2> QED BY <1>4, <1>5, <2>1, HeldElse DEF Given, Places
<1>8. \A u \in Ids : u # t => Where'[u] = Where[u]
  BY <1>1, <1>2, MoveIs
<1> HIDE DEF Where
<1>9. GateInv'
  <2>1. \A f \in Fetches : Where'[f] # "none" <=> Where[f] # "none"
    BY <1>1, <1>8 DEF Ids
  <2>2. \A u \in Live : state[u] \in AtGate => u \in Live' /\ state'[u] \in AtGate
    <3>1. \A u \in Ids : u # t => state'[u] = state[u]
      BY DEF PipeBegins, Given, IInv, Data, Life
    <3> QED BY <1>1, <1>2, <3>1 DEF Live
  <2>3. \A f \in Workers' : f.op = "pipe" /\ f.pc = Submitter /\ f.id \in Fetches =>
          \E h \in Workers : h.op = "pipe" /\ h.pc = Submitter /\ h.id = f.id
    BY <1>1 DEF PipeBegins
  <2>4. \A f \in Fetches : outcome[f] = <<>> => outcome'[f] = <<>>
    BY DEF PipeBegins
  <2> QED BY <1>4, <1>5, <2>1, <2>2, <2>3, <2>4, GateElse DEF Given
<1> QED BY <1>2, <1>6, <1>7, <1>9

(* Client.request.                                                         *)
LEMMA RequestPlaces == ASSUME Given, NEW t \in Reqs, Request(t) PROVE Places'
<1>1. /\ Running("js") /\ state[t] = "none" /\ state' = [state EXCEPT ![t] = "created"]
      /\ stack' = <<Pipe(t, "start", Submitter)>> \o stack
      /\ UNCHANGED <<retired, detached, outcome, settled, notified, events, started>>
      /\ UNCHANGED <<pending, delayed, delayedCount, dispatch, gated, dispatchCount>>
      /\ UNCHANGED <<conns, free, open, waiters, fetchOf, blocking, held, intercepted, fault>>
  BY DEF Request, InJs, cbvars, idle, evars, qvars, dvars, nvars, cvars
<1>2. PICK g : g = Pipe(t, "start", Submitter)
  OBVIOUS
<1>3. g.op = "pipe" /\ g.id = t /\ g.how = "start" /\ g.pc = Submitter
  BY <1>2, Fields
<1>4. /\ On = {Top} \cup Rest /\ Top.op = "js" /\ \A h \in Rest : Over(Top, h)
      /\ \A h \in Workers : h.id # t
  BY <1>1, OnTopView, Unborn DEF Given, Places, Pushes, Rest
<1>5. Submitter # Resumer
  BY DEF Submitter, Resumer
<1>6. Pushes(g, stack)
  <2>1. \A h \in On : Over(g, h)
    BY <1>3, <1>4, <1>5 DEF Over, Working, Workers
  <2> QED BY <1>3, <1>5, <2>1 DEF Pushes, Kind, Reports, On
<1>7. CallsInv' /\ On' = {g} \cup On
  BY <1>1, <1>2, <1>6, AfterPush DEF Given, Places
<1>8. UNCHANGED <<Syncs, Todos, Dying, Saves>>
  BY <1>3, <1>7, HandsView
<1>9. PipeBegins(t, g)
  BY <1>1, <1>3, <1>4, <1>7, <1>8 DEF PipeBegins, Workers, Working
<1>10. /\ BusyInv' /\ PendingInv' /\ DelayedInv' /\ DispatchInv' /\ PoolInv'
       /\ StreamInv' /\ HeldInv' /\ AnswerInv' /\ GateInv'
  BY <1>1, <1>8, <1>9, Begins
<1>11. BlockInv'
  BY <1>1, <1>8, Untouched DEF Given
<1> QED BY <1>1, <1>7, <1>10, <1>11 DEF Given, Places

(* Nothing blocks under a script: submitSync never meets another one.      *)
LEMMA ScriptIsFree ==
  ASSUME Given, Running("js")
  PROVE  Syncs = {} /\ \A o \in Owners : blocking[o] = None
<1>1. On = {Top} \cup Rest /\ Top.op = "js" /\ \A h \in Rest : Over(Top, h)
  BY OnTopView DEF Given, Places, Pushes, Rest
<1>2. \A h \in On : h.op # "sync"
  BY <1>1 DEF Over
<1>3. Syncs = {}
  BY <1>2 DEF Syncs
<1> QED BY <1>3 DEF Given, Places, BlockInv

(* The frames of a blocking request and of its pipeline.                   *)
LEMMA SyncCalls ==
  ASSUME Given, Running("js"), NEW t \in SyncReqs, state[t] = "none", ~OnStack("abort"),
         stack' = <<Pipe(t, "start", Submitter), Sync(t, "pump")>> \o stack
  PROVE  /\ CallsInv' /\ Syncs' = {t} /\ UNCHANGED <<Todos, Dying, Saves>>
         /\ \E g : g.op = "pipe" /\ g.id = t /\ Workers' = Workers \cup {g}
<1>1. t \in Reqs /\ t \in Ids
  BY Constants DEF Ids
<1>2. PICK g, y : g = Pipe(t, "start", Submitter) /\ y = Sync(t, "pump")
  OBVIOUS
<1>3. /\ g.op = "pipe" /\ g.id = t /\ g.how = "start" /\ g.pc = Submitter
      /\ y.op = "sync" /\ y.id = t
  BY <1>2, Fields
<1>4. /\ On = {Top} \cup Rest /\ Top.op = "js" /\ \A h \in Rest : Over(Top, h)
      /\ \A h \in Workers : h.id # t
  BY <1>1, OnTopView, Unborn DEF Given, Places, Pushes, Rest
<1>5. Submitter # Resumer
  BY DEF Submitter, Resumer
<1>6. \A h \in On : h.op # "abort"
  <2>1. DOMAIN stack = 1..Len(stack)
    BY LenProperties DEF Given, Places, CallsInv, Sound
  <2> QED BY <2>1 DEF OnStack, On, FramesIn
<1>7. stack \in Seq(On) /\ Sound(stack)
  BY DEF Given, Places, CallsInv, Sound, On
<1>8. stack' = <<g>> \o (<<y>> \o stack)
  <2> DEFINE S == On \cup {g, y}
  <2>1. stack \in Seq(S) /\ g \in S /\ y \in S
    BY <1>7, SeqGrows
  <2> HIDE DEF S
  <2> QED BY <1>2, <2>1, Two
<1>9. Pushes(y, stack)
  <2>1. \A h \in On : Over(y, h)
    BY <1>3, <1>4, <1>6 DEF Over, Working, Workers
  <2> QED BY <1>3, <2>1 DEF Pushes, Kind, Reports, On
<1>10. PICK r : r = <<y>> \o stack
  OBVIOUS
<1>11. Sound(r) /\ FramesIn(r) = {y} \cup On
  BY <1>7, <1>9, <1>10, SoundPush DEF On
<1>12. Pushes(g, r)
  <2>1. \A h \in On : Over(g, h)
    BY <1>3, <1>4, <1>5 DEF Over, Working, Workers
  <2>2. Over(g, y)
    BY <1>3, <1>5 DEF Over, Working, Silent
  <2> QED BY <1>3, <1>5, <1>11, <2>1, <2>2 DEF Pushes, Kind, Reports
<1>13. Sound(<<g>> \o r) /\ FramesIn(<<g>> \o r) = {g} \cup {y} \cup On
  BY <1>11, <1>12, SoundPush
<1>14. CallsInv' /\ On' = {g, y} \cup On
  BY <1>8, <1>10, <1>13 DEF CallsInv, On
<1>15. Syncs = {}
  BY ScriptIsFree
<1>16. Syncs' = {t}
  <2>1. \A f \in On : f.op # "sync"
    BY <1>4 DEF Over
  <2> QED BY <1>1, <1>3, <1>14, <2>1 DEF Syncs
<1>17. UNCHANGED <<Todos, Dying, Saves>>
  BY <1>3, <1>14 DEF Todos, Dying, Saves
<1>18. Workers' = Workers \cup {g}
  BY <1>3, <1>14 DEF Workers, Working
<1> QED BY <1>3, <1>14, <1>16, <1>17, <1>18

(* Transfer.submitSync.                                                    *)
LEMMA SyncRequestPlaces == ASSUME Given, NEW t \in Reqs, SyncRequest(t) PROVE Places'
<1>1. /\ Running("js") /\ t \in SyncReqs /\ state[t] = "none"
      /\ state' = [state EXCEPT ![t] = "created"]
      /\ UNCHANGED <<detached, settled, notified, events, started>>
      /\ UNCHANGED <<pending, delayed, delayedCount, dispatch, gated, dispatchCount>>
      /\ UNCHANGED <<conns, free, open, waiters, fetchOf, held, intercepted>>
  BY DEF SyncRequest, InJs, evars, qvars, dvars, nvars, gvars, cvars
<1>2. /\ t \in Ids /\ t \notin Fetches /\ t \notin Live /\ t \notin Born
      /\ t \notin held \cup settled \cup notified \cup detached \cup conns \cup retired
      /\ \A f \in Workers : f.id # t
  BY <1>1, Unborn
<1>3. /\ Syncs = {} /\ \A o \in Owners : blocking[o] = None
  BY <1>1, ScriptIsFree
<1>4. CASE TearingDown
  <2>1. /\ retired' = retired \cup {t} /\ outcome' = [outcome EXCEPT ![t] = <<"err">>]
        /\ UNCHANGED <<owner, blocking, stack, fault>>
    BY <1>4 DEF SyncRequest
  <2>2. UNCHANGED <<Workers, Syncs, Todos, Dying, Saves>> /\ CallsInv'
    BY <2>1, SameStack DEF Given, Places
  <2>3. \A u \in Ids : u # t => state'[u] = state[u] /\ outcome'[u] = outcome[u]
    BY <1>1, <2>1 DEF Given, IInv, Data, Life, Calls
  <2>4. Live' = Live
    <3>1. state'[t] # "none" /\ t \in retired'
      BY <1>1, <1>2, <2>1 DEF Given, IInv, Data, Life
    <3> QED BY <1>2, <2>1, <2>3, <3>1 DEF Live
  <2>5. Stays
    <3>1. \A u \in Ids : Where'[u] = Where[u]
      <4> SUFFICES ASSUME NEW u \in Ids PROVE Where'[u] = Where[u]
        OBVIOUS
      <4>1. u # t => state'[u] = state[u]
        BY <2>3
      <4> QED BY <1>2, <2>2, <2>4, <4>1 DEF Where
    <3>2. Where' = [u \in Ids |-> Where'[u]] /\ Where = [u \in Ids |-> Where[u]]
      BY DEF Where
    <3> HIDE DEF Where
    <3> QED BY <3>1, <3>2 DEF Stays
  <2>6. UNCHANGED Where
    BY <2>5 DEF Stays
  <2> HIDE DEF Where
  <2>7. PendingInv' /\ DelayedInv' /\ DispatchInv' /\ PoolInv' /\ BlockInv'
    BY <1>1, <2>1, <2>2, <2>6, Untouched DEF Given
  <2>8. HeldInv'
    BY <1>1, <2>4, <2>6 DEF Given, Places, HeldInv
  <2>9. BusyInv'
    <3>1. \A u \in Live : u # t /\ state'[u] = state[u]
      BY <1>2, <2>3 DEF Live
    <3> QED BY <1>1, <2>2, <2>4, <3>1 DEF Given, Places, BusyInv
  <2>10. StreamInv'
    <3>1. \A u \in Ids \ retired' : u # t /\ u \in Ids \ retired /\ state'[u] = state[u]
      BY <2>1, <2>3
    <3>2. \A f \in Workers : state'[f.id] = state[f.id]
      BY <2>3, <1>2 DEF Given, Places, BusyInv, Live
    <3> QED BY <1>1, <2>2, <2>6, <3>1, <3>2 DEF Given, Places, StreamInv, Terminal
  <2>11. AnswerInv'
    <3>1. outcome'[t] # <<>>
      BY <1>2, <2>1 DEF Given, IInv, Data, Calls
    <3>2. Born' = Born \cup {t}
      <4>1. state'[t] # "none"
        BY <1>1, <1>2 DEF Given, IInv, Data, Life
      <4> QED BY <1>2, <2>3, <4>1 DEF Born
    <3>3. \A u \in Live : u # t /\ state'[u] = state[u]
      BY <1>2, <2>3 DEF Live
    <3>4. \A f \in Workers : state'[f.id] = state[f.id]
      BY <3>3 DEF Given, Places, BusyInv
    <3>5. retired \subseteq Ids /\ settled \subseteq Ids
      BY DEF Given, IInv, Data, Life, Calls, Born
    <3> QED BY <1>1, <1>2, <2>1, <2>2, <2>3, <2>4, <3>1, <3>2, <3>3, <3>4, <3>5
         DEF Given, Places, AnswerInv
  <2>12. GateInv'
    <3> DEFINE A == {}
    <3>1. Shifts(A) /\ A \cap AtGate = {}
      BY <2>6, WhereTable DEF Shifts
    <3>2. \A f \in Fetches : outcome[f] = <<>> => outcome'[f] = <<>>
      BY <1>2, <2>3 DEF Ids
    <3>3. \A u \in Live : state[u] \in AtGate => u \in Live' /\ state'[u] \in AtGate
      BY <1>2, <2>3, <2>4 DEF Live
    <3> HIDE DEF A
    <3> QED BY <1>1, <2>1, <2>2, <2>6, <3>1, <3>2, <3>3, GateElse DEF Given
  <2> QED BY <2>1, <2>2, <2>7, <2>8, <2>9, <2>10, <2>11, <2>12 DEF Given, Places
<1>5. CASE ~TearingDown
  <2>1. /\ ~OnStack("abort") /\ blocking' = [blocking EXCEPT ![OwnerOf[t]] = t]
        /\ Trip("clobber", blocking[OwnerOf[t]] # None)
        /\ stack' = <<Pipe(t, "start", Submitter), Sync(t, "pump")>> \o stack
        /\ UNCHANGED <<retired, outcome>>
    BY <1>5 DEF SyncRequest, SafeToPump, Given, Careful
  <2>2. OwnerOf[t] \in Owners
    BY Constants
  <2>3. UNCHANGED fault
    BY <1>3, <2>1, <2>2 DEF Trip, Broken
  <2>4. CallsInv' /\ Syncs' = {t} /\ UNCHANGED <<Todos, Dying, Saves>>
    BY <1>1, <2>1, SyncCalls
  <2>5. PICK g : g.op = "pipe" /\ g.id = t /\ Workers' = Workers \cup {g}
    BY <1>1, <2>1, SyncCalls
  <2>6. PipeBegins(t, g)
    BY <1>1, <1>2, <2>1, <2>4, <2>5 DEF PipeBegins
  <2>7. /\ BusyInv' /\ PendingInv' /\ DelayedInv' /\ DispatchInv' /\ PoolInv'
        /\ StreamInv' /\ HeldInv' /\ AnswerInv' /\ GateInv'
    BY <1>1, <2>4, <2>6, Begins
  <2>8. BlockInv'
    <3>1. blocking \in [Owners -> Ids \cup {None}]
      BY DEF Given, IInv, Data, Blocks
    <3>2. \A o \in Owners : blocking'[o] = IF o = OwnerOf[t] THEN t ELSE None
      BY <1>3, <2>1, <3>1
    <3> QED BY <2>2, <2>4, <3>2 DEF BlockInv
  <2> QED BY <2>3, <2>4, <2>7, <2>8 DEF Given, Places
<1> QED BY <1>4, <1>5

(* A buffering step that touches no gate.                                  *)
LEMMA BuffersPlaces ==
  ASSUME Given, NEW t, NEW evs \in Ending, Buffers(t, evs), state[t] = "inflight",
         CallsInv', UNCHANGED <<Syncs, Todos, Dying>>,
         UNCHANGED <<open, waiters, fetchOf, blocking, held, intercepted, fault>>
  PROVE  Places'
<1>1. /\ BusyInv' /\ StreamInv' /\ AnswerInv'
      /\ PendingInv' /\ DelayedInv' /\ DispatchInv' /\ PoolInv'
      /\ Moves(t, "buffered") /\ Live' = Live /\ t \in Ids /\ Where[t] = "inflight"
      /\ GateInv'
  BY BuffersKeep DEF AtGate
<1>2. HeldInv'
  <2> DEFINE A == {"inflight", "buffered"}
  <2>1. Shifts(A)
    BY <1>1, MoveShifts
  <2>2. A \cap Kept4Cdp = {}
    BY DEF Kept4Cdp
  <2> HIDE DEF A
  <2> QED BY <1>1, <2>1, <2>2, HeldElse DEF Given, Places
<1>3. BlockInv'
  BY Untouched DEF Given
<1> QED BY <1>1, <1>2, <1>3 DEF Given, Places

(* window.stop().                                                          *)
LEMMA StopLoadingPlaces == ASSUME Given, NEW o \in Owners, StopLoading(o) PROVE Places'
<1>1. PICK ids : ids = {t \in Reqs : state[t] # "none"}
  OBVIOUS
<1>2. /\ Running("js") /\ stack' = <<Stop(o, ids)>> \o stack
      /\ UNCHANGED <<retired, owner, outcome, settled, notified, detached>>
      /\ UNCHANGED <<started, hops, pending, delayed, delayedCount, open, waiters, fetchOf>>
      /\ UNCHANGED <<blocking, held, intercepted>>
      /\ \/ UNCHANGED <<state, events, dispatch, gated, dispatchCount, conns, free, fault>>
         \/ \E t \in Reqs : /\ owner[t] = o /\ CanFinishEarly(t)
                            /\ removeConn(t)
                            /\ scheduleDispatch(t, "inflight", <<"data", "done">>, {})
  BY <1>1 DEF StopLoading, InJs, cbvars, qvars, gvars, cvars, dvars, nvars
<1>3. On = {Top} \cup Rest /\ Top.op = "js" /\ \A g \in Rest : Over(Top, g)
  BY <1>2, OnTopView DEF Given, Places, Pushes, Rest
<1>4. PICK f : f = Stop(o, ids)
  OBVIOUS
<1>5. f.op = "stop" /\ f.id = o
  BY <1>4, Fields
<1>6. Pushes(f, stack)
  <2>1. \A g \in On : Over(f, g)
    BY <1>3, <1>5 DEF Over, Working
  <2> QED BY <1>5, <2>1 DEF Pushes, Kind, Reports, On
<1>7. CallsInv' /\ UNCHANGED View
  BY <1>2, <1>4, <1>5, <1>6, PlainPush DEF Given, Places, Plain
<1>8. CASE UNCHANGED <<state, events, dispatch, gated, dispatchCount, conns, free, fault>>
  BY <1>2, <1>7, <1>8, PlainStep DEF Given, lvars, cbvars, evars, qvars, dvars, nvars, cvars
<1>9. ASSUME NEW t \in Reqs, owner[t] = o, CanFinishEarly(t), removeConn(t),
             scheduleDispatch(t, "inflight", <<"data", "done">>, {})
      PROVE  Places'
  <2>1. t \in Live
    BY <1>9, Constants DEF Given, IInv, OwnerLinks, Ids
  <2>2. state[t] = "inflight"
    BY <1>9 DEF CanFinishEarly
  <2>3. \A g \in Workers : g.op # "pipe"
    BY <1>3 DEF Over, Workers, Working
  <2>4. \A g \in Workers : g.id # t
    BY <2>2, <2>3 DEF Given, Places, BusyInv
  <2>5. PICK evs \in Ending : evs = <<"data", "done">>
    BY DEF Ending
  <2>6. /\ state' = [state EXCEPT ![t] = "buffered"] /\ UNCHANGED fault
        /\ events' = [events EXCEPT ![t] = @ \o evs]
        /\ \/ Linked(t) /\ UNCHANGED <<dispatch, gated, dispatchCount>>
           \/ /\ ~Linked(t) /\ dispatch' = Append(dispatch, t)
              /\ dispatchCount' = dispatchCount + 1 /\ UNCHANGED gated
    BY <1>9, <2>5, SchedulesIs
  <2>7. Buffers(t, evs)
    BY <1>2, <1>7, <1>9, <2>1, <2>2, <2>4, <2>6 DEF Buffers, View
  <2> QED BY <1>2, <1>7, <2>2, <2>6, <2>7, BuffersPlaces DEF View
<1> QED BY <1>2, <1>8, <1>9

(* BrowserContext.deinit.                                                  *)
LEMMA AbortHeldPlaces == ASSUME Given, NEW t \in Ids, AbortHeld(t) PROVE Places'
<1>1. /\ stack = <<>> /\ t \in held /\ held' = held \ {t}
      /\ UNCHANGED <<retired, outcome, settled, notified, detached, started, stack>>
      /\ UNCHANGED <<pending, delayed, delayedCount, conns, free, open, waiters, fetchOf, blocking>>
      /\ IF t \in Live
         THEN leaveIntercept(state[t]) /\ scheduleDispatch(t, "created", <<"err">>, NotParked(t))
         ELSE UNCHANGED <<state, events, dispatch, gated, dispatchCount, intercepted, fault>>
  BY DEF AbortHeld, Exiting, cbvars, qvars, nvars, gvars, dvars
<1>2. UNCHANGED <<Workers, Syncs, Todos, Dying, Saves>> /\ CallsInv'
  BY <1>1, SameStack DEF Given, Places
<1>3. On = {}
  BY <1>1, SoundEmpty DEF On
<1>4. Workers = {} /\ Saves[t] = {}
  BY <1>3 DEF Workers, Saves
<1>5. BlockInv'
  BY <1>1, <1>2, Untouched DEF Given
<1>6. CASE t \in Live
  <2>1. Where[t] = state[t]
    BY <1>4, <1>6, WhereIs
  <2> HIDE DEF Where
  <2>2. state[t] \in Kept4Cdp
    BY <1>1, <1>6, <2>1 DEF Given, Places, HeldInv
  <2>3. t \notin conns
    BY <2>1, <2>2 DEF Given, Places, PoolInv, Kept4Cdp
  <2>4. NotParked(t) = {}
    BY <2>2 DEF NotParked, Broken, Parked, Kept4Cdp
  <2>5. PICK evs \in Ending : evs = <<"err">>
    BY DEF Ending
  <2>6. /\ state' = [state EXCEPT ![t] = "buffered"] /\ UNCHANGED fault
        /\ events' = [events EXCEPT ![t] = @ \o evs]
        /\ \/ Linked(t) /\ UNCHANGED <<dispatch, gated, dispatchCount>>
           \/ /\ ~Linked(t) /\ dispatch' = Append(dispatch, t)
              /\ dispatchCount' = dispatchCount + 1 /\ UNCHANGED gated
    BY <1>1, <1>6, <2>4, <2>5, SchedulesIs
  <2>7. removeConn(t)
    BY <1>1, <2>3, NoConn DEF Given
  <2>8. Buffers(t, evs)
    <3>1. state[t] \in Parked
      BY <2>2 DEF Kept4Cdp, Parked
    <3> QED BY <1>1, <1>2, <1>4, <1>6, <2>6, <2>7, <3>1 DEF Buffers
  <2>9. /\ BusyInv' /\ StreamInv' /\ AnswerInv'
        /\ PendingInv' /\ DelayedInv' /\ DispatchInv' /\ PoolInv'
        /\ Moves(t, "buffered") /\ Live' = Live /\ GateInv'
    BY <1>1, <1>2, <2>2, <2>8, BuffersKeep DEF AtGate, Kept4Cdp
  <2>10. HeldInv'
    <3>1. intercepted' = (intercepted + 0) - 1
      BY <1>1, <1>6, <2>2 DEF Given, IInv, Data, Cdp, leaveIntercept, Kept4Cdp
    <3> QED BY <1>1, <2>1, <2>2, <2>9, <3>1, HeldMoves DEF Given, Places, Kept4Cdp
  <2> QED BY <1>2, <1>5, <2>6, <2>9, <2>10 DEF Given, Places
<1>7. CASE t \notin Live
  <2>1. /\ UNCHANGED <<state, events, dispatch, gated, dispatchCount, intercepted, fault>>
    BY <1>1, <1>7
  <2>2. Stays /\ Live' = Live
    BY <1>1, <1>2, <2>1, SameWhere
  <2>3. UNCHANGED Where
    BY <2>2 DEF Stays
  <2> HIDE DEF Where
  <2>4. /\ BusyInv' /\ PendingInv' /\ DelayedInv' /\ DispatchInv' /\ PoolInv' /\ StreamInv'
        /\ AnswerInv' /\ GateInv'
    BY <1>1, <1>2, <2>1, <2>3, Untouched DEF Given
  <2>5. HeldInv'
    BY <1>1, <1>7, <2>1, <2>2, <2>3 DEF Given, Places, HeldInv
  <2> QED BY <1>2, <1>5, <2>1, <2>4, <2>5 DEF Given, Places
<1> QED BY <1>6, <1>7

(* A blocking request returns, and its owner may block again.              *)
LEMMA SyncReturnPlaces == ASSUME Given, SyncReturn PROVE Places'
<1>1. PICK t, o : t = Top.id /\ o = OwnerOf[t]
  OBVIOUS
<1>2. /\ Running("sync") /\ blocking' = [blocking EXCEPT ![o] = None]
      /\ stack' = <<Release(o)>> \o Below
      /\ UNCHANGED <<state, retired, outcome, settled, notified, detached, events, started>>
      /\ UNCHANGED <<pending, delayed, delayedCount, dispatch, gated, dispatchCount>>
      /\ UNCHANGED <<conns, free, open, waiters, fetchOf, held, intercepted, fault>>
  BY <1>1 DEF SyncReturn, lvars, cbvars, evars, qvars, dvars, nvars, gvars, cvars
<1>3. /\ stack # <<>> /\ Top.op = "sync" /\ On = {Top} \cup Rest /\ Pushes(Top, Below)
  BY <1>2, OnTopView DEF Given, Places
<1>4. t \in Ids /\ t \in SyncReqs /\ o \in Owners
  BY <1>1, <1>3, Constants DEF Pushes, Kind, Ids
<1>5. \A g \in Rest : Over(Top, g)
  BY <1>3 DEF Pushes, Rest
<1>6. PICK f : f = Release(o)
  OBVIOUS
<1>7. f.op = "release" /\ f.id = o
  BY <1>6, Fields
<1>8. Pushes(f, Below)
  <2>1. \A g \in Rest : Over(f, g)
    BY <1>3, <1>5, <1>7 DEF Over, Working
  <2> QED BY <1>4, <1>7, <2>1 DEF Pushes, Kind, Reports, Rest
<1>9. CallsInv' /\ On' = {f} \cup Rest
  BY <1>2, <1>3, <1>6, <1>8, AfterSwap DEF Given, Places
<1>10. UNCHANGED <<Workers, Todos, Dying, Saves>>
  BY <1>3, <1>7, <1>9 DEF Workers, Working, Todos, Dying, Saves
<1>11. Syncs = {t} /\ Syncs' = {}
  <2>1. \A g \in Rest : g.op # "sync"
    BY <1>3, <1>5 DEF Over
  <2> QED BY <1>1, <1>3, <1>4, <1>7, <1>9, <2>1 DEF Syncs
<1>12. BlockInv'
  <2>1. blocking \in [Owners -> Ids \cup {None}]
    BY DEF Given, IInv, Data, Blocks
  <2>2. ASSUME NEW p \in Owners PROVE blocking'[p] = None
    <3>1. blocking[p] # None => p = o
      BY <1>1, <1>11 DEF Given, Places, BlockInv
    <3> QED BY <1>2, <2>1, <3>1
  <2> QED BY <1>11, <2>2 DEF BlockInv
<1>13. Stays /\ Live' = Live
  BY <1>2, <1>10, SameWhere
<1>14. UNCHANGED Where
  BY <1>13 DEF Stays
<1> HIDE DEF Where
<1>15. /\ BusyInv' /\ PendingInv' /\ DelayedInv' /\ DispatchInv' /\ PoolInv' /\ StreamInv'
       /\ HeldInv' /\ AnswerInv' /\ GateInv'
  BY <1>2, <1>10, <1>14, Untouched DEF Given
<1> QED BY <1>2, <1>9, <1>12, <1>15 DEF Given, Places

-----------------------------------------------------------------------------
(* Places is an invariant                                                  *)

(* At the start there is nothing.                                          *)
LEMMA InitPlaces == Init => Places
<1> SUFFICES ASSUME Init PROVE Places
  OBVIOUS
<1>1. /\ state = [t \in Ids |-> "none"] /\ retired = {} /\ events = [t \in Ids |-> <<>>]
      /\ started = {} /\ outcome = [t \in Ids |-> <<>>]
      /\ settled = {} /\ notified = {} /\ detached = {}
      /\ pending = <<>> /\ delayed = <<>> /\ delayedCount = 0
      /\ dispatch = <<>> /\ gated = <<>> /\ dispatchCount = 0 /\ conns = {} /\ free = Conns
      /\ open = {} /\ waiters = [s \in Slots |-> <<>>] /\ blocking = [o \in Owners |-> None]
      /\ held = {} /\ intercepted = 0 /\ fault = {} /\ stack = <<>>
  BY DEF Init
<1>2. CallsInv /\ On = {}
  BY <1>1, SoundEmpty DEF CallsInv, On
<1>3. Workers = {} /\ Syncs = {} /\ Todos = {}
  BY <1>2 DEF Workers, Syncs, Todos
<1>4. Live = {} /\ \A t \in Ids : Where[t] = "none"
  <2>1. Live = {}
    BY <1>1 DEF Live
  <2> QED BY <2>1, WhereIs
<1> HIDE DEF Where
<1>5. BusyInv
  BY <1>3, <1>4 DEF BusyInv
<1>6. \A l : l # "none" => {t \in Ids : Where[t] = l} = {}
  BY <1>4
<1>7. PendingInv
  BY <1>1, <1>6, OnceEmpty DEF PendingInv
<1>8. DelayedInv
  <2>1. Len(<<>>) = 0
    OBVIOUS
  <2> QED BY <1>1, <1>6, <2>1, OnceEmpty DEF DelayedInv
<1>9. DispatchInv
  <2>1. ToSet(<<>>) = {} /\ Len(<<>>) = 0
    BY OnceEmpty, OnceMeans
  <2>2. InDispatch = {} /\ InGated = {}
    BY <1>1, <2>1 DEF InDispatch, InGated
  <2>3. Once(dispatch, InDispatch) /\ Once(gated, InGated)
    BY <1>1, <2>2, OnceEmpty
  <2>4. dispatchCount = Len(dispatch) + Len(gated)
    BY <1>1, <2>1
  <2> QED BY <1>4, <2>2, <2>3, <2>4 DEF DispatchInv
<1>10. PoolInv
  <2>1. Cardinality({}) = 0 /\ Conns \in Nat
    BY FS_EmptySet, Constants
  <2> QED BY <1>1, <1>4, <2>1 DEF PoolInv
<1>11. StreamInv
  <2>1. \A t \in Ids : ~Terminal(events[t])
    BY <1>1 DEF Terminal
  <2> QED BY <1>3, <1>4, <2>1 DEF StreamInv
<1>12. HeldInv
  <2>1. Cardinality({}) = 0 /\ {t \in Ids : Where[t] \in Kept4Cdp} = {}
    BY <1>4, FS_EmptySet DEF Kept4Cdp
  <2> QED BY <1>1, <1>4, <2>1 DEF HeldInv
<1>13. AnswerInv
  BY <1>1, <1>3, <1>4 DEF AnswerInv
<1>14. BlockInv
  BY <1>1, <1>3 DEF BlockInv
<1>15. GateInv
  <2>1. \A s : Queue(s) = {}
    BY <1>1 DEF Queue
  <2>2. \A s \in Slots : Once(waiters[s], Queue(s))
    BY <1>1, <2>1, OnceEmpty
  <2>3. \A t \in Ids : Where[t] \notin AtGate
    BY <1>4 DEF AtGate
  <2>4. Fetches \subseteq Ids
    BY DEF Ids
  <2> QED BY <1>1, <1>3, <1>4, <2>2, <2>3, <2>4 DEF GateInv
<1> QED BY <1>1, <1>2, <1>5, <1>7, <1>8, <1>9, <1>10, <1>11, <1>12, <1>13, <1>14, <1>15 DEF Places

(* The steps of the runner's loop and of the world keep it,                *)
LEMMA LoopPlaces == ASSUME Given, Loop \/ World \/ Exited PROVE Places'
BY RunTaskPlaces, TickBeginPlaces, WorldPlaces, ExitPlaces, AbortHeldPlaces
DEF Loop, World, Exited

(* the scripts,                                                            *)
LEMMA ScriptPlaces == ASSUME Given, Script PROVE Places'
<1>1. CASE Return \/ JsFail
  BY <1>1, PopsPlain, JsFailPlaces
<1>2. CASE \E t \in Reqs : Request(t) \/ SyncRequest(t) \/ ImportModule(t) \/ Cancel(t)
  BY <1>2, RequestPlaces, SyncRequestPlaces, ImportModulePlaces, CancelPlaces
<1>3. CASE \E o \in Owners : AbortOwner(o) \/ StopLoading(o)
  BY <1>3, AbortOwnerPlaces, StopLoadingPlaces
<1> QED BY <1>1, <1>2, <1>3 DEF Script

(* the teardowns,                                                          *)
LEMMA TeardownPlaces == ASSUME Given, Teardown PROVE Places'
BY KillEndPlaces, PopsPlain, AbortEndPlaces, KillOnePlaces, StopOnePlaces DEF Teardown

(* the pipeline,                                                           *)
LEMMA PipelinePlaces == ASSUME Given, Pipeline PROVE Places'
BY PipeStartPlaces, PipeAfterInterceptPlaces, PipeAfterCorsPlaces, PipeThrottlePlaces,
   PipeNetworkPlaces, PipeThrowPlaces, PipeFailedPlaces, FlushOnePlaces, PopsPlain
DEF Pipeline

(* the tick,                                                               *)
LEMMA TickingPlaces == ASSUME Given, Ticking PROVE Places'
<1>1. CASE TickUngate \/ TickDispatch \/ TickDispatchEnd \/ TickDelayed
           \/ TickPending \/ TickStep \/ DrainTeardown
  BY <1>1, TickUngatePlaces, TickDispatchPlaces, TickMovesPlaces, TickDelayedPlaces,
     TickPendingPlaces, DrainTeardownPlaces
<1>2. CASE \E t \in Ids : Process(t)
  BY <1>2, StreamChunkPlaces, ProcessOneMessagePlaces, ProcessRedirectPlaces,
     ProcessAuthPlaces DEF Process
<1>3. CASE \E t \in Ids : Answer(t)
  BY <1>3, AnswerResumePlaces, AnswerBufferPlaces, AnswerNothingPlaces DEF Answer
<1> QED BY <1>1, <1>2, <1>3 DEF Ticking

(* and the deliveries and blocking requests.                               *)
LEMMA DeliveryPlaces == ASSUME Given, Delivery \/ Waiting PROVE Places'
BY DeliverDataPlaces, DeliverDonePlaces, DeliverErrPlaces, DeliverEndPlaces,
   finishDeliveryPlaces, PumpPlaces, SyncAbortPlaces, SyncReturnPlaces,
   ReleaseOnePlaces, PopsPlain
DEF Delivery, Waiting

(* and so do all steps.                                                    *)
LEMMA NextPlaces == ASSUME Given, [Next]_vars PROVE Places'
BY LoopPlaces, ScriptPlaces, TeardownPlaces, PipelinePlaces, TickingPlaces,
   DeliveryPlaces, WorldPlaces DEF Next

-----------------------------------------------------------------------------
(* The events of a transfer and what it is told                            *)

(* What a step leaves of OrderInv for t ...                                *)
Follows(t) ==
  \/ t \in retired'
  \/ /\ t \notin retired /\ events'[t] = events[t] /\ outcome'[t] = outcome[t]
     /\ t \in conns' => t \in conns
  \/ Sorted(events'[t]) /\ outcome'[t] # <<"done">>
  \/ events'[t] = <<>> /\ t \notin conns'

(* ... and how much it tells its consumer: nothing, or the first word.     *)
Terse(t) == outcome'[t] = outcome[t] \/ Len(outcome'[t]) <= 1

Orderly == \A t \in Ids : Follows(t) /\ (Hazards = {} => Terse(t))

(* What is left of sorted events is sorted, and nothing follows the end.   *)
LEMMA SortedRest ==
  ASSUME NEW e \in Seq({"data", "done", "err"}), e # <<>>, Sorted(e)
  PROVE  /\ Sorted(Tail(e))
         /\ Head(e) # "data" => Tail(e) = <<>> /\ Terminal(e)
<1>1. /\ Len(e) \in Nat /\ Len(e) >= 1 /\ Head(e) = e[1]
      /\ Tail(e) \in Seq({"data", "done", "err"}) /\ Len(Tail(e)) = Len(e) - 1
      /\ \A i \in 1..Len(Tail(e)) : Tail(e)[i] = e[i + 1]
  OBVIOUS
<1>2. PICK r \in Seq({"data", "done", "err"}) : r = Tail(e)
  BY <1>1
<1>3. Sorted(r)
  BY <1>1, <1>2 DEF Sorted
<1>4. ASSUME Head(e) # "data" PROVE r = <<>> /\ Terminal(e)
  <2>1. Len(e) = 1
    BY <1>1, <1>4 DEF Sorted
  <2>2. Len(r) = 0
    BY <1>1, <1>2, <2>1
  <2>3. r = <<>>
    BY <2>2
  <2>4. e[1] \in {"data", "done", "err"}
    BY <1>1
  <2> QED BY <1>1, <1>4, <2>1, <2>3, <2>4 DEF Terminal, Last
<1> QED BY <1>2, <1>3, <1>4

(* What is added before the end.                                           *)
LEMMA SortedGrows ==
  ASSUME NEW e \in Seq({"data", "done", "err"}), Sorted(e), ~Terminal(e),
         NEW evs \in Ending \cup {<<"data">>}
  PROVE  Sorted(e \o evs)
<1>1. \A i \in 1..Len(e) : e[i] = "data"
  <2> SUFFICES ASSUME NEW i \in 1..Len(e) PROVE e[i] = "data"
    OBVIOUS
  <2>1. Len(e) \in Nat /\ e # <<>> /\ e[i] \in {"data", "done", "err"}
    OBVIOUS
  <2>2. i = Len(e) => e[i] = "data"
    BY <2>1 DEF Terminal, Last
  <2> QED BY <2>1, <2>2 DEF Sorted
<1>2. /\ evs \in Seq({"data", "done", "err"}) /\ Len(evs) \in {1, 2}
      /\ \A i \in 1..Len(evs) : i < Len(evs) => evs[i] = "data"
  <2>1. evs \in {<<"data">>, <<"err">>, <<"done">>, <<"data", "done">>}
    BY DEF Ending
  <2>2. CASE evs = <<"data", "done">>
    BY <2>2
  <2>3. CASE evs \in {<<"data">>, <<"err">>, <<"done">>}
    <3>1. PICK w \in {"data", "done", "err"} : evs = <<w>>
      BY <2>3
    <3> QED BY <3>1
  <2> QED BY <2>1, <2>2, <2>3
<1>3. /\ Len(e) \in Nat /\ Len(e \o evs) = Len(e) + Len(evs)
      /\ \A i \in 1..Len(e) : (e \o evs)[i] = e[i]
      /\ \A i \in 1..Len(evs) : (e \o evs)[Len(e) + i] = evs[i]
  BY <1>2
<1>4. ASSUME NEW i \in 1..Len(e \o evs), i < Len(e \o evs) PROVE (e \o evs)[i] = "data"
  <2>1. CASE i <= Len(e)
    BY <1>1, <1>3, <2>1
  <2>2. CASE i > Len(e)
    <3>1. PICK j \in 1..Len(evs) : i = Len(e) + j
      <4>1. i - Len(e) \in 1..Len(evs) /\ i = Len(e) + (i - Len(e))
        BY <1>2, <1>3, <2>2
      <4> QED BY <4>1
    <3>2. j < Len(evs)
      BY <1>2, <1>3, <1>4, <3>1
    <3> QED BY <1>2, <1>3, <3>1, <3>2
  <2> QED BY <1>3, <2>1, <2>2
<1> QED BY <1>4 DEF Sorted

(* A step that keeps to one transfer.                                      *)
Within(t) ==
  /\ retired' \in {retired, retired \cup {t}, retired \ {t}}
  /\ \A u \in Ids \ {t} : /\ events'[u] = events[u] /\ outcome'[u] = outcome[u]
                          /\ u \in conns' => u \in conns

(* Such a step is orderly when it is for that one.                         *)
LEMMA WithinOrderly ==
  ASSUME NEW t \in Ids, Within(t), Follows(t), Hazards = {} => Terse(t)
  PROVE  Orderly
<1> SUFFICES ASSUME NEW u \in Ids PROVE Follows(u) /\ (Hazards = {} => Terse(u))
  BY DEF Orderly
<1>1. CASE u = t
  BY <1>1
<1>2. CASE u # t
  BY <1>2 DEF Within, Follows, Terse
<1> QED BY <1>1, <1>2

(* So is a step that does none of this,                                    *)
LEMMA SameOrderly ==
  ASSUME UNCHANGED <<events, outcome, retired>>, conns' \subseteq conns
  PROVE  Orderly
BY DEF Orderly, Follows, Terse

(* and what is orderly keeps the order.                                    *)
LEMMA OrderlyKeeps == ASSUME Given, Orderly PROVE OrderInv'
<1> SUFFICES ASSUME NEW t \in Ids, t \notin retired'
             PROVE  /\ Sorted(events[t])'
                    /\ outcome'[t] = <<"done">> => events'[t] = <<>> /\ t \notin conns'
  BY DEF OrderInv
<1>1. Follows(t) /\ (t \notin retired => Sorted(events[t]))
  BY DEF Orderly, Given, OrderInv
<1>2. CASE /\ t \notin retired /\ events'[t] = events[t] /\ outcome'[t] = outcome[t]
           /\ t \in conns' => t \in conns
  BY <1>1, <1>2 DEF Given, OrderInv, Sorted
<1>3. CASE Sorted(events'[t]) /\ outcome'[t] # <<"done">>
  BY <1>3 DEF Sorted
<1>4. CASE events'[t] = <<>> /\ t \notin conns'
  BY <1>4 DEF Sorted
<1> QED BY <1>1, <1>2, <1>3, <1>4 DEF Follows

(* A transfer that can still be told, or still get events, has not been    *)
(* answered.                                                               *)
LEMMA NotEnded ==
  ASSUME Given, NEW t \in Live
  PROVE  /\ t \in Ids /\ t \notin retired /\ Sorted(events[t])
         /\ t \notin settled <=> outcome[t] = <<>>
         /\ state[t] \notin {"delivering", "aborted"} => outcome[t] = <<>>
         /\ t \in conns \/ state[t] \notin {"buffered", "delivering", "aborted"} =>
              ~Terminal(events[t]) /\ outcome[t] # <<"done">>
<1>1. t \in Ids /\ t \notin retired
  BY DEF Live
<1>2. t \notin settled <=> outcome[t] = <<>>
  BY <1>1 DEF Given, Places, AnswerInv
<1>3. t \in settled => state[t] \in {"delivering", "aborted"}
  BY DEF Given, Places, AnswerInv
<1>4. Sorted(events[t]) /\ (t \in conns => outcome[t] # <<"done">>)
  BY <1>1 DEF Given, OrderInv
<1>5. t \in conns \/ state[t] \notin {"buffered", "delivering", "aborted"} =>
        ~Terminal(events[t])
  BY <1>1 DEF Given, Places, StreamInv
<1>6. state[t] \notin {"delivering", "aborted"} => outcome[t] = <<>>
  BY <1>2, <1>3
<1>7. outcome[t] = <<>> => outcome[t] # <<"done">>
  OBVIOUS
<1> QED BY <1>1, <1>2, <1>4, <1>5, <1>6, <1>7

(* The types of both.                                                      *)
LEMMA TellTypes ==
  ASSUME IInv
  PROVE  /\ events \in [Ids -> Seq({"data", "done", "err"})]
         /\ outcome \in [Ids -> Seq({"done", "err", "shutdown"})]
BY DEF IInv, Data, Buffered, Calls

(* Events are added for the dispatcher.                                    *)
LEMMA AddsEvents ==
  ASSUME Given, NEW t \in Live, UNCHANGED <<retired, outcome>>, conns' \subseteq conns,
         NEW evs \in Ending \cup {<<"data">>}, events' = [events EXCEPT ![t] = @ \o evs],
         t \in conns \/ state[t] \notin {"buffered", "delivering", "aborted"}
  PROVE  Orderly
<1>1. /\ t \in Ids /\ Sorted(events[t]) /\ ~Terminal(events[t]) /\ outcome[t] # <<"done">>
  BY NotEnded
<1>2. /\ events'[t] = events[t] \o evs /\ \A u \in Ids \ {t} : events'[u] = events[u]
      /\ events[t] \in Seq({"data", "done", "err"})
  BY <1>1, TellTypes DEF Given
<1>3. Sorted(events[t] \o evs)
  BY <1>1, <1>2, SortedGrows
<1>4. Follows(t) /\ Terse(t)
  BY <1>1, <1>2, <1>3 DEF Follows, Terse
<1>5. Within(t)
  BY <1>2 DEF Within
<1> QED BY <1>1, <1>4, <1>5, WithinOrderly

(* One word is said, which is not "done".                                  *)
LEMMA SaysOne ==
  ASSUME IInv, NEW t \in Ids, NEW w \in {"err", "shutdown"},
         outcome' = [outcome EXCEPT ![t] = Append(@, w)]
  PROVE  /\ \A u \in Ids \ {t} : outcome'[u] = outcome[u]
         /\ outcome'[t] # <<"done">> /\ (outcome[t] = <<>> => Len(outcome'[t]) <= 1)
<1>1. outcome \in [Ids -> Seq({"done", "err", "shutdown"})]
  BY TellTypes
<1>2. outcome'[t] = Append(outcome[t], w) /\ \A u \in Ids \ {t} : outcome'[u] = outcome[u]
  BY <1>1
<1>3. PICK e \in Seq({"done", "err", "shutdown"}) : e = outcome[t]
  BY <1>1
<1>4. PICK n \in Seq({"done", "err", "shutdown"}) : n = Append(e, w)
  <2>1. w \in {"done", "err", "shutdown"}
    OBVIOUS
  <2>2. Append(e, w) \in Seq({"done", "err", "shutdown"})
    BY <2>1, AppendProperties
  <2> QED BY <2>2
<1>5. Len(n) = Len(e) + 1 /\ n[Len(n)] = w /\ Len(e) \in Nat
  BY <1>4
<1>6. n # <<"done">>
  <2> SUFFICES ASSUME n = <<"done">> PROVE FALSE
    OBVIOUS
  <2>1. Len(n) = 1 /\ n[1] = "done"
    OBVIOUS
  <2> QED BY <1>5, <2>1
<1>7. e = <<>> => Len(n) <= 1
  BY <1>5
<1> QED BY <1>2, <1>3, <1>4, <1>6, <1>7

(* requestFailed says it, unless the consumer has been told.               *)
LEMMA FailsOrderly ==
  ASSUME Given, NEW t \in Live, NEW ab, NEW below, requestFailed(t, ab, below),
         UNCHANGED retired, conns' \subseteq conns,
         \A u \in Ids \ {t} : events'[u] = events[u],
         Sorted(events'[t]),
         events'[t] = events[t] \/ t \notin settled,
         Hazards = {} => ab \/ t \notin settled
  PROVE  Orderly
<1>1. t \in Ids /\ t \notin retired /\ (t \notin settled <=> outcome[t] = <<>>)
  BY NotEnded
<1>2. CASE UNCHANGED outcome
  <2>1. events'[t] = events[t] \/ outcome'[t] # <<"done">>
    BY <1>1, <1>2
  <2> QED BY <1>1, <1>2, <2>1, WithinOrderly DEF Within, Follows, Terse
<1>3. CASE outcome' = [outcome EXCEPT ![t] = Append(@, "err")] /\ ~ab
  <2>1. /\ \A u \in Ids \ {t} : outcome'[u] = outcome[u]
        /\ outcome'[t] # <<"done">> /\ (outcome[t] = <<>> => Len(outcome'[t]) <= 1)
    BY <1>1, <1>3, SaysOne DEF Given
  <2> QED BY <1>1, <1>3, <2>1, WithinOrderly DEF Within, Follows, Terse
<1>4. \/ UNCHANGED outcome
      \/ ~ab /\ outcome' = [outcome EXCEPT ![t] = IF t \in detached THEN @ ELSE Append(@, "err")]
  BY DEF requestFailed
<1>5. [outcome EXCEPT ![t] = @] = outcome
  BY TellTypes DEF Given
<1> QED BY <1>2, <1>3, <1>4, <1>5

(* So does abort(), of a transfer whose consumer has not been told.        *)
LEMMA AbortOrderly ==
  ASSUME Given, NEW t \in Live, NEW below, abort(t, below), t \notin settled,
         UNCHANGED <<retired, conns, events>>
  PROVE  Orderly
<1>1. requestFailed(t, FALSE, <<Abort(t, state[t])>> \o below)
  BY DEF abort
<1>2. Sorted(events[t])
  BY NotEnded
<1> QED BY <1>1, <1>2, FailsOrderly DEF Sorted

(* A transfer is retired.                                                  *)
LEMMA EndsOrderly ==
  ASSUME Given, NEW t \in Live, NEW st, deinit(t, st), UNCHANGED events,
         \/ UNCHANGED outcome
         \/ /\ outcome' = [outcome EXCEPT ![t] = Append(@, "shutdown")]
            /\ t \notin settled
  PROVE  Orderly
<1>1. t \in Ids /\ t \notin retired /\ (t \notin settled <=> outcome[t] = <<>>)
  BY NotEnded
<1>2. retired' = retired \cup {t} /\ conns' = conns \ {t}
  BY <1>1 DEF deinit, removeConn
<1>3. CASE UNCHANGED outcome
  BY <1>1, <1>2, <1>3, WithinOrderly DEF Within, Follows, Terse
<1>4. CASE outcome' = [outcome EXCEPT ![t] = Append(@, "shutdown")] /\ t \notin settled
  <2>1. /\ \A u \in Ids \ {t} : outcome'[u] = outcome[u]
        /\ outcome[t] = <<>> => Len(outcome'[t]) <= 1
    BY <1>1, <1>4, SaysOne DEF Given
  <2> QED BY <1>1, <1>2, <1>4, <2>1, WithinOrderly DEF Within, Follows, Terse
<1> QED BY <1>3, <1>4

(* Most steps neither buffer an event nor tell anybody.                    *)
LEMMA SilentOrderly ==
  ASSUME Given,
         \/ RunTask \/ TickBegin \/ Quit \/ Exit \/ Exited \/ World
         \/ Return \/ KillEnd \/ StopEnd \/ PipeThrow \/ FlushEnd
         \/ TickUngate \/ TickDispatch \/ TickDispatchEnd \/ TickStep \/ DrainTeardown
         \/ TickDelayed \/ TickPending \/ PipeStart \/ PipeThrottle
         \/ Pump \/ SyncReturn \/ ReleaseOne \/ ImportReturn \/ DeliverEnd
         \/ \E t \in Reqs : ImportModule(t) \/ Request(t)
         \/ \E o \in Owners : AbortOwner(o)
         \/ \E t \in Ids : \/ AnswerNothing(t) \/ AnswerResume(t)
                           \/ ProcessRedirect(t) \/ ProcessAuth(t)
         \/ UNCHANGED vars
  PROVE  Orderly
<1>1. CASE RunTask \/ TickBegin \/ Quit \/ Exit \/ Exited \/ World \/ UNCHANGED vars
  BY <1>1, SameOrderly DEF RunTask, TickBegin, Quit, Exit, Exited, World, PeerLeaves,
              lvars, cbvars, evars, idle, nvars, vars
<1>2. CASE Return \/ KillEnd \/ StopEnd \/ PipeThrow \/ FlushEnd \/ DeliverEnd
  BY <1>2, SameOrderly DEF Return, KillEnd, StopEnd, PipeThrow, FlushEnd, DeliverEnd,
              lvars, cbvars, evars, idle, nvars
<1>3. CASE TickUngate \/ TickDispatch \/ TickDispatchEnd \/ TickStep \/ DrainTeardown
           \/ TickDelayed \/ TickPending
  BY <1>3, SameOrderly DEF TickUngate, TickDispatch, TickDispatchEnd, TickStep,
              DrainTeardown, TickDelayed, TickPending, lvars, cbvars, evars, idle, nvars
<1>4. CASE Pump \/ SyncReturn \/ ReleaseOne \/ ImportReturn \/ PipeStart \/ PipeThrottle
  BY <1>4, SameOrderly DEF Pump, SyncReturn, ReleaseOne, ImportReturn, PipeStart,
              PipeThrottle, lvars, cbvars, evars, idle, nvars
<1>5. CASE \/ \E t \in Reqs : ImportModule(t) \/ Request(t)
           \/ \E o \in Owners : AbortOwner(o)
  BY <1>5, SameOrderly DEF ImportModule, Request, AbortOwner, lvars, cbvars, evars, idle,
              nvars
<1>6. CASE \E t \in Ids : \/ AnswerNothing(t) \/ AnswerResume(t)
                          \/ ProcessRedirect(t) \/ ProcessAuth(t)
  <2>1. PICK t \in Ids : AnswerNothing(t) \/ AnswerResume(t) \/ ProcessRedirect(t) \/ ProcessAuth(t)
    BY <1>6
  <2>2. UNCHANGED <<events, outcome, retired>> /\ conns' \in {conns, conns \ {t}}
    BY <2>1 DEF AnswerNothing, AnswerResume, ProcessRedirect, ProcessAuth, removeConn,
                lvars, cbvars, evars, nvars
  <2> QED BY <2>2, SameOrderly
<1> QED BY <1>1, <1>2, <1>3, <1>4, <1>5, <1>6

(* What scheduleDispatch buffers.                                          *)
LEMMA ScheduleOrderly ==
  ASSUME Given, NEW t \in Live, UNCHANGED <<retired, outcome>>, conns' \subseteq conns,
         NEW evs \in Ending, NEW st, NEW broken, scheduleDispatch(t, st, evs, broken),
         t \in conns \/ state[t] \notin {"buffered", "delivering", "aborted"}
  PROVE  Orderly
BY AddsEvents DEF scheduleDispatch

(* submitSync that is refused, and what a script or a pump aborts.         *)
LEMMA ScriptOrderly ==
  ASSUME Given, \/ \E t \in Reqs : SyncRequest(t) \/ Cancel(t)
                \/ \E t \in Ids : StopOne(t)
                \/ SyncAbort
  PROVE  Orderly
<1>1. ASSUME NEW t \in Reqs, SyncRequest(t) PROVE Orderly
  <2>1. /\ UNCHANGED <<events, conns>> /\ t \in Ids
        /\ \/ UNCHANGED <<retired, outcome>>
           \/ retired' = retired \cup {t} /\ outcome' = [outcome EXCEPT ![t] = <<"err">>]
    BY <1>1 DEF SyncRequest, idle, evars, nvars, Ids
  <2>2. CASE UNCHANGED <<retired, outcome>>
    BY <2>1, <2>2, SameOrderly
  <2>3. CASE retired' = retired \cup {t} /\ outcome' = [outcome EXCEPT ![t] = <<"err">>]
    <3>1. outcome'[t] = <<"err">> /\ \A u \in Ids \ {t} : outcome'[u] = outcome[u]
      BY <2>1, <2>3, TellTypes DEF Given
    <3>2. Len(outcome'[t]) <= 1
      BY <3>1
    <3> QED BY <2>1, <2>3, <3>1, <3>2, WithinOrderly DEF Within, Follows, Terse
  <2> QED BY <2>1, <2>2, <2>3
<1>2. ASSUME NEW t \in Reqs, Cancel(t) PROVE Orderly
  <2>1. t \in Live /\ t \notin settled /\ abort(t, stack) /\ UNCHANGED <<retired, conns, events>>
    BY <1>2 DEF Cancel, idle, evars, nvars
  <2> QED BY <2>1, AbortOrderly
<1>3. ASSUME NEW t \in Ids, StopOne(t) PROVE Orderly
  <2>1. /\ Running("stop") /\ owner[t] = Top.id /\ t \notin settled /\ abort(t, stack)
        /\ UNCHANGED <<retired, conns, events>>
    BY <1>3 DEF StopOne, Stoppable, idle, evars, nvars
  <2>2. Top.id \in Owners
    <3>1. Kind(Top) /\ Top.op = "stop"
      BY <2>1, OnTopView DEF Given, Places, Pushes
    <3> QED BY <3>1 DEF Kind
  <2>3. t \in Live
    BY <2>1, <2>2, Constants DEF Given, IInv, OwnerLinks
  <2> QED BY <2>1, <2>3, AbortOrderly
<1>4. CASE SyncAbort
  <2>1. PICK t, base : t = Top.id /\ base = <<Sync(Top.id, "exit")>> \o Below
    OBVIOUS
  <2>2. /\ Running("sync") /\ outcome[t] = <<>> /\ abort(t, base)
        /\ UNCHANGED <<retired, conns, events>>
    BY <1>4, <2>1 DEF SyncAbort, idle, evars, nvars
  <2>3. Top.op = "sync" /\ Top \in On
    BY <2>2, OnTopView DEF Given, Places
  <2>4. t \in Born
    BY <2>1, <2>3, KnownOn DEF Given, TransferOps
  <2>5. t \in Live
    BY <2>2, <2>4 DEF Given, Places, AnswerInv, Born, Live
  <2> QED BY <2>2, <2>5, NotEnded, AbortOrderly
<1> QED BY <1>1, <1>2, <1>3, <1>4

(* What is buffered by a script, at the exit, by libcurl and by CDP.       *)
LEMMA BufferedOrderly ==
  ASSUME Given, \/ \E o \in Owners : StopLoading(o)
                \/ \E t \in Ids : \/ AbortHeld(t) \/ StreamChunk(t)
                                  \/ ProcessOneMessage(t) \/ AnswerBuffer(t)
                \/ FlushOne
  PROVE  Orderly
<1>0. <<"err">> \in Ending /\ <<"data", "done">> \in Ending /\ <<"done">> \in Ending
  BY DEF Ending
<1>1. ASSUME NEW o \in Owners, StopLoading(o) PROVE Orderly
  <2>1. /\ UNCHANGED <<retired, outcome>>
        /\ \/ UNCHANGED <<events, conns>>
           \/ \E t \in Reqs : /\ owner[t] = o /\ CanFinishEarly(t) /\ removeConn(t)
                              /\ scheduleDispatch(t, "inflight", <<"data", "done">>, {})
    BY <1>1 DEF StopLoading, cbvars, nvars
  <2>2. CASE UNCHANGED <<events, conns>>
    BY <2>1, <2>2, SameOrderly
  <2>3. ASSUME NEW t \in Reqs, owner[t] = o, CanFinishEarly(t), removeConn(t),
               scheduleDispatch(t, "inflight", <<"data", "done">>, {})
        PROVE  Orderly
    <3>1. t \in Live
      BY <2>3, Constants DEF Given, IInv, OwnerLinks, Ids
    <3>2. t \in conns /\ conns' \subseteq conns
      BY <2>3 DEF CanFinishEarly, removeConn
    <3> QED BY <1>0, <2>1, <2>3, <3>1, <3>2, ScheduleOrderly
  <2> QED BY <2>1, <2>2, <2>3
<1>2. ASSUME NEW t \in Ids, AbortHeld(t) PROVE Orderly
  <2>1. /\ stack = <<>> /\ t \in held /\ UNCHANGED <<retired, outcome, conns>>
        /\ \/ t \in Live /\ scheduleDispatch(t, "created", <<"err">>, NotParked(t))
           \/ UNCHANGED events
    BY <1>2 DEF AbortHeld, Exiting, cbvars, nvars
  <2>2. ASSUME t \in Live PROVE state[t] \in Kept4Cdp
    <3>1. On = {}
      BY <2>1, SoundEmpty DEF On
    <3>2. Where[t] = state[t]
      BY <2>2, <3>1, WhereIs DEF Saves
    <3> QED BY <2>1, <2>2, <3>2 DEF Given, Places, HeldInv
  <2>3. CASE t \in Live /\ scheduleDispatch(t, "created", <<"err">>, NotParked(t))
    BY <1>0, <2>1, <2>2, <2>3, ScheduleOrderly DEF Kept4Cdp
  <2> QED BY <2>1, <2>3, SameOrderly
<1>3. ASSUME NEW t \in Ids, StreamChunk(t) PROVE Orderly
  <2>1. /\ Running("tick") /\ t \in conns /\ events' = [events EXCEPT ![t] = Append(@, "data")]
        /\ UNCHANGED <<retired, outcome, conns>>
    BY <1>3 DEF StreamChunk, At, lvars, cbvars, nvars
  <2>2. t \in Live
    <3>1. Where[t] # "none"
      BY <2>1 DEF Given, Places, PoolInv
    <3> QED BY <2>1, <3>1, TickOn
  <2>3. events' = [events EXCEPT ![t] = @ \o <<"data">>]
    <3>1. events[t] \in Seq({"data", "done", "err"})
      BY TellTypes DEF Given
    <3>2. Append(events[t], "data") = events[t] \o <<"data">>
      BY <3>1
    <3> QED BY <2>1, <3>2
  <2> QED BY <2>1, <2>2, <2>3, AddsEvents
<1>4. ASSUME NEW t \in Ids, ProcessOneMessage(t) PROVE Orderly
  <2>1. ~ProcessAborted(t)
    BY DEF ProcessAborted, Given, Careful
  <2>0. PICK st : st = state[t]
    OBVIOUS
  <2>2. PICK evs \in Ending :
           /\ Answered(t) /\ removeConn(t) /\ scheduleDispatch(t, st, evs, {})
           /\ UNCHANGED <<retired, outcome>>
    <3>1. /\ Answered(t) /\ removeConn(t) /\ UNCHANGED <<retired, outcome>>
          /\ \/ scheduleDispatch(t, st, IF t \in started THEN <<"done">> ELSE <<"data", "done">>, {})
             \/ scheduleDispatch(t, st, <<"err">>, {})
      BY <1>4, <2>0, <2>1 DEF ProcessOneMessage, ProcessResponse, cbvars
    <3> QED BY <1>0, <3>1
  <2>3. t \in Live /\ t \in conns /\ conns' \subseteq conns
    BY <2>2, AnsweredIs DEF removeConn
  <2> QED BY <2>2, <2>3, ScheduleOrderly
<1>5. ASSUME NEW t \in Ids, AnswerBuffer(t) PROVE Orderly
  <2>1. PICK evs \in Ending :
           /\ Answers(t) /\ t \in Live /\ scheduleDispatch(t, "created", evs, NotParked(t))
           /\ UNCHANGED <<retired, outcome, conns>>
    BY <1>0, <1>5 DEF AnswerBuffer, cbvars, nvars
  <2>2. state[t] \in Kept4Cdp
    BY <2>1, AnswersIs
  <2> QED BY <2>1, <2>2, ScheduleOrderly DEF Kept4Cdp
<1>6. CASE FlushOne
  <2>1. PICK w : w = Head(Top.todo)
    OBVIOUS
  <2>2. PICK G : G = [Top EXCEPT !.todo = Tail(@)]
    OBVIOUS
  <2>3. /\ Running("flush") /\ Top.todo # <<>> /\ UNCHANGED <<retired, outcome, conns>>
        /\ \/ UNCHANGED events
           \/ scheduleDispatch(w, "created", <<"err">>, NotParked(w))
    BY <1>6, <2>1 DEF FlushOne, cbvars, nvars
  <2>4. w \in Live /\ state[w] \in AtGate
    BY <2>1, <2>2, <2>3, FlushesIs DEF FlushIs
  <2>5. CASE scheduleDispatch(w, "created", <<"err">>, NotParked(w))
    BY <1>0, <2>3, <2>4, <2>5, ScheduleOrderly DEF AtGate
  <2> QED BY <2>3, <2>5, SameOrderly
<1> QED BY <1>1, <1>2, <1>3, <1>4, <1>5, <1>6

(* Teardowns.                                                              *)
LEMMA TeardownOrderly ==
  ASSUME Given, AbortEnd \/ finishDelivery \/ \E t \in Ids : KillOne(t)
  PROVE  Orderly
<1>1. CASE AbortEnd
  <2>1. PICK F, t : F = Top /\ t = F.id
    OBVIOUS
  <2>2. /\ Running("abort") /\ stack' = Below /\ UNCHANGED <<outcome, events>>
        /\ \/ UNCHANGED <<retired, conns>>
           \/ \E st : deinit(t, st)
    BY <1>1, <2>1 DEF AbortEnd, nvars, evars
  <2>3. stack # <<>> /\ F.op = "abort"
    BY <2>1, <2>2 DEF Running, Top
  <2>4. t \in Live
    BY <2>1, <2>2, <2>3, TopReturns
  <2> QED BY <2>2, <2>4, SameOrderly, EndsOrderly
<1>2. CASE finishDelivery
  <2>1. PICK F, t : F = Top /\ t = F.id
    OBVIOUS
  <2>2. PICK st : st = state[t]
    OBVIOUS
  <2>3. /\ Running("finish") /\ stack' = Below /\ deinit(t, st) /\ UNCHANGED events
        /\ \/ UNCHANGED outcome
           \/ t \notin settled /\ outcome' = [outcome EXCEPT ![t] = Append(@, "shutdown")]
    BY <1>2, <2>1, <2>2 DEF finishDelivery, evars
  <2>4. stack # <<>> /\ F.op = "finish"
    BY <2>1, <2>3 DEF Running, Top
  <2>5. t \in Live
    BY <2>1, <2>3, <2>4, TopReturns
  <2> QED BY <2>3, <2>5, EndsOrderly
<1>3. ASSUME NEW t \in Ids, KillOne(t) PROVE Orderly
  <2>1. PICK st : st = state[t]
    OBVIOUS
  <2>2. t \in Live /\ st # "aborted" /\ UNCHANGED events
    BY <1>3, <2>1 DEF KillOne, Targets, evars
  <2>3. CASE st = "delivering"
    <3>1. UNCHANGED <<retired, outcome, conns>>
      BY <1>3, <2>1, <2>3 DEF KillOne, nvars
    <3> QED BY <2>2, <3>1, SameOrderly
  <2>4. CASE st # "delivering"
    <3>1. deinit(t, st) /\ outcome' = [outcome EXCEPT ![t] = Append(@, "shutdown")]
      BY <1>3, <2>1, <2>4 DEF KillOne
    <3>2. t \notin settled
      BY <2>1, <2>2, <2>4, NotEnded
    <3> QED BY <2>2, <3>1, <3>2, EndsOrderly
  <2> QED BY <2>3, <2>4
<1> QED BY <1>1, <1>2, <1>3

(* A gate is entered, behind its fetch or with a new one.                  *)
LEMMA GateOrderly ==
  ASSUME Given, NEW gate \in {"cors", "robots"}, EnterGate(gate), UNCHANGED conns
  PROVE  Orderly
<1>1. CASE UNCHANGED <<retired, outcome, events>>
  BY <1>1, SameOrderly
<1>2. ASSUME NEW f \in Fetches,
             retired' = retired \ {f}, outcome' = [outcome EXCEPT ![f] = <<>>],
             events' = [events EXCEPT ![f] = <<>>]
      PROVE  Orderly
  <2>1. f \in Ids
    BY DEF Ids
  <2>2. /\ outcome'[f] = <<>> /\ \A u \in Ids \ {f} : outcome'[u] = outcome[u]
        /\ events'[f] = <<>> /\ \A u \in Ids \ {f} : events'[u] = events[u]
    BY <1>2, <2>1, TellTypes DEF Given
  <2>3. Sorted(<<>>) /\ Len(<<>>) <= 1 /\ <<>> # <<"done">>
    BY DEF Sorted
  <2> QED BY <1>2, <2>1, <2>2, <2>3, WithinOrderly DEF Within, Follows, Terse
<1> QED BY <1>1, <1>2 DEF EnterGate, cbvars, evars

(* The pipeline.                                                           *)
LEMMA PipelineOrderly ==
  ASSUME Given, PipeAfterIntercept \/ PipeAfterCors \/ PipeNetwork \/ PipeFailed
  PROVE  Orderly
<1>1. PICK t : t = Top.id
  OBVIOUS
<1>2. Running("pipe")
  BY DEF PipeAfterIntercept, PipeAfterCors, PipeNetwork, PipeFailed, AtStage
<1>3. /\ t \in Live /\ t \in Ids /\ state[t] \in {"created", "inflight"}
      /\ t \notin settled /\ outcome[t] = <<>>
  BY <1>1, <1>2, Piped
<1>4. PICK st : st = state[t]
  OBVIOUS
<1>5. <<"err">> \in Ending /\ <<"data", "done">> \in Ending
  BY DEF Ending
<1>6. ASSUME UNCHANGED <<retired, outcome>>, conns' \subseteq conns, NEW evs \in Ending,
             scheduleDispatch(t, st, evs, {})
      PROVE  Orderly
  BY <1>3, <1>4, <1>6, ScheduleOrderly
<1>7. CASE PipeAfterIntercept
  <2>1. /\ UNCHANGED conns
        /\ \/ scheduleDispatch(t, st, <<"err">>, {}) /\ UNCHANGED <<retired, outcome>>
           \/ EnterGate("cors")
           \/ UNCHANGED <<retired, outcome, events>>
    BY <1>1, <1>4, <1>7 DEF PipeAfterIntercept, cbvars, evars, nvars
  <2> QED BY <1>5, <1>6, <2>1, GateOrderly, SameOrderly
<1>8. CASE PipeAfterCors
  <2>1. /\ UNCHANGED conns
        /\ \/ /\ \/ scheduleDispatch(t, st, <<"data", "done">>, {})
                 \/ scheduleDispatch(t, st, <<"err">>, {})
              /\ UNCHANGED <<retired, outcome>>
           \/ EnterGate("robots")
           \/ UNCHANGED <<retired, outcome, events>>
    BY <1>1, <1>4, <1>8 DEF PipeAfterCors, cbvars, evars, nvars
  <2> QED BY <1>5, <1>6, <2>1, GateOrderly, SameOrderly
<1>9. CASE PipeNetwork
  <2>1. /\ UNCHANGED <<retired, outcome, events>>
        /\ conns' = conns \/ conns' = conns \cup {t}
    BY <1>1, <1>9 DEF PipeNetwork, nvars
  <2>2. Sorted(events[t]) /\ outcome[t] # <<"done">>
    BY <1>3, NotEnded
  <2>3. Within(t) /\ Follows(t) /\ Terse(t)
    BY <2>1, <2>2 DEF Within, Follows, Terse, Sorted
  <2> QED BY <1>3, <2>3, WithinOrderly
<1>10. CASE PipeFailed
  <2>1. /\ UNCHANGED retired
        /\ \/ abort(t, Below) /\ UNCHANGED <<conns, events>>
           \/ UNCHANGED <<outcome, conns, events>>
           \/ /\ conns' \subseteq conns /\ UNCHANGED outcome
              /\ \/ scheduleDispatch(t, "created", <<"err">>, {}) /\ st = "created"
                 \/ scheduleDispatch(t, st, <<"err">>, {})
    <3>1. /\ Submitter # Ticker /\ Submitter # Redirect /\ Ticker # Redirect
          /\ Ticker # Resumer /\ Redirect # Resumer
      BY DEF Submitter, Ticker, Redirect, Resumer
    <3>2. Top.pc \in {Submitter, Resumer, Ticker, Redirect}
      BY <1>2, Piped DEF Callers
    <3>3. CASE Top.pc \in {Submitter, Resumer}
      <4>1. abort(t, Below) /\ UNCHANGED <<retired, events, nvars>>
        BY <1>1, <1>3, <1>10, <3>1, <3>3 DEF PipeFailed
      <4> QED BY <4>1 DEF nvars
    <3>4. CASE Top.pc = Ticker
      <4>1. /\ UNCHANGED <<retired, outcome, nvars>>
            /\ IF state[t] = "created" THEN scheduleDispatch(t, "created", <<"err">>, {})
               ELSE UNCHANGED <<state, events, dvars, fault>>
        BY <1>1, <1>10, <3>1, <3>4 DEF PipeFailed
      <4> QED BY <1>4, <4>1 DEF nvars
    <3>5. CASE Top.pc = Redirect
      <4>1. /\ UNCHANGED <<retired, outcome>>
            /\ removeConn(t) /\ scheduleDispatch(t, st, <<"err">>, {})
        BY <1>1, <1>4, <1>10, <3>1, <3>5 DEF PipeFailed
      <4> QED BY <4>1 DEF removeConn
    <3> QED BY <3>2, <3>3, <3>4, <3>5
  <2>2. CASE abort(t, Below) /\ UNCHANGED <<conns, events>>
    BY <1>3, <2>1, <2>2, AbortOrderly
  <2>3. CASE UNCHANGED <<outcome, conns, events>>
    BY <2>1, <2>3, SameOrderly
  <2>4. CASE /\ conns' \subseteq conns /\ UNCHANGED outcome
             /\ scheduleDispatch(t, st, <<"err">>, {})
    BY <1>5, <1>6, <2>1, <2>4
  <2> QED BY <2>1, <2>2, <2>3, <2>4
<1> QED BY <1>7, <1>8, <1>9, <1>10

(* An event is taken from the buffer.                                      *)
LEMMA TakesEvent ==
  ASSUME Given, NEW ev, Delivering(ev), NEW t, t = Top.id
  PROVE  /\ t \in Live /\ t \in Ids /\ t \notin settled /\ outcome[t] = <<>>
         /\ Sorted(events[t])'
         /\ ev # "data" => events'[t] = <<>> /\ t \notin conns
         /\ \A u \in Ids : u # t => events'[u] = events[u]
<1>1. t \in Live /\ t \in Ids /\ t \notin settled
  BY DeliveringIs
<1>2. /\ events[t] # <<>> /\ Head(events[t]) = ev
      /\ events' = [events EXCEPT ![t] = Tail(@)]
  BY DEF Delivering
<1>3. /\ events[t] \in Seq({"data", "done", "err"}) /\ events'[t] = Tail(events[t])
      /\ \A u \in Ids : u # t => events'[u] = events[u]
  BY <1>1, <1>2, TellTypes DEF Given
<1>4. /\ Sorted(events[t]) /\ outcome[t] = <<>>
      /\ t \in conns => ~Terminal(events[t])
  BY <1>1, NotEnded
<1>5. /\ Sorted(Tail(events[t]))
      /\ ev # "data" => Tail(events[t]) = <<>> /\ Terminal(events[t])
  BY <1>2, <1>3, <1>4, SortedRest
<1> QED BY <1>1, <1>3, <1>4, <1>5

(* The callbacks of a response.                                            *)
LEMMA CallbackOrderly ==
  ASSUME Given, DeliverData \/ DeliverDone \/ DeliverErr PROVE Orderly
<1>1. PICK t : t = Top.id
  OBVIOUS
<1>2. UNCHANGED <<retired, conns>>
  BY DEF DeliverData, DeliverDone, DeliverErr, lvars, nvars
<1>3. CASE DeliverData
  <2>1. /\ Delivering("data")
        /\ UNCHANGED outcome \/ requestFailed(t, state[t] = "aborted", <<Finish(t)>> \o Below)
    BY <1>1, <1>3 DEF DeliverData, failDelivery
  <2>2. /\ t \in Live /\ t \in Ids /\ t \notin settled /\ outcome[t] = <<>>
        /\ Sorted(events'[t]) /\ \A u \in Ids : u # t => events'[u] = events[u]
    BY <1>1, <2>1, TakesEvent
  <2>3. CASE UNCHANGED outcome
    <3>1. outcome'[t] # <<"done">>
      BY <2>2, <2>3
    <3>2. Within(t) /\ Follows(t) /\ Terse(t)
      BY <1>2, <2>2, <2>3, <3>1 DEF Within, Follows, Terse
    <3> QED BY <2>2, <3>2, WithinOrderly
  <2>4. CASE requestFailed(t, state[t] = "aborted", <<Finish(t)>> \o Below)
    <3>1. PICK ab : ab = (state[t] = "aborted")
      OBVIOUS
    <3>2. requestFailed(t, ab, <<Finish(t)>> \o Below)
      BY <2>4, <3>1
    <3> QED BY <1>2, <2>2, <3>2, FailsOrderly
  <2> QED BY <2>1, <2>3, <2>4
<1>4. CASE DeliverDone
  <2>1. Delivering("done") /\ outcome' = [outcome EXCEPT ![t] = Append(@, "done")]
    BY <1>1, <1>4 DEF DeliverDone
  <2>2. /\ t \in Live /\ t \in Ids /\ t \notin settled /\ outcome[t] = <<>>
        /\ \A u \in Ids : u # t => events'[u] = events[u]
        /\ events'[t] = <<>> /\ t \notin conns
    BY <1>1, <2>1, TakesEvent
  <2>3. outcome'[t] = Append(<<>>, "done") /\ \A u \in Ids \ {t} : outcome'[u] = outcome[u]
    BY <2>1, <2>2, TellTypes DEF Given
  <2>4. Len(outcome'[t]) <= 1
    BY <2>3
  <2>5. Within(t) /\ Follows(t) /\ Terse(t)
    BY <1>2, <2>2, <2>3, <2>4 DEF Within, Follows, Terse
  <2> QED BY <2>2, <2>5, WithinOrderly
<1>5. CASE DeliverErr
  <2>1. Delivering("err") /\ requestFailed(t, FALSE, <<Finish(t)>> \o Below)
    BY <1>1, <1>5 DEF DeliverErr
  <2>2. /\ t \in Live /\ t \in Ids /\ t \notin settled /\ outcome[t] = <<>>
        /\ Sorted(events'[t]) /\ \A u \in Ids : u # t => events'[u] = events[u]
    BY <1>1, <2>1, TakesEvent
  <2> QED BY <1>2, <2>1, <2>2, FailsOrderly
<1> QED BY <1>3, <1>4, <1>5

(* A callback that ran JavaScript failed: unless it was the last one, the  *)
(* consumer has not been told.                                             *)
LEMMA JsFailOrderly == ASSUME Given, JsFail PROVE Orderly
<1>1. PICK f : f = Top
  OBVIOUS
<1>2. PICK t : t = f.id
  OBVIOUS
<1>3. PICK s : s = Below
  OBVIOUS
<1>4. PICK D : D = Head(s)
  OBVIOUS
<1>5. PICK ab : ab = (state[t] = "aborted")
  OBVIOUS
<1>6. /\ Running("js") /\ f.how \in {"data", "done"} /\ (Hazards = {} => f.how = "data")
      /\ requestFailed(t, ab, <<Finish(t)>> \o Tail(s))
      /\ UNCHANGED <<retired, conns, events>>
  BY <1>1, <1>2, <1>3, <1>5
     DEF JsFail, InJs, failDelivery, lvars, idle, evars, nvars
<1>7. /\ stack # <<>> /\ f.op = "js" /\ Sound(s) /\ Pushes(f, s) /\ On = {f} \cup FramesIn(s)
  BY <1>1, <1>3, <1>6, OnTopView DEF Given, Places, Rest
<1>8. s # <<>> /\ D.op = "deliver" /\ D.id = t /\ (f.how = "data" => D.how # "done")
  BY <1>2, <1>4, <1>6, <1>7 DEF Pushes, Reports, CalledBy
<1>9. DeliverOn(s, D)
  BY <1>4, <1>7, <1>8 DEF DeliverOn
<1>10. /\ t \in Live /\ t \in Ids /\ D \in Workers
       /\ \A g \in Workers : g.op \in {"deliver", "finish"}
  BY <1>8, <1>9, DeliverIs
<1>11. Hazards = {} => ab \/ t \notin settled
  BY <1>5, <1>6, <1>8, <1>10 DEF Given, Places, StreamInv
<1>12. Sorted(events'[t]) /\ \A u \in Ids : events'[u] = events[u]
  BY <1>6, <1>10, NotEnded DEF Sorted
<1> QED BY <1>6, <1>10, <1>11, <1>12, FailsOrderly

-----------------------------------------------------------------------------
(* Every step.                                                             *)
LEMMA NextOrderly == ASSUME Given, [Next]_vars PROVE Orderly
<1>1. CASE Loop \/ World \/ Exited \/ UNCHANGED vars
  BY <1>1, SilentOrderly, BufferedOrderly DEF Loop, Exited
<1>2. CASE Script
  BY <1>2, SilentOrderly, ScriptOrderly, BufferedOrderly, JsFailOrderly DEF Script
<1>3. CASE Teardown
  BY <1>3, SilentOrderly, ScriptOrderly, TeardownOrderly DEF Teardown
<1>4. CASE Pipeline
  BY <1>4, SilentOrderly, BufferedOrderly, PipelineOrderly DEF Pipeline
<1>5. CASE Ticking
  BY <1>5, SilentOrderly, BufferedOrderly DEF Ticking, Process, Answer
<1>6. CASE Delivery \/ Waiting
  BY <1>6, SilentOrderly, ScriptOrderly, TeardownOrderly, CallbackOrderly
  DEF Delivery, Waiting
<1> QED BY <1>1, <1>2, <1>3, <1>4, <1>5, <1>6 DEF Next

(* At the start nothing has happened.                                      *)
LEMMA InitOrder == Init => OrderInv
BY DEF Init, OrderInv, Sorted

(* If Careful, every transfer is where its state says, and only there: on  *)
(* one queue, at one gate, in one function's hands, with its connection,   *)
(* its answer and its owner's call in step (Transfer.State).               *)
THEOREM EverythingInPlace == ASSUME Careful PROVE Spec => [](IInv /\ Places /\ OrderInv)
<1>1. Init => IInv /\ Places /\ OrderInv
  BY InitInv, InitPlaces, InitOrder
<1>2. IInv /\ Places /\ OrderInv /\ [Next]_vars => (IInv /\ Places /\ OrderInv)'
  <2> SUFFICES ASSUME IInv, Places, OrderInv, [Next]_vars
               PROVE  IInv' /\ Places' /\ OrderInv'
    OBVIOUS
  <2>1. Given
    BY NextInv DEF Given
  <2> QED BY <2>1, NextPlaces, NextOrderly, OrderlyKeeps DEF Given
<1> QED BY <1>1, <1>2, PTL DEF Spec

-----------------------------------------------------------------------------
(* What the model's own operators see of it                                *)

(* Two sequences without a common element, one after the other.            *)
LEMMA OnceConcat ==
  ASSUME NEW s, NEW A, Once(s, A), NEW r, NEW B, Once(r, B), A \cap B = {}
  PROVE  Once(s \o r, A \cup B)
<1> DEFINE q == s \o r
           C == A \cup B
<1>1. /\ s \in Seq(A) /\ r \in Seq(B) /\ s \in Seq(C) /\ r \in Seq(C)
      /\ Len(s) \in Nat /\ Len(r) \in Nat
  BY SeqGrows, LenProperties DEF Once
<1>2. /\ q \in Seq(C) /\ Len(q) = Len(s) + Len(r)
      /\ \A i \in 1..Len(q) : q[i] = IF i <= Len(s) THEN s[i] ELSE r[i - Len(s)]
  BY <1>1, ConcatProperties
<1>3. (\A i \in 1..Len(s) : s[i] \in A) /\ (\A i \in 1..Len(r) : r[i] \in B)
  BY <1>1, ElementOfSeq
<1> HIDE DEF q
<1>4. \A i \in 1..Len(q) : \/ i \in 1..Len(s) /\ q[i] = s[i]
                           \/ i - Len(s) \in 1..Len(r) /\ q[i] = r[i - Len(s)]
  BY <1>1, <1>2
<1>5. ASSUME NEW i \in 1..Len(q), NEW j \in 1..Len(q), q[i] = q[j] PROVE i = j
  <2>1. CASE i \in 1..Len(s) /\ q[i] = s[i] /\ j \in 1..Len(s) /\ q[j] = s[j]
    BY ZenonT(60), <1>5, <2>1 DEF Once
  <2>2. CASE /\ i - Len(s) \in 1..Len(r) /\ q[i] = r[i - Len(s)]
             /\ j - Len(s) \in 1..Len(r) /\ q[j] = r[j - Len(s)]
    <3>1. i - Len(s) = j - Len(s)
      BY <1>5, <2>2 DEF Once
    <3> QED BY <1>1, <1>2, <3>1
  <2>3. CASE /\ i \in 1..Len(s) /\ q[i] = s[i]
             /\ j - Len(s) \in 1..Len(r) /\ q[j] = r[j - Len(s)]
    BY <1>3, <1>5, <2>3
  <2>4. CASE /\ j \in 1..Len(s) /\ q[j] = s[j]
             /\ i - Len(s) \in 1..Len(r) /\ q[i] = r[i - Len(s)]
    BY <1>3, <1>5, <2>4
  <2> QED BY <1>4, <2>1, <2>2, <2>3, <2>4
<1>6. ASSUME NEW c \in C PROVE \E i \in 1..Len(q) : q[i] = c
  <2>1. CASE c \in A
    <3>1. PICK i \in 1..Len(s) : s[i] = c
      BY <2>1 DEF Once
    <3>2. i \in 1..Len(q) /\ i <= Len(s)
      BY <1>1, <1>2
    <3> QED BY <1>2, <3>1, <3>2
  <2>2. CASE c \in B
    <3>1. PICK i \in 1..Len(r) : r[i] = c
      BY <2>2 DEF Once
    <3>2. i + Len(s) \in 1..Len(q) /\ ~(i + Len(s) <= Len(s)) /\ (i + Len(s)) - Len(s) = i
      BY <1>1, <1>2
    <3> QED BY <1>2, <3>1, <3>2
  <2> QED BY <2>1, <2>2
<1> QED BY <1>2, <1>5, <1>6 DEF Once, q

(* The frames of the stack by their positions.                             *)
LEMMA Positions ==
  ASSUME CallsInv
  PROVE  /\ DOMAIN stack = 1..Len(stack) /\ Len(stack) \in Nat
         /\ \A i \in DOMAIN stack : stack[i] \in On
         /\ \A f \in On : \E i \in DOMAIN stack : stack[i] = f
         /\ \A i, j \in DOMAIN stack : i < j => Over(stack[i], stack[j])
<1>1. DOMAIN stack = 1..Len(stack) /\ Len(stack) \in Nat
  BY LenProperties DEF CallsInv, Sound
<1> QED BY <1>1 DEF CallsInv, Sound, On, FramesIn

(* StateOf is Where: a transfer is aborted once at a time.                 *)
LEMMA StateOfWhere ==
  ASSUME IInv, CallsInv, BusyInv, NEW t \in Live
  PROVE  StateOf(t) = Where[t]
<1>1. t \in Ids
  BY DEF Live
<1>2. CASE AbortsOf(t) = {}
  <2>1. Saves[t] = {}
    BY <1>1, <1>2, Positions DEF AbortsOf, Saves
  <2> QED BY <1>1, <1>2, <2>1, WhereIs DEF StateOf
<1>3. CASE AbortsOf(t) # {}
  <2>1. PICK i \in DOMAIN stack : i \in AbortsOf(t)
    BY <1>3 DEF AbortsOf
  <2>2. stack[i] \in On /\ stack[i].op = "abort" /\ stack[i].id = t
    BY <2>1, Positions DEF AbortsOf
  <2>3. Where[t] = stack[i].how
    <3>1. stack[i] \in Workers
      BY <2>2 DEF Workers, Working
    <3> QED BY <1>1, <2>2, <3>1, WhereSaved
  <2>4. ASSUME NEW j \in AbortsOf(t) PROVE j = i
    <3>1. /\ j \in DOMAIN stack /\ stack[j].op = "abort" /\ stack[j].id = t
      BY DEF AbortsOf
    <3>2. ~(i < j) /\ ~(j < i)
      BY <2>2, <3>1, Positions DEF Over, Working
    <3>3. i \in Nat /\ j \in Nat
      BY <3>1, Positions
    <3> QED BY <3>2, <3>3
  <2>5. AbortsOf(t) = {i}
    BY <2>1, <2>4
  <2>6. Max({i}) = i
    <3>1. i >= i
      BY <2>1, Positions
    <3> QED BY <3>1 DEF Max
  <2> HIDE DEF Where
  <2> QED BY <1>3, <2>3, <2>5, <2>6 DEF StateOf
<1> QED BY <1>2, <1>3

(* The live transfers in some states are those in these places.            *)
LEMMA InStateWhere ==
  ASSUME IInv, CallsInv, BusyInv, NEW A, "none" \notin A
  PROVE  InState(A) = {t \in Ids : Where[t] \in A}
<1>1. \A t \in Ids : Where[t] = "none" <=> t \notin Live
  BY WhereLive
<1>2. \A t \in Live : t \in Ids /\ StateOf(t) = Where[t]
  BY StateOfWhere DEF Live
<1> HIDE DEF Where
<1> QED BY <1>1, <1>2 DEF InState

-----------------------------------------------------------------------------
(* The client's invariants                                                 *)

(* The queues and the counters.                                            *)
LEMMA QueuesFollow == ASSUME IInv, Places PROVE QueuesExact
<1>1. \A A : "none" \notin A => InState(A) = {t \in Ids : Where[t] \in A}
  BY InStateWhere DEF Places
<1> HIDE DEF Where
<1>2. /\ InState({"queued"}) = {t \in Ids : Where[t] = "queued"}
      /\ InState({"delayed"}) = {t \in Ids : Where[t] = "delayed"}
  BY <1>1
<1>3. /\ IsInjective(pending) /\ ToSet(pending) = InState({"queued"})
      /\ IsInjective(delayed) /\ ToSet(delayed) = InState({"delayed"})
      /\ delayedCount = Len(delayed)
  BY <1>2, OnceMeans DEF Places, PendingInv, DelayedInv
<1>4. /\ IsInjective(dispatch \o gated)
      /\ ToSet(dispatch \o gated) = InDispatch \cup InGated
  <2>1. Once(dispatch \o gated, InDispatch \cup InGated)
    BY OnceConcat DEF Places, DispatchInv
  <2> QED BY <2>1, OnceMeans
<1>5. InState({"buffered"}) \subseteq ToSet(dispatch \o gated)
  <2>1. InState({"buffered"}) = {t \in Ids : Where[t] = "buffered"}
    BY <1>1
  <2> QED BY <1>4, <2>1 DEF Places, DispatchInv
<1>6. ToSet(dispatch \o gated) \subseteq InState({"buffered", "inflight"})
  <2>1. InState({"buffered", "inflight"}) = {t \in Ids : Where[t] \in {"buffered", "inflight"}}
    BY <1>1
  <2>2. InDispatch \cup InGated \subseteq Ids
    <3>1. dispatch \in Seq(Born) /\ gated \in Seq(Born) /\ Born \subseteq Ids
      BY DEF IInv, Data, Dispatcher, Born
    <3> QED BY <3>1 DEF InDispatch, InGated, ToSet
  <2> QED BY <1>4, <2>1, <2>2 DEF Places, DispatchInv
<1>7. intercepted = Cardinality(InState({"parked_intercept", "parked_auth"}))
  <2>1. InState(Kept4Cdp) = {t \in Ids : Where[t] \in Kept4Cdp}
    BY <1>1 DEF Kept4Cdp
  <2> QED BY <2>1 DEF Places, HeldInv, Kept4Cdp
<1>8. dispatchCount = Len(dispatch) + Len(gated)
  BY DEF Places, DispatchInv
<1> QED BY <1>3, <1>4, <1>5, <1>6, <1>7, <1>8 DEF QueuesExact

(* The connection pool.                                                    *)
LEMMA PoolFollows == ASSUME IInv, Places PROVE PoolExact
<1>1. \A A : "none" \notin A => InState(A) = {t \in Ids : Where[t] \in A}
  BY InStateWhere DEF Places
<1> HIDE DEF Where
<1>2. InState({"inflight"}) = {t \in Ids : Where[t] \in {"inflight"}}
  BY <1>1
<1>3. InState({"inflight", "delivering", "aborted"}) =
        {t \in Ids : Where[t] \in {"inflight", "delivering", "aborted"}}
  BY <1>1
<1>4. conns \subseteq Ids
  BY DEF IInv, Data, Network, Born
<1> QED BY <1>2, <1>3, <1>4 DEF Places, PoolInv, PoolExact

(* The CDP client's table.                                                 *)
LEMMA AnswerableFollows ==
  ASSUME IInv, Places
  PROVE  InterceptAnswerable /\ held \cap Live \subseteq InState({"parked_intercept", "parked_auth"})
<1>1. \A t \in Live : StateOf(t) = Where[t]
  BY StateOfWhere DEF Places
<1> HIDE DEF Where
<1> QED BY <1>1 DEF InState, InterceptAnswerable, Places, HeldInv, Kept4Cdp

(* The functions that still run.                                           *)
LEMMA NoZombieFollows == ASSUME IInv, Places PROVE NoZombie
<1> SUFFICES ASSUME NEW i \in DOMAIN stack
             PROVE  /\ stack[i].op \in {"pipe", "abort", "deliver", "finish"}
                         => stack[i].id \notin retired
                    /\ ToSet(stack[i].todo) \cap retired = {}
  BY DEF NoZombie
<1>1. stack[i] \in On
  BY Positions DEF Places
<1>2. stack[i].op \in Working => stack[i].id \in Live
  BY <1>1 DEF Places, BusyInv, Workers
<1>3. /\ stack[i].todo \in Seq(Born) /\ Born \subseteq Ids
      /\ stack[i].op # "flush" => stack[i].todo = <<>>
  <2>1. stack[i] \in KnownFrames(Born)
    BY <1>1, KnownOn
  <2> QED BY <2>1 DEF KnownFrames, Born
<1>4. ASSUME NEW t \in ToSet(stack[i].todo) PROVE t \notin retired
  <2>1. PICK q : q = stack[i].todo
    OBVIOUS
  <2>2. PICK k \in DOMAIN q : t = q[k]
    BY <1>4, <2>1 DEF ToSet
  <2>3. DOMAIN q = 1..Len(q) /\ t \in Ids
    BY <1>3, <2>1, <2>2, LenProperties, ElementOfSeq
  <2>4. q # <<>>
    BY <2>2, <2>3
  <2>5. Contains(q, t)
    BY <2>2, <2>3 DEF Contains
  <2>6. t \in Todos
    BY <1>1, <1>3, <2>1, <2>3, <2>4, <2>5 DEF Todos
  <2> QED BY <2>6 DEF Places, GateInv, Live
<1> QED BY <1>2, <1>4 DEF Working, Live

(* What runs under a blocking request.                                     *)
LEMMA StacksFollow == ASSUME IInv, Places PROVE CallbackStacks
<1>1. NoJsWhileBlocking
  <2>1. \A i, j \in DOMAIN stack : i < j => Over(stack[i], stack[j])
    BY Positions DEF Places
  <2> QED BY <2>1 DEF NoJsWhileBlocking, Over
<1>2. NoConnInCallback
  <2> SUFFICES ASSUME NEW i \in DOMAIN stack, stack[i].op = "deliver", stack[i].id \in conns
               PROVE  stack[i].id \in StreamReqs
    BY DEF NoConnInCallback
  <2>1. PICK D, t : D = stack[i] /\ t = D.id
    OBVIOUS
  <2>2. D \in Workers /\ D.op = "deliver" /\ t \in conns
    BY <2>1, Positions DEF Places, Workers, Working
  <2>3. t \in Live /\ t \in Ids /\ state[t] \in {"delivering", "aborted"}
    BY <2>1, <2>2 DEF Places, BusyInv, Live
  <2>4. Where[t] # "inflight"
    <3>1. CASE Saves[t] = {}
      BY <2>3, <3>1, WhereIs
    <3>2. CASE Saves[t] # {}
      <4>1. PICK f \in On : f.op = "abort" /\ f.id = t
        BY <2>3, <3>2 DEF Saves
      <4>2. f \in Workers
        BY <4>1 DEF Workers, Working
      <4>3. f.how = "delivering"
        BY <2>1, <2>2, <4>1, <4>2, Sole DEF Places
      <4>4. Where[t] = "delivering"
        BY <2>3, <4>1, <4>2, <4>3, WhereSaved DEF Places
      <4> HIDE DEF Where
      <4> QED BY <4>4
    <3> QED BY <3>1, <3>2
  <2> HIDE DEF Where
  <2> QED BY <2>1, <2>2, <2>3, <2>4 DEF Places, PoolInv
<1> QED BY <1>1, <1>2 DEF CallbackStacks

(* Who is behind an entry is behind that one only.                         *)
LEMMA BehindIs ==
  ASSUME IInv, Places, NEW s \in Slots, NEW t, Contains(waiters[s], t)
  PROVE  /\ t \in Reqs /\ t \in Ids /\ s \in open /\ Where[t] = StateAt(s)
         /\ s = SlotAt(t, Where[t]) /\ Where[t] \in AtGate
<1>1. t \in Queue(s)
  BY OnceMeans DEF Places, GateInv
<1>2. PICK g \in Gates, k \in Keys : s = <<g, k>>
  BY DEF Slots
<1>3. s[1] = g /\ s[2] = k /\ g \in {"robots", "cors"}
  BY <1>2 DEF Gates
<1>4. t \in Reqs /\ s \in open /\ Where[t] = StateAt(s) /\ KeyOf[g][t] = k
  BY <1>1, <1>3 DEF Queue
<1> HIDE DEF Where
<1>5. /\ t \in Ids /\ Where[t] \in AtGate
      /\ SlotAt(t, Where[t]) = <<g, k>>
  BY <1>3, <1>4 DEF StateAt, SlotAt, AtGate, Ids
<1> QED BY <1>2, <1>4, <1>5

(* The gates and their flights.                                            *)
LEMMA GatesFollow == ASSUME IInv, Places PROVE GatesServed
<1>1. \A A : "none" \notin A => InState(A) = {t \in Ids : Where[t] \in A}
  BY InStateWhere DEF Places
<1>2. \A t \in Ids : Where[t] = "none" <=> t \notin Live
  BY WhereLive DEF Places
<1> HIDE DEF Where
<1>3. InState({"parked_robots", "parked_cors"}) = {t \in Ids : Where[t] \in AtGate}
  BY <1>1 DEF AtGate
<1>4. \A s \in open : \E f \in Fetches \cap Live : fetchOf[f] = s /\ outcome[f] = <<>>
  BY <1>2 DEF Places, GateInv, Ids
<1>5. ASSUME NEW s \in Slots, waiters[s] # <<>> PROVE s \in open
  <2>1. Queue(s) # {}
    BY <1>5, OnceMeans DEF Places, GateInv
  <2> QED BY <2>1 DEF Queue
<1>6. ASSUME NEW t \in Ids, Behind(t) # {}
      PROVE  /\ t \in InState({"parked_robots", "parked_cors"})
             /\ Cardinality(Behind(t)) = 1
  <2>1. PICK s \in Behind(t) : TRUE
    BY <1>6
  <2>2. \A r \in Behind(t) : r = SlotAt(t, Where[t]) /\ Where[t] \in AtGate
    BY BehindIs DEF Behind
  <2>3. Behind(t) = {s}
    BY <2>1, <2>2
  <2> QED BY <1>3, <2>2, <2>3, FS_Singleton
<1>7. ASSUME ~OnStack("kill"), NEW t \in InState({"parked_robots", "parked_cors"})
      PROVE  Behind(t) # {} \/ Flushing(t)
  <2>1. t \in Ids /\ Where[t] \in AtGate
    BY <1>3, <1>7
  <2>2. ~Dying
    BY <1>7, Positions DEF Places, Dying, OnStack
  <2>3. t \in Reqs /\ (t \in Todos \/ SlotAt(t, Where[t]) \in open)
    BY <2>1, <2>2 DEF Places, GateInv
  <2>4. CASE t \in Todos
    BY <2>4, Positions DEF Places, Todos, Flushing
  <2>5. CASE t \notin Todos
    <3>1. PICK s : s = SlotAt(t, Where[t])
      OBVIOUS
    <3>2. s \in open /\ s \in Slots
      BY <2>3, <2>5, <3>1 DEF IInv, Data, Flights
    <3>3. StateAt(s) = Where[t] /\ KeyOf[s[1]][t] = s[2]
      BY <2>1, <3>1 DEF SlotAt, StateAt, AtGate
    <3>4. t \in Queue(s)
      BY <2>3, <2>5, <3>2, <3>3 DEF Queue
    <3>5. Contains(waiters[s], t)
      BY <3>2, <3>4, OnceMeans DEF Places, GateInv
    <3> QED BY <3>2, <3>5 DEF Behind
  <2> QED BY <2>4, <2>5
<1> QED BY <1>4, <1>5, <1>6, <1>7 DEF GatesServed

-----------------------------------------------------------------------------
(* What holds in every reachable state                                     *)

(* If Careful, no assertion of the client fails: no unpark of a transfer   *)
(* that is not parked, no scheduleDispatch from a wrong state, no second   *)
(* deinit, no unlink from a queue the transfer is not in, no second        *)
(* blocking request of one frame, nothing left over by Client.abort.  What *)
(* Careful excludes does make assertions fail (run HttpClient_streamAbort; *)
(* errSync, cancelDetached): the theorem says that nothing else does.      *)
THEOREM OnlyHazardsBreakAssertions == ASSUME Careful PROVE Spec => []AssertsHold
<1>1. Places => AssertsHold
  BY DEF Places, AssertsHold
<1> QED BY <1>1, EverythingInPlace, PTL

(* If Careful, the intrusive queues hold the transfers their states name,  *)
(* each once, and the counters behind Client.activity do not drift.        *)
THEOREM QueuesAreExact == ASSUME Careful PROVE Spec => []QueuesExact
<1>1. IInv /\ Places => QueuesExact
  BY QueuesFollow
<1> QED BY <1>1, EverythingInPlace, PTL

(* If Careful, no connection of the pool is lost or held by a transfer     *)
(* that is not being worked for.                                           *)
THEOREM PoolIsExact == ASSUME Careful PROVE Spec => []PoolExact
<1>1. IInv /\ Places => PoolExact
  BY PoolFollows
<1> QED BY <1>1, EverythingInPlace, PTL

(* Of the live transfers InterceptState.waiting has none but the parked.   *)
HeldAreParked == held \cap Live \subseteq InState({"parked_intercept", "parked_auth"})

(* If Careful, a live transfer is parked for the CDP client exactly while  *)
(* it is in InterceptState.waiting: a command or BrowserContext.deinit can *)
(* resume it, and unparks nobody else.  A refused answer (badAnswer) does  *)
(* leave one parked that is not held (fetch.zig:187, 308).                 *)
THEOREM EveryParkedIsHeld ==
  ASSUME Careful PROVE Spec => [](InterceptAnswerable /\ HeldAreParked)
<1>1. IInv /\ Places => InterceptAnswerable /\ HeldAreParked
  BY AnswerableFollows DEF HeldAreParked
<1> QED BY <1>1, EverythingInPlace, PTL

(* If Careful, no function of the client goes on with a transfer that      *)
(* deinit has freed, whatever a callback in between has torn down.         *)
THEOREM NoneWorksForTheDead == ASSUME Careful PROVE Spec => []NoZombie
<1>1. IInv /\ Places => NoZombie
  BY NoZombieFollows
<1> QED BY <1>1, EverythingInPlace, PTL

(* If Careful, nothing runs under a blocking request, a module's wait or a *)
(* callback that startPending, isGated and releaseConn keep away from it.  *)
THEOREM CallbacksKeepOrder == ASSUME Careful PROVE Spec => []CallbackStacks
<1>1. IInv /\ Places => CallbackStacks
  BY StacksFollow
<1> QED BY <1>1, EverythingInPlace, PTL

(* If Careful, a transfer parked at the robots or the CORS gate waits for  *)
(* a fetch that will flush it, or is being flushed (SingleFlight).         *)
THEOREM NoneWaitsForNothing == ASSUME Careful PROVE Spec => []GatesServed
<1>1. IInv /\ Places => GatesServed
  BY GatesFollow
<1> QED BY <1>1, EverythingInPlace, PTL

(* Done, error and shutdown exclude each other, and none comes twice.       *)
AnsweredOnce == \A t \in Ids : Len(outcome[t]) <= 1

(* If none of HazardNames occurs the consumer of a request hears of its    *)
(* end at most once - done, error or shutdown - whoever ends it.  A done   *)
(* callback that fails does get a second one (doneFail).                   *)
THEOREM ToldOnce == ASSUME Hazards = {} PROVE Spec => []AnsweredOnce
<1>1. Careful
  BY DEF Careful
<1>2. Init => AnsweredOnce
  BY DEF Init, AnsweredOnce
<1>3. IInv /\ IInv' /\ Places /\ OrderInv /\ AnsweredOnce /\ [Next]_vars => AnsweredOnce'
  <2> SUFFICES ASSUME IInv, IInv', Places, OrderInv, AnsweredOnce, [Next]_vars,
                      NEW t \in Ids
               PROVE  Len(outcome'[t]) <= 1
    BY DEF AnsweredOnce
  <2>1. Terse(t)
    BY <1>1, NextOrderly DEF Given, Orderly
  <2> QED BY <2>1 DEF Terse, AnsweredOnce
<1>4. Spec => [](IInv /\ Places /\ OrderInv)
  BY <1>1, EverythingInPlace
<1> QED BY <1>2, <1>3, <1>4, PTL DEF Spec

-----------------------------------------------------------------------------
(* What a step does to a request                                           *)

(* The requests other than t see nothing of it.                            *)
Alone(t) ==
  \A u \in Reqs \ {t} :
    /\ state'[u] = state[u] /\ outcome'[u] = outcome[u]
    /\ u \in retired' <=> u \in retired
    /\ u \in conns' <=> u \in conns

(* t is made, or refused at once; or it is live and its transfer ends, it  *)
(* is left alone or gives its connection back, it is answered, or it takes *)
(* a connection.                                                           *)
Made(t) == /\ state[t] = "none" /\ t \notin conns \cup conns' \cup retired
           /\ t \in retired' \/ outcome'[t] = <<>>
Fate(t) ==
  /\ state'[t] # "none"
  /\ \/ Made(t)
     \/ t \in Live /\ t \in retired' /\ t \notin conns'
     \/ /\ t \in Live /\ t \notin retired' /\ outcome'[t] = outcome[t]
        /\ t \in conns' => t \in conns
     \/ /\ t \in Live /\ t \notin retired' /\ outcome'[t] # <<>>
        /\ t \in conns' <=> t \in conns
     \/ /\ t \in Live /\ t \notin retired' /\ outcome'[t] = <<>> /\ outcome[t] = <<>>
        /\ t \in conns' /\ t \notin conns /\ free > 0

(* A step about one transfer, and one about none.                          *)
About(t) == Alone(t) /\ (t \in Reqs => Fate(t))
Nobody == UNCHANGED <<state, retired, outcome, conns>>
Mild == Nobody \/ \E t \in Ids : About(t)

(* How far the callbacks go: one outcome is added, if any.                 *)
Speaks(t) == /\ \A u \in Ids \ {t} : outcome'[u] = outcome[u]
             /\ outcome'[t] = outcome[t] \/ outcome'[t] # <<>>
Changes(t) == /\ \A u \in Ids \ {t} : state'[u] = state[u]
              /\ state'[t] # "none"

(* A state is written.                                                     *)
LEMMA Written ==
  ASSUME IInv, NEW t \in Ids, NEW l, l # "none",
         state' = [state EXCEPT ![t] = l]
  PROVE  Changes(t)
<1>1. state \in [Ids -> States]
  BY DEF IInv, Data, Life
<1> QED BY <1>1 DEF Changes

(* An outcome is added.                                                    *)
LEMMA Added ==
  ASSUME IInv, NEW t \in Ids, NEW w,
         \/ outcome' = outcome
         \/ outcome' = [outcome EXCEPT ![t] = Append(@, w)]
  PROVE  Speaks(t)
<1>1. outcome \in [Ids -> Seq({"done", "err", "shutdown"})]
  BY DEF IInv, Data, Calls
<1>2. CASE outcome' = outcome
  BY <1>2 DEF Speaks
<1>3. CASE outcome' = [outcome EXCEPT ![t] = Append(@, w)]
  <2>1. PICK e : e = outcome[t]
    OBVIOUS
  <2>2. e \in Seq({"done", "err", "shutdown"} \cup {w})
    BY <1>1, <2>1, SeqGrows
  <2>3. Append(e, w) # <<>>
    <3>1. Len(Append(e, w)) = Len(e) + 1 /\ Len(e) \in Nat
      BY <2>2, AppendProperties, LenProperties
    <3>2. Len(<<>>) = 0
      OBVIOUS
    <3> QED BY <3>1, <3>2
  <2>4. outcome'[t] = Append(e, w) /\ \A u \in Ids \ {t} : outcome'[u] = outcome[u]
    BY <1>1, <1>3, <2>1
  <2> QED BY <2>3, <2>4 DEF Speaks
<1> QED BY <1>2, <1>3

(* requestFailed adds one, if any.                                         *)
LEMMA FailedAdds ==
  ASSUME IInv, NEW t \in Ids, NEW ab, NEW below, requestFailed(t, ab, below)
  PROVE  Speaks(t)
<1>1. outcome \in [Ids -> Seq({"done", "err", "shutdown"})]
  BY DEF IInv, Data, Calls
<1>2. \/ outcome' = outcome
      \/ outcome' = [outcome EXCEPT ![t] = IF t \in detached THEN @ ELSE Append(@, "err")]
  BY DEF requestFailed
<1>3. \/ outcome' = outcome
      \/ outcome' = [outcome EXCEPT ![t] = Append(@, "err")]
  <2>1. outcome = [outcome EXCEPT ![t] = @]
    BY <1>1
  <2> QED BY <1>2, <2>1
<1> QED BY <1>3, Added

(* A live transfer is left alone, loses its connection or is answered.     *)
LEMMA LiveKept ==
  ASSUME Given, NEW t \in Live, Changes(t) \/ UNCHANGED state, UNCHANGED retired,
         \/ Speaks(t) /\ UNCHANGED conns
         \/ UNCHANGED outcome /\ conns' \in {conns, conns \ {t}}
  PROVE  About(t)
<1>1. Reqs \subseteq Ids /\ t \in Ids /\ t \notin retired /\ state[t] # "none"
  BY DEF Ids, Live
<1>2. /\ \A u \in Ids \ {t} : state'[u] = state[u]
      /\ state'[t] # "none"
  BY <1>1 DEF Changes
<1>3. CASE Speaks(t) /\ UNCHANGED conns
  BY <1>1, <1>2, <1>3 DEF Speaks, About, Alone, Fate
<1>4. CASE UNCHANGED outcome /\ conns' \in {conns, conns \ {t}}
  BY <1>1, <1>2, <1>4 DEF About, Alone, Fate
<1> QED BY <1>3, <1>4

(* A live transfer is retired.                                             *)
LEMMA LiveEnds ==
  ASSUME Given, NEW t \in Live, NEW st, st # "none", deinit(t, st), Speaks(t)
  PROVE  About(t)
<1>1. Reqs \subseteq Ids /\ t \in Ids /\ t \notin retired
  BY DEF Ids, Live
<1>2. /\ retired' = retired \cup {t} /\ state' = [state EXCEPT ![t] = st]
      /\ conns' = conns \ {t}
  BY <1>1 DEF deinit, removeConn
<1>3. Changes(t)
  BY <1>1, <1>2, Written DEF Given
<1> QED BY <1>1, <1>2, <1>3 DEF Changes, Speaks, About, Alone, Fate

-----------------------------------------------------------------------------
(* Every step is about one request at most                                 *)

(* What scheduleDispatch does to it.                                       *)
LEMMA Schedules ==
  ASSUME IInv, NEW t \in Ids, NEW st, st # "none", NEW evs, NEW broken,
         scheduleDispatch(t, st, evs, broken)
  PROVE  Changes(t)
<1>1. state' = [state EXCEPT ![t] = IF st = "delivering" THEN st ELSE "buffered"]
  BY DEF scheduleDispatch
<1> QED BY <1>1, Written

(* What the end of its connection does to the pool.                        *)
LEMMA Removes ==
  ASSUME NEW t, removeConn(t)
  PROVE  conns' \in {conns, conns \ {t}}
BY DEF removeConn

(* abort() tells it and puts its state aside.                              *)
LEMMA AbortsOne ==
  ASSUME Given, NEW t \in Live, NEW below, abort(t, below), UNCHANGED <<retired, conns>>
  PROVE  About(t)
<1>1. t \in Ids /\ state' = [state EXCEPT ![t] = "delivering"]
  BY DEF abort, Live
<1>2. Changes(t)
  BY <1>1, Written DEF Given
<1>3. Speaks(t)
  BY <1>1, FailedAdds DEF abort, Given
<1> QED BY <1>2, <1>3, LiveKept

(* Calls, returns and the world.                                           *)
LEMMA NobodyChanges ==
  ASSUME \/ RunTask \/ TickBegin \/ Quit \/ Exit \/ Exited \/ World
         \/ Return \/ KillEnd \/ StopEnd \/ PipeThrow \/ FlushEnd
         \/ TickUngate \/ TickDispatchEnd \/ TickStep \/ DrainTeardown
         \/ Pump \/ SyncReturn \/ ReleaseOne \/ ImportReturn
         \/ \E t \in Reqs : ImportModule(t)
         \/ \E o \in Owners : AbortOwner(o)
         \/ \E t \in Ids : StreamChunk(t) \/ AnswerNothing(t)
  PROVE  Nobody
<1>1. CASE RunTask \/ TickBegin \/ Quit \/ Exit \/ Exited \/ World
  BY <1>1 DEF RunTask, TickBegin, Quit, Exit, Exited, World, PeerLeaves, Nobody,
              lvars, cbvars, idle, nvars, vars
<1>2. CASE Return \/ KillEnd \/ StopEnd \/ PipeThrow \/ FlushEnd
  BY <1>2 DEF Return, KillEnd, StopEnd, PipeThrow, FlushEnd, Nobody,
              lvars, cbvars, idle, nvars
<1>3. CASE TickUngate \/ TickDispatchEnd \/ TickStep \/ DrainTeardown
  BY <1>3 DEF TickUngate, TickDispatchEnd, TickStep, DrainTeardown, Nobody,
              lvars, cbvars, idle, nvars
<1>4. CASE Pump \/ SyncReturn \/ ReleaseOne \/ ImportReturn
  BY <1>4 DEF Pump, SyncReturn, ReleaseOne, ImportReturn, Nobody,
              lvars, cbvars, idle, nvars
<1>5. CASE \/ \E t \in Reqs : ImportModule(t)
           \/ \E o \in Owners : AbortOwner(o)
  BY <1>5 DEF ImportModule, AbortOwner, Nobody, lvars, cbvars, idle, nvars
<1>6. CASE \E t \in Ids : StreamChunk(t) \/ AnswerNothing(t)
  BY <1>6 DEF StreamChunk, AnswerNothing, Nobody, lvars, cbvars, nvars
<1> QED BY <1>1, <1>2, <1>3, <1>4, <1>5, <1>6

(* Client.request and Transfer.submitSync make a request.                  *)
LEMMA MadeByScript ==
  ASSUME Given, NEW t \in Reqs, Request(t) \/ SyncRequest(t)
  PROVE  About(t)
<1>1. /\ state[t] = "none" /\ state' = [state EXCEPT ![t] = "created"]
      /\ UNCHANGED conns
      /\ \/ UNCHANGED <<retired, outcome>>
         \/ retired' = retired \cup {t} /\ outcome' = [outcome EXCEPT ![t] = <<"err">>]
  BY DEF Request, SyncRequest, idle, cbvars, nvars
<1>2. t \in Ids /\ t \notin conns \cup retired /\ t \notin settled
  BY <1>1, Unborn
<1>3. Changes(t)
  BY <1>1, <1>2, Written DEF Given
<1>4. outcome[t] = <<>> /\ outcome \in [Ids -> Seq({"done", "err", "shutdown"})]
  BY <1>2 DEF Given, Places, AnswerInv, IInv, Data, Calls
<1>5. CASE UNCHANGED <<retired, outcome>>
  BY <1>1, <1>2, <1>3, <1>4, <1>5 DEF Changes, About, Alone, Fate, Made, Ids
<1>6. CASE retired' = retired \cup {t} /\ outcome' = [outcome EXCEPT ![t] = <<"err">>]
  BY <1>1, <1>2, <1>3, <1>4, <1>6 DEF Changes, About, Alone, Fate, Made, Ids
<1> QED BY <1>1, <1>5, <1>6

(* A script, window.stop() or a pump that gives up aborts one.             *)
LEMMA AbortedByScript ==
  ASSUME Given, \/ \E t \in Reqs : Cancel(t)
                \/ \E t \in Ids : StopOne(t)
                \/ SyncAbort
  PROVE  Mild
<1>1. CASE \E t \in Reqs : Cancel(t)
  <2>1. PICK t \in Reqs : Cancel(t)
    BY <1>1
  <2>2. t \in Live /\ abort(t, stack) /\ UNCHANGED <<retired, conns>>
    BY <2>1 DEF Cancel, idle, nvars
  <2> QED BY <2>2, AbortsOne DEF Mild, Live
<1>2. CASE \E t \in Ids : StopOne(t)
  <2>1. PICK t \in Ids : StopOne(t)
    BY <1>2
  <2>2. /\ Running("stop") /\ owner[t] = Top.id /\ abort(t, stack)
        /\ UNCHANGED <<retired, conns>>
    BY <2>1 DEF StopOne, Stoppable, idle, nvars
  <2>3. Top.id \in Owners
    <3>1. Kind(Top) /\ Top.op = "stop"
      BY <2>2, OnTopView DEF Given, Places, Pushes
    <3> QED BY <3>1 DEF Kind
  <2>4. t \in Live
    BY <2>2, <2>3, Constants DEF Given, IInv, OwnerLinks
  <2> QED BY <2>2, <2>4, AbortsOne DEF Mild, Live
<1>3. CASE SyncAbort
  <2>1. PICK t, base : t = Top.id /\ base = <<Sync(Top.id, "exit")>> \o Below
    OBVIOUS
  <2>2. /\ Running("sync") /\ outcome[t] = <<>> /\ abort(t, base)
        /\ UNCHANGED <<retired, conns>>
    BY <1>3, <2>1 DEF SyncAbort, idle, nvars
  <2>3. Top.op = "sync" /\ Top \in On
    BY <2>2, OnTopView DEF Given, Places
  <2>4. t \in Born
    BY <2>1, <2>3, KnownOn DEF Given, TransferOps
  <2>5. t \in Live
    BY <2>2, <2>4 DEF Given, Places, AnswerInv, Born, Live
  <2> QED BY <2>2, <2>5, AbortsOne DEF Mild, Live
<1> QED BY <1>1, <1>2, <1>3

(* finishEarly hands over what a document has received so far.             *)
LEMMA StoppedEarly ==
  ASSUME Given, NEW o \in Owners, StopLoading(o)
  PROVE  Mild
<1>1. /\ UNCHANGED <<retired, outcome>>
      /\ \/ UNCHANGED <<state, conns>>
         \/ \E t \in Reqs : /\ owner[t] = o /\ removeConn(t)
                            /\ scheduleDispatch(t, "inflight", <<"data", "done">>, {})
  BY DEF StopLoading, cbvars, nvars
<1>2. CASE UNCHANGED <<state, conns>>
  BY <1>1, <1>2 DEF Mild, Nobody
<1>3. ASSUME NEW t \in Reqs, owner[t] = o, removeConn(t),
             scheduleDispatch(t, "inflight", <<"data", "done">>, {})
      PROVE  Mild
  <2>1. t \in Live /\ t \in Ids
    BY <1>3, Constants DEF Given, IInv, OwnerLinks, Ids
  <2>2. Changes(t)
    <3>1. "inflight" # "none"
      OBVIOUS
    <3> QED BY <1>3, <2>1, <3>1, Schedules DEF Given
  <2>3. conns' \in {conns, conns \ {t}}
    BY <1>3, Removes
  <2> QED BY <1>1, <2>1, <2>2, <2>3, LiveKept DEF Mild
<1> QED BY <1>1, <1>2, <1>3

(* Teardowns tell a transfer or free it, once each.                        *)
LEMMA TornDown ==
  ASSUME Given, AbortEnd \/ finishDelivery \/ \E t \in Ids : KillOne(t)
  PROVE  Mild
<1>1. CASE AbortEnd
  <2>1. PICK F : F = Top
    OBVIOUS
  <2>2. PICK t : t = F.id
    OBVIOUS
  <2>3. /\ Running("abort") /\ stack' = Below /\ UNCHANGED outcome
        /\ IF F.how = "delivering" THEN detachInDelivery(t) /\ UNCHANGED <<retired, conns>>
                                   ELSE deinit(t, F.how)
    BY <1>1, <2>1, <2>2 DEF AbortEnd, nvars
  <2>4. stack # <<>> /\ F.op = "abort"
    BY <2>1, <2>3 DEF Running, Top
  <2>5. t \in Live /\ t \in Ids /\ F \in Workers
    BY <2>1, <2>2, <2>3, <2>4, TopReturns
  <2>6. Speaks(t)
    BY <2>3 DEF Speaks
  <2>7. CASE F.how = "delivering"
    <3>1. Changes(t)
      BY <2>3, <2>5, <2>7, Written DEF detachInDelivery, Given
    <3> QED BY <2>3, <2>5, <2>6, <2>7, <3>1, LiveKept DEF Mild
  <2>8. CASE F.how # "delivering"
    <3>1. F.how # "none"
      <4>1. F \in On
        BY <2>5 DEF Workers
      <4> QED BY <2>4, <4>1, KnownOn DEF Given
    <3> QED BY <2>3, <2>5, <2>6, <2>8, <3>1, LiveEnds DEF Mild
  <2> QED BY <2>7, <2>8
<1>2. CASE finishDelivery
  <2>1. PICK F : F = Top
    OBVIOUS
  <2>2. PICK t : t = F.id
    OBVIOUS
  <2>3. PICK st : st = state[t]
    OBVIOUS
  <2>4. /\ Running("finish") /\ stack' = Below /\ deinit(t, st)
        /\ \/ outcome' = outcome \/ outcome' = [outcome EXCEPT ![t] = Append(@, "shutdown")]
    BY <1>2, <2>1, <2>2, <2>3 DEF finishDelivery
  <2>5. stack # <<>> /\ F.op = "finish"
    BY <2>1, <2>4 DEF Running, Top
  <2>6. t \in Live /\ t \in Ids /\ st # "none"
    BY <2>1, <2>2, <2>3, <2>4, <2>5, TopReturns
  <2>7. Speaks(t)
    BY <2>4, <2>6, Added DEF Given
  <2> QED BY <2>4, <2>6, <2>7, LiveEnds DEF Mild
<1>3. ASSUME NEW t \in Ids, KillOne(t) PROVE Mild
  <2>1. PICK st : st = state[t]
    OBVIOUS
  <2>2. t \in Live /\ st # "none"
    BY <1>3, <2>1 DEF KillOne, Targets, Live
  <2>3. CASE st = "delivering"
    <3>1. detachInDelivery(t) /\ UNCHANGED <<retired, outcome, conns>>
      BY <1>3, <2>1, <2>3 DEF KillOne, nvars
    <3>2. Changes(t)
      BY <3>1, Written DEF detachInDelivery, Given
    <3> QED BY <2>2, <3>1, <3>2, LiveKept DEF Mild
  <2>4. CASE st # "delivering"
    <3>1. deinit(t, st) /\ outcome' = [outcome EXCEPT ![t] = Append(@, "shutdown")]
      BY <1>3, <2>1, <2>4 DEF KillOne
    <3>2. Speaks(t)
      BY <3>1, Added DEF Given
    <3> QED BY <2>2, <3>1, <3>2, LiveEnds DEF Mild
  <2> QED BY <2>3, <2>4
<1> QED BY <1>1, <1>2, <1>3

(* BrowserContext.deinit answers what the CDP client has not.              *)
LEMMA AnsweredAtExit ==
  ASSUME Given, NEW t \in Ids, AbortHeld(t)
  PROVE  Mild
<1>1. /\ UNCHANGED <<retired, outcome, conns>>
      /\ \/ t \in Live /\ scheduleDispatch(t, "created", <<"err">>, NotParked(t))
         \/ UNCHANGED state
  BY DEF AbortHeld, cbvars, nvars
<1>2. CASE UNCHANGED state
  BY <1>1, <1>2 DEF Mild, Nobody
<1>3. CASE t \in Live /\ scheduleDispatch(t, "created", <<"err">>, NotParked(t))
  <2>1. "created" # "none"
    OBVIOUS
  <2>2. Changes(t)
    BY <1>3, <2>1, Schedules DEF Given
  <2> QED BY <1>1, <1>3, <2>2, LiveKept DEF Mild
<1> QED BY <1>1, <1>2, <1>3

(* A pipeline at a gate: the fetch it may start is nobody's request.       *)
LEMMA GateAbout ==
  ASSUME Given, NEW t \in Live, t = Top.id, NEW gate, EnterGate(gate), UNCHANGED conns
  PROVE  About(t)
<1>1. PICK l : l = IF gate = "cors" THEN "parked_cors" ELSE "parked_robots"
  OBVIOUS
<1>2. \/ state' = [state EXCEPT ![t] = l] /\ UNCHANGED <<retired, outcome>>
      \/ \E f \in Fetches : /\ state' = [state EXCEPT ![t] = l, ![f] = "created"]
                            /\ retired' = retired \ {f}
                            /\ outcome' = [outcome EXCEPT ![f] = <<>>]
  BY <1>1, Zenon DEF EnterGate, cbvars
<1>3. l # "none" /\ t \in Ids
  BY <1>1 DEF Live
<1>4. CASE state' = [state EXCEPT ![t] = l] /\ UNCHANGED <<retired, outcome>>
  <2>1. Changes(t)
    BY <1>3, <1>4, Written DEF Given
  <2> QED BY <1>4, <2>1, LiveKept
<1>5. ASSUME NEW f \in Fetches, state' = [state EXCEPT ![t] = l, ![f] = "created"],
             retired' = retired \ {f}, outcome' = [outcome EXCEPT ![f] = <<>>]
      PROVE  About(t)
  <2>1. /\ state \in [Ids -> States] /\ f \in Ids /\ f \notin Reqs /\ Reqs \subseteq Ids
        /\ outcome \in [Ids -> Seq({"done", "err", "shutdown"})]
    BY Constants DEF Given, IInv, Data, Life, Calls, Ids
  <2>2. t \notin retired /\ state[t] # "none"
    BY DEF Live
  <2>3. ASSUME NEW u \in Reqs \ {t} PROVE state'[u] = state[u] /\ outcome'[u] = outcome[u]
    BY <1>5, <2>1, <2>3
  <2>4. ASSUME t \in Reqs PROVE state'[t] = l /\ outcome'[t] = outcome[t]
    BY <1>5, <2>1, <2>4
  <2> QED BY <1>3, <1>5, <2>1, <2>2, <2>3, <2>4 DEF About, Alone, Fate
<1> QED BY <1>2, <1>4, <1>5

(* The stages of the pipeline.                                             *)
LEMMA Staged ==
  ASSUME Given, \/ PipeStart \/ PipeAfterIntercept \/ PipeAfterCors
                \/ PipeThrottle \/ PipeNetwork
  PROVE  Mild
<1>1. PICK t : t = Top.id
  OBVIOUS
<1>2. Running("pipe")
  BY DEF PipeStart, PipeAfterIntercept, PipeAfterCors, PipeThrottle, PipeNetwork, AtStage
<1>3. t \in Live /\ t \in Ids /\ outcome[t] = <<>> /\ Where[t] = state[t]
  BY <1>1, <1>2, Piped
<1> HIDE DEF Where
<1>4. PICK st : st = state[t] /\ st # "none"
  BY <1>3 DEF Live
<1>5. CASE PipeStart \/ PipeThrottle
  <2>1. /\ UNCHANGED <<retired, outcome, conns>>
        /\ \/ UNCHANGED state
           \/ \E l : l # "none" /\ state' = [state EXCEPT ![t] = l]
    BY <1>1, <1>5, Zenon DEF PipeStart, PipeThrottle, cbvars, nvars
  <2>2. UNCHANGED state \/ Changes(t)
    BY <1>3, <2>1, Written DEF Given
  <2> QED BY <1>3, <2>1, <2>2, LiveKept DEF Mild
<1>6. CASE PipeAfterIntercept \/ PipeAfterCors
  <2>1. /\ UNCHANGED conns
        /\ \/ UNCHANGED <<state, retired, outcome>>
           \/ (\E evs : scheduleDispatch(t, st, evs, {})) /\ UNCHANGED <<retired, outcome>>
           \/ \E gate : EnterGate(gate)
    BY <1>1, <1>4, <1>6, Zenon DEF PipeAfterIntercept, PipeAfterCors, cbvars, nvars
  <2>2. CASE UNCHANGED <<state, retired, outcome>>
    BY <2>1, <2>2 DEF Mild, Nobody
  <2>3. ASSUME NEW evs, scheduleDispatch(t, st, evs, {}), UNCHANGED <<retired, outcome>>
        PROVE  Mild
    <3>1. Changes(t)
      BY <1>3, <1>4, <2>3, Schedules DEF Given
    <3> QED BY <1>3, <2>1, <2>3, <3>1, LiveKept DEF Mild
  <2>4. ASSUME NEW gate, EnterGate(gate) PROVE Mild
    BY <1>1, <1>3, <2>1, <2>4, GateAbout DEF Mild
  <2> QED BY <2>1, <2>2, <2>3, <2>4
<1>7. CASE PipeNetwork
  <2>1. UNCHANGED <<retired, outcome>>
    BY <1>7 DEF PipeNetwork
  <2>2. CASE free = 0
    <3>1. state' = [state EXCEPT ![t] = "queued"] /\ UNCHANGED conns
      BY <1>1, <1>7, <2>2 DEF PipeNetwork, nvars
    <3>2. Changes(t)
      BY <1>3, <3>1, Written DEF Given
    <3> QED BY <1>3, <2>1, <3>1, <3>2, LiveKept DEF Mild
  <2>3. CASE free # 0
    <3>1. /\ state' = [state EXCEPT ![t] = "inflight"] /\ conns' = conns \cup {t}
      BY <1>1, <1>7, <2>3 DEF PipeNetwork
    <3>2. Changes(t)
      BY <1>3, <3>1, Written DEF Given
    <3>3. free > 0
      <4>1. free \in Int /\ free >= 0
        BY DEF Given, IInv, Data, Network, Places, PoolInv
      <4> QED BY <2>3, <4>1
    <3>4. t \notin retired /\ Reqs \subseteq Ids
      BY <1>3 DEF Live, Ids
    <3>5. outcome'[t] = <<>> /\ outcome'[t] = outcome[t]
      BY <1>3, <2>1
    <3>6. Alone(t)
      BY <2>1, <3>1, <3>2, <3>4 DEF Alone, Changes
    <3>7. Fate(t)
      BY <1>3, <2>1, <3>1, <3>2, <3>3, <3>4, <3>5 DEF Fate, Changes
    <3> QED BY <1>3, <3>6, <3>7 DEF Mild, About
  <2> QED BY <2>2, <2>3
<1> QED BY <1>5, <1>6, <1>7

(* The failure of a pipeline.                                              *)
LEMMA FailedAbout == ASSUME Given, PipeFailed PROVE Mild
<1>1. PICK t : t = Top.id
  OBVIOUS
<1>2. Running("pipe") /\ Top.how = "failed" /\ UNCHANGED retired
  BY DEF PipeFailed, AtStage
<1>3. /\ t \in Live /\ t \in Ids /\ state[t] \in {"created", "inflight"}
      /\ Pushes(Top, Below) /\ Top.op = "pipe" /\ Top.pc \in Callers
  BY <1>1, <1>2, Piped
<1>4. Top.pc # Resumer
  BY <1>2, <1>3 DEF Pushes, Kind
<1>5. Top.pc \in {Submitter, Ticker, Redirect}
  BY <1>3, <1>4 DEF Callers
<1>6. Submitter # Ticker /\ Submitter # Redirect /\ Ticker # Redirect
      /\ Ticker # Resumer /\ Redirect # Resumer
  BY DEF Submitter, Ticker, Redirect, Resumer
<1>7. CASE Top.pc = Submitter
  <2>1. abort(t, Below) /\ UNCHANGED conns
    BY <1>1, <1>3, <1>6, <1>7 DEF PipeFailed, nvars
  <2> QED BY <1>2, <1>3, <2>1, AbortsOne DEF Mild
<1>8. CASE Top.pc = Redirect
  <2>1. PICK st : st = state[t] /\ st # "none"
    BY <1>3 DEF Live
  <2>2. removeConn(t) /\ scheduleDispatch(t, st, <<"err">>, {}) /\ UNCHANGED outcome
    BY <1>1, <1>6, <1>8, <2>1 DEF PipeFailed
  <2>3. Changes(t)
    BY <1>3, <2>1, <2>2, Schedules DEF Given
  <2>4. conns' \in {conns, conns \ {t}}
    BY <2>2, Removes
  <2> QED BY <1>2, <1>3, <2>2, <2>3, <2>4, LiveKept DEF Mild
<1>9. CASE Top.pc = Ticker
  <2>1. /\ UNCHANGED <<outcome, conns>>
        /\ scheduleDispatch(t, "created", <<"err">>, {}) \/ UNCHANGED state
    BY <1>1, <1>6, <1>9 DEF PipeFailed, nvars
  <2>2. Changes(t) \/ UNCHANGED state
    <3>1. "created" # "none"
      OBVIOUS
    <3> QED BY <1>3, <2>1, <3>1, Schedules DEF Given
  <2> QED BY <1>2, <1>3, <2>1, <2>2, LiveKept DEF Mild
<1> QED BY <1>5, <1>7, <1>8, <1>9

(* A waiter that a flush resumes or refuses.                               *)
LEMMA FlushedAbout == ASSUME Given, FlushOne PROVE Mild
<1>1. PICK w : w = Head(Top.todo)
  OBVIOUS
<1>2. PICK G : G = [Top EXCEPT !.todo = Tail(@)]
  OBVIOUS
<1>3. /\ Running("flush") /\ Top.todo # <<>> /\ UNCHANGED <<retired, outcome, conns>>
      /\ \/ state' = [state EXCEPT ![w] = "created"]
         \/ scheduleDispatch(w, "created", <<"err">>, NotParked(w))
  BY <1>1 DEF FlushOne, cbvars, nvars
<1>4. w \in Live /\ w \in Ids
  BY <1>1, <1>2, <1>3, FlushesIs DEF FlushIs
<1>5. Changes(w)
  <2>1. "created" # "none"
    OBVIOUS
  <2>2. CASE state' = [state EXCEPT ![w] = "created"]
    BY <1>4, <2>1, <2>2, Written DEF Given
  <2>3. CASE scheduleDispatch(w, "created", <<"err">>, NotParked(w))
    BY <1>4, <2>1, <2>3, Schedules DEF Given
  <2> QED BY <1>3, <2>2, <2>3
<1> QED BY <1>3, <1>4, <1>5, LiveKept DEF Mild

(* The tick takes the head of a queue, or libcurl or CDP has an answer.    *)
LEMMA TickedAbout ==
  ASSUME Given, \/ TickDispatch \/ TickDelayed \/ TickPending
                \/ \E t \in Ids : \/ ProcessOneMessage(t) \/ ProcessRedirect(t)
                                  \/ ProcessAuth(t)
                                  \/ AnswerResume(t) \/ AnswerBuffer(t)
  PROVE  Mild
<1>1. CASE TickDispatch
  <2>1. PICK t : t = Head(dispatch)
    OBVIOUS
  <2>2. /\ Running("tick") /\ dispatch # <<>> /\ UNCHANGED <<retired, outcome, conns>>
        /\ state' = [state EXCEPT ![t] = "delivering"] \/ UNCHANGED state
    BY <1>1, <2>1 DEF TickDispatch, At, cbvars, nvars
  <2>3. t \in InDispatch /\ t \in Ids
    <3>1. Once(dispatch, InDispatch)
      BY DEF Given, Places, DispatchInv
    <3>2. t \in Ids
      BY <2>1, <2>2, PopSeq DEF Given, IInv, Data, Dispatcher, Born
    <3> HIDE DEF InDispatch
    <3> QED BY <2>1, <2>2, <3>1, <3>2, OnceTail
  <2>4. Where[t] \in {"buffered", "inflight"}
    BY <2>3 DEF Given, Places, DispatchInv
  <2>5. t \in Live
    BY <2>2, <2>3, <2>4, TickOn
  <2>6. Changes(t) \/ UNCHANGED state
    <3>1. "delivering" # "none"
      OBVIOUS
    <3> QED BY <2>2, <2>3, <3>1, Written DEF Given
  <2> QED BY <2>2, <2>3, <2>5, <2>6, LiveKept DEF Mild
<1>2. CASE TickDelayed \/ TickPending
  <2>1. PICK t : t = (IF TickDelayed THEN Head(delayed) ELSE Head(pending))
    OBVIOUS
  <2>2. /\ Running("tick") /\ UNCHANGED <<retired, outcome, conns>>
        /\ state' = [state EXCEPT ![t] = "created"]
        /\ \/ delayed # <<>> /\ t = Head(delayed)
           \/ pending # <<>> /\ t = Head(pending)
    BY <1>2, <2>1 DEF TickDelayed, TickPending, At, cbvars, nvars
  <2>3. t \in Ids /\ Where[t] \in {"delayed", "queued"}
    <3> DEFINE A == {u \in Ids : Where[u] = "delayed"}
               B == {u \in Ids : Where[u] = "queued"}
    <3>1. Once(delayed, A) /\ Once(pending, B)
      BY DEF Given, Places, DelayedInv, PendingInv
    <3> HIDE DEF A, B
    <3>2. t \in A \/ t \in B
      BY <2>2, <3>1, OnceTail
    <3> QED BY <3>2 DEF A, B
  <2>4. t \in Live
    BY <2>2, <2>3, TickOn
  <2>5. Changes(t)
    BY <2>2, <2>3, Written DEF Given
  <2> QED BY <2>2, <2>4, <2>5, LiveKept DEF Mild, Live
<1>3. ASSUME NEW t \in Ids, ProcessOneMessage(t) \/ ProcessRedirect(t) \/ ProcessAuth(t)
      PROVE  Mild
  <2>1. PICK st : st = state[t]
    OBVIOUS
  <2>2. ~ProcessAborted(t)
    BY DEF ProcessAborted, Given, Careful
  <2>3. /\ Answered(t) /\ removeConn(t) /\ UNCHANGED <<retired, outcome>>
        /\ \/ \E evs : scheduleDispatch(t, st, evs, {})
           \/ \E l : l # "none" /\ state' = [state EXCEPT ![t] = l]
    BY <1>3, <2>1, <2>2, Zenon
       DEF ProcessOneMessage, ProcessResponse, ProcessRedirect, ProcessAuth, cbvars
  <2>4. t \in Live /\ st # "none"
    BY <2>1, <2>3, AnsweredIs DEF Live
  <2>5. Changes(t)
    BY <2>3, <2>4, Written, Schedules DEF Given
  <2>6. conns' \in {conns, conns \ {t}}
    BY <2>3, Removes
  <2> QED BY <2>3, <2>4, <2>5, <2>6, LiveKept DEF Mild
<1>4. ASSUME NEW t \in Ids, AnswerResume(t) \/ AnswerBuffer(t) PROVE Mild
  <2>1. /\ t \in Live /\ UNCHANGED <<retired, outcome, conns>>
        /\ \/ state' = [state EXCEPT ![t] = "created"]
           \/ \E evs : scheduleDispatch(t, "created", evs, NotParked(t))
    BY <1>4, Zenon DEF AnswerResume, AnswerBuffer, Unpark, cbvars, nvars
  <2>2. Changes(t)
    <3>1. "created" # "none"
      OBVIOUS
    <3> QED BY <2>1, <3>1, Written, Schedules DEF Given
  <2> QED BY <2>1, <2>2, LiveKept DEF Mild
<1> QED BY <1>1, <1>2, <1>3, <1>4

(* A callback says something, once.                                        *)
LEMMA DeliveredAbout ==
  ASSUME Given, DeliverData \/ DeliverDone \/ DeliverErr \/ DeliverEnd \/ JsFail
  PROVE  Mild
<1>1. CASE DeliverData \/ DeliverDone \/ DeliverErr
  <2>1. PICK t : t = Top.id
    OBVIOUS
  <2>2. PICK ev : Delivering(ev)
    BY <1>1, Zenon DEF DeliverData, DeliverDone, DeliverErr
  <2>3. t \in Live /\ t \in Ids
    BY <2>1, <2>2, DeliveringIs
  <2>4. /\ UNCHANGED <<state, retired, conns>>
        /\ \/ UNCHANGED outcome
           \/ outcome' = [outcome EXCEPT ![t] = Append(@, "done")]
           \/ \E ab, below : requestFailed(t, ab, below)
    BY <1>1, <2>1, Zenon
       DEF DeliverData, DeliverDone, DeliverErr, failDelivery, lvars, nvars
  <2>5. Speaks(t)
    BY <2>3, <2>4, Added, FailedAdds DEF Given
  <2> QED BY <2>3, <2>4, <2>5, LiveKept DEF Mild
<1>2. CASE DeliverEnd
  <2>1. PICK t : t = Top.id
    OBVIOUS
  <2>2. /\ Running("deliver") /\ UNCHANGED <<retired, outcome, conns>>
        /\ state' = [state EXCEPT ![t] = "inflight"] \/ UNCHANGED state
    BY <1>2, <2>1 DEF DeliverEnd, cbvars, idle, nvars
  <2>3. stack # <<>> /\ Top.op = "deliver"
    BY <2>2 DEF Running, Top
  <2>4. Top \in Workers
    BY <2>3, TopWorks DEF Given, Places, Working
  <2>5. t \in Live /\ t \in Ids
    BY <2>1, <2>4 DEF Given, Places, BusyInv, Live
  <2>6. Changes(t) \/ UNCHANGED state
    BY <2>2, <2>5, Written DEF Given
  <2> QED BY <2>2, <2>5, <2>6, LiveKept DEF Mild
<1>3. CASE JsFail
  <2>1. PICK f : f = Top
    OBVIOUS
  <2>2. PICK t : t = f.id
    OBVIOUS
  <2>3. PICK s : s = Below
    OBVIOUS
  <2>4. PICK D : D = Head(s)
    OBVIOUS
  <2>5. /\ Running("js") /\ f.how \in {"data", "done"}
        /\ \E ab, below : requestFailed(t, ab, below)
        /\ UNCHANGED <<state, retired, conns>>
    BY <1>3, <2>1, <2>2, <2>3
       DEF JsFail, InJs, failDelivery, lvars, idle, nvars
  <2>6. /\ stack # <<>> /\ f.op = "js" /\ Sound(s) /\ Pushes(f, s) /\ On = {f} \cup FramesIn(s)
    BY <2>1, <2>3, <2>5, OnTopView DEF Given, Places, Rest
  <2>7. s # <<>> /\ D.op = "deliver" /\ D.id = t
    BY <2>2, <2>4, <2>5, <2>6 DEF Pushes, Reports, CalledBy
  <2>8. DeliverOn(s, D)
    BY <2>4, <2>6, <2>7 DEF DeliverOn
  <2>9. t \in Live /\ t \in Ids
    BY <2>7, <2>8, DeliverIs
  <2>10. Speaks(t)
    BY <2>5, <2>9, FailedAdds DEF Given
  <2> QED BY <2>5, <2>9, <2>10, LiveKept DEF Mild
<1> QED BY <1>1, <1>2, <1>3

(* So every step of the client is about one request at most.               *)
LEMMA EveryStepMild == ASSUME Given, [Next]_vars PROVE Mild
<1>1. CASE Loop \/ World \/ Exited
  BY <1>1, NobodyChanges, AnsweredAtExit DEF Loop, Mild
<1>2. CASE Script
  <2>1. CASE Return \/ JsFail
    BY <2>1, NobodyChanges, DeliveredAbout DEF Mild
  <2>2. CASE \E t \in Reqs : Request(t) \/ SyncRequest(t) \/ ImportModule(t) \/ Cancel(t)
    <3>1. Reqs \subseteq Ids
      BY DEF Ids
    <3> QED BY <2>2, <3>1, NobodyChanges, MadeByScript, AbortedByScript DEF Mild
  <2>3. CASE \E o \in Owners : AbortOwner(o) \/ StopLoading(o)
    BY <2>3, NobodyChanges, StoppedEarly DEF Mild
  <2> QED BY <1>2, <2>1, <2>2, <2>3 DEF Script
<1>3. CASE Teardown
  BY <1>3, NobodyChanges, TornDown, AbortedByScript DEF Teardown, Mild
<1>4. CASE Pipeline
  BY <1>4, NobodyChanges, Staged, FailedAbout, FlushedAbout DEF Pipeline, Mild
<1>5. CASE Ticking
  BY <1>5, NobodyChanges, TickedAbout DEF Ticking, Process, Answer, Mild
<1>6. CASE Delivery
  BY <1>6, DeliveredAbout, TornDown DEF Delivery
<1>7. CASE Waiting
  BY <1>7, NobodyChanges, AbortedByScript DEF Waiting, Mild
<1>8. CASE UNCHANGED vars
  BY <1>8 DEF vars, lvars, cbvars, nvars, Mild, Nobody
<1> QED BY <1>1, <1>2, <1>3, <1>4, <1>5, <1>6, <1>7, <1>8 DEF Next

-----------------------------------------------------------------------------
(* The promise of RequestLifecycle                                         *)

(* What nobody works for has no connection.                                *)
LEMMA RetiredHasNone ==
  ASSUME IInv, Places, NEW t \in Reqs, t \notin Live
  PROVE  t \notin conns
<1>1. t \in Ids
  BY DEF Ids
<1>2. Where[t] = "none"
  BY <1>1, WhereLive DEF Places
<1> QED BY <1>1, <1>2 DEF Places, PoolInv

(* A step about one transfer leaves the retired requests alone.            *)
LEMMA MildQuiesced == ASSUME Given, Mild PROVE Quiesced
<1>1. \A u \in Reqs \cap retired : u \notin conns
  BY RetiredHasNone DEF Given, Live
<1>2. CASE Nobody
  BY <1>1, <1>2 DEF Nobody, Quiesced
<1>3. ASSUME NEW t \in Ids, About(t) PROVE Quiesced
  <2>1. t \in Reqs => t \notin retired
    BY <1>3 DEF About, Fate, Made, Live
  <2> QED BY <1>1, <1>3, <2>1 DEF About, Alone, Quiesced
<1> QED BY <1>2, <1>3 DEF Mild

(* The consumer's view of the client, for one who does not mind a second   *)
(* callback after the first.                                               *)
PhaseOf(t) == IF state[t] = "none"      THEN "idle"
              ELSE IF t \in retired     THEN "gone"
              ELSE IF outcome[t] # <<>> THEN "answered" ELSE "open"
PhaseMap == [t \in Reqs |-> PhaseOf(t)]
Leased   == conns \cap Reqs

(* RequestLifecycle, but an answer may be given more than once.            *)
Forgiving == INSTANCE RequestLifecycle WITH
  Endless <- StreamReqs, leased <- conns \cap Reqs,
  phase <- [t \in Reqs |-> IF state[t] = "none"      THEN "idle"
                          ELSE IF t \in retired     THEN "gone"
                          ELSE IF outcome[t] # <<>> THEN "answered" ELSE "open"]

(* Both specifications count alike.                                        *)
LEMMA CountAlike == \A S : Forgiving!Cardinality(S) = Cardinality(S)
BY DEF Forgiving!Cardinality, Cardinality

(* So does the strict one.                                                *)
LEMMA CountOnce == \A S : Lifecycle!Cardinality(S) = Cardinality(S)
BY DEF Lifecycle!Cardinality, Cardinality

(* The pool's limit holds for the requests alone.                          *)
LEMMA LeasesLeft ==
  ASSUME IInv, Places, free > 0
  PROVE  Cardinality(Leased) < Conns
<1>1. free + Cardinality(conns) = Conns /\ IsFiniteSet(conns)
  <2>1. IsFiniteSet(Ids) /\ conns \subseteq Ids
    BY Constants DEF IInv, Data, Network, Born
  <2> QED BY <2>1, FS_Subset DEF Places, PoolInv
<1>2. /\ IsFiniteSet(Leased) /\ Cardinality(Leased) <= Cardinality(conns)
      /\ Cardinality(Leased) \in Nat /\ Cardinality(conns) \in Nat
  BY <1>1, FS_Subset, FS_CardinalityType DEF Leased
<1>3. Conns \in Nat /\ free \in Int
  BY Constants DEF IInv, Data, Network
<1> QED BY <1>1, <1>2, <1>3

(* What a step about t is for the consumer.                                *)
LEMMA ConsumerSees ==
  ASSUME Given, NEW t \in Reqs, Alone(t), Fate(t)
  PROVE  /\ PhaseMap' = [PhaseMap EXCEPT ![t] = PhaseMap'[t]]
         /\ Leased' \in {Leased, Leased \cup {t}, Leased \ {t}}
         /\ \/ PhaseOf(t) = "idle" /\ PhaseMap'[t] \in {"open", "gone"} /\ Leased' = Leased
            \/ /\ PhaseOf(t) \in {"open", "answered"} /\ PhaseMap'[t] = "gone"
               /\ Leased' = Leased \ {t}
            \/ /\ PhaseMap'[t] = PhaseOf(t)
               /\ Leased' = Leased \/ (t \in Leased /\ Leased' = Leased \ {t})
            \/ /\ PhaseOf(t) \in {"open", "answered"} /\ PhaseMap'[t] = "answered"
               /\ Leased' = Leased
            \/ /\ PhaseOf(t) = "open" /\ PhaseMap'[t] = "open"
               /\ t \notin Leased /\ Leased' = Leased \cup {t} /\ free > 0
<1>0. /\ PhaseOf(t) = IF state[t] = "none"      THEN "idle"
                       ELSE IF t \in retired     THEN "gone"
                       ELSE IF outcome[t] # <<>> THEN "answered" ELSE "open"
      /\ PhaseOf(t)' = IF state'[t] = "none"      THEN "idle"
                        ELSE IF t \in retired'     THEN "gone"
                        ELSE IF outcome'[t] # <<>> THEN "answered" ELSE "open"
  BY DEF PhaseOf
<1>1. PhaseMap' = [u \in Reqs |-> PhaseMap'[u]] /\ PhaseMap = [u \in Reqs |-> PhaseMap[u]]
  BY DEF PhaseMap
<1>2. \A u \in Reqs \ {t} : PhaseMap'[u] = PhaseMap[u]
  BY DEF PhaseMap, PhaseOf, Alone
<1>3. PhaseMap[t] = PhaseOf(t)
  BY DEF PhaseMap
<1>4. PhaseMap'[t] = IF t \in retired' THEN "gone"
                     ELSE IF outcome'[t] # <<>> THEN "answered" ELSE "open"
  BY <1>0 DEF PhaseMap, Fate
<1>5. \A u : u \in Leased' <=> IF u = t THEN t \in conns' ELSE u \in Leased
  BY DEF Leased, Alone
<1>6. t \in Leased <=> t \in conns
  BY DEF Leased
<1>7. PhaseMap' = [PhaseMap EXCEPT ![t] = PhaseMap'[t]]
  <2> HIDE DEF PhaseMap
  <2> QED BY <1>1, <1>2
<1> HIDE DEF PhaseMap, Leased
<1>8. CASE Made(t)
  <2>1. PhaseOf(t) = "idle" /\ t \notin conns /\ t \notin conns'
    BY <1>0, <1>8 DEF Made
  <2>2. Leased' = Leased
    BY <1>5, <1>6, <2>1
  <2>3. PhaseMap'[t] \in {"open", "gone"}
    BY <1>4, <1>8 DEF Made
  <2> QED BY <1>7, <2>1, <2>2, <2>3
<1>9. CASE t \in Live /\ t \in retired' /\ t \notin conns'
  <2>1. PhaseOf(t) \in {"open", "answered"}
    BY <1>0, <1>9 DEF Live
  <2>2. Leased' = Leased \ {t}
    BY <1>5, <1>6, <1>9
  <2> QED BY <1>4, <1>7, <1>9, <2>1, <2>2
<1>10. CASE /\ t \in Live /\ t \notin retired' /\ outcome'[t] = outcome[t]
            /\ t \in conns' => t \in conns
  <2>1. PhaseMap'[t] = PhaseOf(t)
    BY <1>0, <1>4, <1>10 DEF Live
  <2>2. Leased' = Leased \/ (t \in Leased /\ Leased' = Leased \ {t})
    BY <1>5, <1>6, <1>10
  <2> QED BY <1>7, <2>1, <2>2
<1>11. CASE /\ t \in Live /\ t \notin retired' /\ outcome'[t] # <<>>
            /\ t \in conns' <=> t \in conns
  <2>1. PhaseOf(t) \in {"open", "answered"} /\ PhaseMap'[t] = "answered"
    BY <1>0, <1>4, <1>11 DEF Live
  <2>2. Leased' = Leased
    BY <1>5, <1>6, <1>11
  <2> QED BY <1>7, <2>1, <2>2
<1>12. CASE /\ t \in Live /\ t \notin retired' /\ outcome'[t] = <<>> /\ outcome[t] = <<>>
            /\ t \in conns' /\ t \notin conns /\ free > 0
  <2>1. PhaseOf(t) = "open" /\ PhaseMap'[t] = "open"
    BY <1>0, <1>4, <1>12 DEF Live
  <2>2. t \notin Leased /\ Leased' = Leased \cup {t}
    BY <1>5, <1>6, <1>12
  <2> QED BY <1>7, <1>12, <2>1, <2>2
<1> QED BY <1>8, <1>9, <1>10, <1>11, <1>12 DEF Fate

(* It is a step of the abstract specification, or none.                    *)
LEMMA MildImplements ==
  ASSUME Given, Mild
  PROVE  [Forgiving!Next]_(Forgiving!vars)
<1>1. CASE PhaseMap' = PhaseMap /\ Leased' = Leased
  BY <1>1 DEF Forgiving!vars, PhaseMap, PhaseOf, Leased
<1>2. CASE Nobody
  <2>1. PhaseMap' = PhaseMap /\ Leased' = Leased
    BY <1>2 DEF PhaseMap, PhaseOf, Leased, Nobody
  <2> QED BY <1>1, <2>1
<1>3. ASSUME NEW t \in Ids \ Reqs, About(t) PROVE [Forgiving!Next]_(Forgiving!vars)
  <2>1. \A u \in Reqs : /\ state'[u] = state[u] /\ outcome'[u] = outcome[u]
                        /\ u \in retired' <=> u \in retired
                        /\ u \in conns' <=> u \in conns
    BY <1>3 DEF About, Alone
  <2>2. PhaseMap' = PhaseMap /\ Leased' = Leased
    BY <2>1 DEF PhaseMap, PhaseOf, Leased
  <2> QED BY <1>1, <2>2
<1>4. ASSUME NEW t \in Reqs, About(t) PROVE [Forgiving!Next]_(Forgiving!vars)
  <2>1. PICK p : p = PhaseMap'[t]
    OBVIOUS
  <2>2. /\ PhaseMap' = [PhaseMap EXCEPT ![t] = p]
        /\ \/ PhaseOf(t) = "idle" /\ p \in {"open", "gone"} /\ Leased' = Leased
           \/ /\ PhaseOf(t) \in {"open", "answered"} /\ p = "gone"
              /\ Leased' = Leased \ {t}
           \/ /\ p = PhaseOf(t)
              /\ Leased' = Leased \/ (t \in Leased /\ Leased' = Leased \ {t})
           \/ /\ PhaseOf(t) \in {"open", "answered"} /\ p = "answered"
              /\ Leased' = Leased
           \/ /\ PhaseOf(t) = "open" /\ p = "open"
              /\ t \notin Leased /\ Leased' = Leased \cup {t} /\ free > 0
    BY <1>4, <2>1, ConsumerSees DEF About
  <2>3. PhaseMap[t] = PhaseOf(t) /\ [PhaseMap EXCEPT ![t] = PhaseOf(t)] = PhaseMap
    BY DEF PhaseMap
  <2>4. Forgiving!vars = <<PhaseMap, Leased>>
    BY DEF Forgiving!vars, PhaseMap, PhaseOf, Leased
  <2>5. CASE PhaseOf(t) = "idle" /\ p \in {"open", "gone"} /\ Leased' = Leased
    <3>1. Forgiving!Submit(t) \/ Forgiving!Refuse(t)
      BY <2>2, <2>3, <2>5 DEF Forgiving!Submit, Forgiving!Refuse, PhaseMap, PhaseOf, Leased
    <3> QED BY <3>1 DEF Forgiving!Next
  <2>6. CASE /\ PhaseOf(t) \in {"open", "answered"} /\ p = "gone"
             /\ Leased' = Leased \ {t}
    <3>1. Forgiving!Retire(t)
      BY <2>2, <2>3, <2>6 DEF Forgiving!Retire, PhaseMap, PhaseOf, Leased
    <3> QED BY <3>1 DEF Forgiving!Next
  <2>7. CASE p = PhaseOf(t) /\ Leased' = Leased
    <3>1. PhaseMap' = PhaseMap
      BY <2>2, <2>3, <2>7
    <3> QED BY <1>1, <2>7, <3>1
  <2>8. CASE p = PhaseOf(t) /\ t \in Leased /\ Leased' = Leased \ {t}
    <3>1. PhaseMap' = PhaseMap
      BY <2>2, <2>3, <2>8
    <3>2. Forgiving!GiveBack(t)
      BY <2>8, <3>1 DEF Forgiving!GiveBack, PhaseMap, PhaseOf, Leased
    <3> QED BY <3>2 DEF Forgiving!Next
  <2>9. CASE PhaseOf(t) = "open" /\ p = "answered" /\ Leased' = Leased
    <3>1. Forgiving!Answer(t)
      BY <2>2, <2>3, <2>9 DEF Forgiving!Answer, PhaseMap, PhaseOf, Leased
    <3> QED BY <3>1 DEF Forgiving!Next
  <2>10. CASE /\ PhaseOf(t) = "open" /\ p = "open"
              /\ t \notin Leased /\ Leased' = Leased \cup {t} /\ free > 0
    <3>1. Cardinality(Leased) < Conns /\ PhaseMap' = PhaseMap
      BY <2>2, <2>3, <2>10, LeasesLeft DEF Given
    <3>2. Forgiving!Borrow(t)
      BY <2>3, <2>10, <3>1, CountAlike DEF Forgiving!Borrow, PhaseMap, PhaseOf, Leased
    <3> QED BY <3>2 DEF Forgiving!Next
  <2> QED BY <2>2, <2>5, <2>6, <2>7, <2>8, <2>9, <2>10
<1> QED BY <1>2, <1>3, <1>4 DEF Mild

(* Nobody has been answered twice.                                         *)
LEMMA NotTwice ==
  ASSUME IInv, IInv', AnsweredOnce, AnsweredOnce', NEW t \in Ids
  PROVE  ~(Len(outcome[t]) > 1) /\ ~(Len(outcome'[t]) > 1)
<1>1. PICK e \in Seq({"done", "err", "shutdown"}) : e = outcome[t]
  BY TellTypes
<1>2. PICK n \in Seq({"done", "err", "shutdown"}) : n = outcome'[t]
  BY DEF IInv, Data, Calls
<1>3. Len(e) \in Nat /\ Len(e) <= 1 /\ Len(n) \in Nat /\ Len(n) <= 1
  BY <1>1, <1>2 DEF AnsweredOnce
<1>4. ~(Len(e) > 1) /\ ~(Len(n) > 1)
  BY <1>3
<1> QED BY <1>1, <1>2, <1>4

(* Then both views of the client are one.                                  *)
LEMMA OnceIsStrict ==
  ASSUME IInv, IInv', AnsweredOnce, AnsweredOnce', [Forgiving!Next]_(Forgiving!vars)
  PROVE  [Lifecycle!Next]_(Lifecycle!vars)
<1> DEFINE Strict == [t \in Reqs |-> IF state[t] = "none"      THEN "idle"
                          ELSE IF Len(outcome[t]) > 1 THEN "twice"
                          ELSE IF t \in retired     THEN "gone"
                          ELSE IF outcome[t] # <<>> THEN "answered" ELSE "open"]
<1>1. \A t \in Reqs : ~(Len(outcome[t]) > 1) /\ ~(Len(outcome'[t]) > 1)
  BY NotTwice DEF Ids
<1>2. Strict = PhaseMap
  BY <1>1 DEF PhaseMap, PhaseOf
<1>3. Strict' = PhaseMap'
  BY <1>1 DEF PhaseMap, PhaseOf
<1>4. CASE UNCHANGED Forgiving!vars
  <2>1. PhaseMap' = PhaseMap /\ Leased' = Leased
    BY <1>4 DEF Forgiving!vars, PhaseMap, PhaseOf, Leased
  <2>2. Strict' = Strict
    BY <1>2, <1>3, <2>1
  <2> QED BY <2>1, <2>2 DEF Lifecycle!vars, Leased
<1>5. CASE Forgiving!Next
  <2>1. PICK t \in Reqs :
          \/ PhaseMap[t] = "idle" /\ PhaseMap' = [PhaseMap EXCEPT ![t] = "open"] /\ Leased' = Leased
          \/ PhaseMap[t] = "idle" /\ PhaseMap' = [PhaseMap EXCEPT ![t] = "gone"] /\ Leased' = Leased
          \/ /\ PhaseMap[t] = "open" /\ t \notin Leased /\ Cardinality(Leased) < Conns
             /\ Leased' = Leased \cup {t} /\ PhaseMap' = PhaseMap
          \/ t \in Leased /\ Leased' = Leased \ {t} /\ PhaseMap' = PhaseMap
          \/ PhaseMap[t] = "open" /\ PhaseMap' = [PhaseMap EXCEPT ![t] = "answered"] /\ Leased' = Leased
          \/ /\ PhaseMap[t] \in {"open", "answered"} /\ PhaseMap' = [PhaseMap EXCEPT ![t] = "gone"]
             /\ Leased' = Leased \ {t}
    BY <1>5, CountAlike DEF Forgiving!Next, Forgiving!Submit, Forgiving!Refuse, Forgiving!Borrow,
      Forgiving!GiveBack, Forgiving!Answer, Forgiving!Retire, PhaseMap, PhaseOf, Leased
  <2>2. PICK q : q = Strict
    OBVIOUS
  <2>3. PICK n : n = Strict'
    OBVIOUS
  <2>4. PhaseMap = q /\ PhaseMap' = n
    BY <1>2, <1>3, <2>2, <2>3
  <2> HIDE DEF PhaseMap, Leased, Strict
  <2>5. \/ q[t] = "idle" /\ n = [q EXCEPT ![t] = "open"] /\ Leased' = Leased
        \/ q[t] = "idle" /\ n = [q EXCEPT ![t] = "gone"] /\ Leased' = Leased
        \/ /\ q[t] = "open" /\ t \notin Leased /\ Cardinality(Leased) < Conns
           /\ Leased' = Leased \cup {t} /\ n = q
        \/ t \in Leased /\ Leased' = Leased \ {t} /\ n = q
        \/ q[t] = "open" /\ n = [q EXCEPT ![t] = "answered"] /\ Leased' = Leased
        \/ /\ q[t] \in {"open", "answered"} /\ n = [q EXCEPT ![t] = "gone"]
           /\ Leased' = Leased \ {t}
    BY <2>1, <2>4
  <2>6. \/ Lifecycle!Submit(t) \/ Lifecycle!Refuse(t) \/ Lifecycle!Borrow(t)
        \/ Lifecycle!GiveBack(t) \/ Lifecycle!Answer(t) \/ Lifecycle!Retire(t)
    BY <2>2, <2>3, <2>5, CountOnce
    DEF Lifecycle!Submit, Lifecycle!Refuse, Lifecycle!Borrow, Lifecycle!GiveBack,
      Lifecycle!Answer, Lifecycle!Retire, Strict, Leased
  <2> QED BY <2>6 DEF Lifecycle!Next
<1> QED BY <1>4, <1>5

(* At the start both have nothing to do.                                   *)
LEMMA InitImplements == Init => Lifecycle!Init /\ Forgiving!Init
<1> SUFFICES ASSUME Init PROVE Lifecycle!Init /\ Forgiving!Init
  OBVIOUS
<1>1. /\ state = [t \in Ids |-> "none"] /\ outcome = [t \in Ids |-> <<>>]
      /\ conns = {} /\ Reqs \subseteq Ids
  BY DEF Init, Ids
<1> QED BY <1>1 DEF Lifecycle!Init, Forgiving!Init

(* If Careful, nothing happens to a request once deinit has retired it: no *)
(* callback, no change of state, no connection.                            *)
THEOREM NothingFollowsRetire == ASSUME Careful PROVE Spec => NothingAfterRetire
<1>1. ASSUME IInv, IInv', Places, OrderInv, [Next]_vars PROVE Quiesced
  <2>1. Given
    BY <1>1 DEF Given
  <2> QED BY <1>1, <2>1, EveryStepMild, MildQuiesced
<1>2. IInv /\ IInv' /\ Places /\ OrderInv /\ [Next]_vars => [Quiesced]_vars
  BY <1>1
<1> QED BY <1>2, EverythingInPlace, PTL DEF Spec, NothingAfterRetire

(* If Careful, the client keeps the promise of RequestLifecycle but for    *)
(* one clause: a request whose done callback fails (JsFail) may be         *)
(* answered a second time.  It is made once, is not heard of after its     *)
(* end, and takes one connection at a time and none once it is answered.   *)
THEOREM OnlyTheAnswerComesTwice == ASSUME Careful PROVE Spec => Forgiving!SafeSpec
<1>1. Init => Forgiving!Init
  BY InitImplements
<1>2. IInv /\ IInv' /\ Places /\ OrderInv /\ [Next]_vars => [Forgiving!Next]_(Forgiving!vars)
  <2> SUFFICES ASSUME IInv, IInv', Places, OrderInv, [Next]_vars
               PROVE  [Forgiving!Next]_(Forgiving!vars)
    OBVIOUS
  <2>1. Given
    BY DEF Given
  <2> QED BY <2>1, EveryStepMild, MildImplements
<1> QED BY <1>1, <1>2, EverythingInPlace, PTL DEF Spec, Forgiving!SafeSpec

(* The client keeps the whole promise, one answer included, whatever the   *)
(* way of a request through queues, gates, redirects and pumps, if none of *)
(* HazardNames occurs.  With doneFail it does not (Transfer.deliver, 3928).*)
THEOREM ClientKeepsPromise == ASSUME Hazards = {} PROVE Spec => ImplementsLifecycle
<1>1. Init => Lifecycle!Init
  BY InitImplements
<1>2. IInv /\ IInv' /\ AnsweredOnce /\ AnsweredOnce' /\ [Forgiving!Next]_(Forgiving!vars)
        => [Lifecycle!Next]_(Lifecycle!vars)
  BY OnceIsStrict
<1>3. Spec => [](IInv /\ Places /\ OrderInv) /\ Forgiving!SafeSpec
  BY EverythingInPlace, OnlyTheAnswerComesTwice DEF Careful
<1> QED BY <1>1, <1>2, <1>3, ToldOnce, PTL
        DEF Spec, ImplementsLifecycle, Lifecycle!SafeSpec, Forgiving!SafeSpec
=============================================================================
