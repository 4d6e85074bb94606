---------------------------- MODULE NavThrottle -----------------------------
(***************************************************************************)
(* Navigation throttling: the process-wide RateLimiter (GCRA, one          *)
(* theoretical arrival time per host) that all worker threads share behind *)
(* a mutex, and each worker's own queue of delayed transfers               *)
(* (HttpClient.delay, startDelayed, clampToDelayed).                       *)
(*                                                                         *)
(* The `.throttle' stage reads the clock and only then takes the           *)
(* limiter's mutex: two steps, ReadClock and Reserve, between which other  *)
(* workers and the clock may move.                                         *)
(***************************************************************************)
EXTENDS Integers, FiniteSets, SequencesExt

CONSTANTS
  Workers,      \* worker threads, one HttpClient each
  Requests,     \* navigations with req.throttle set
  Hosts,
  WorkerOf,     \* [Requests -> Workers]
  HostOf,       \* [Requests -> Hosts]
  Interval,     \* interval_ms
  Bursts,       \* values of --http-nav-burst to start with
  FirstSweep,   \* initial sweep_at (256 in the code)
  Timeouts,     \* timeouts a runner polls with
  LastArrival,  \* BOUND: no navigation reaches the throttle later than this
  Horizon,      \* BOUND: the clock stops here
  Preempts      \* the clock may advance between its read and the reservation

ASSUME Constants ==
  /\ IsFiniteSet(Hosts) /\ IsFiniteSet(Requests)
  /\ WorkerOf \in [Requests -> Workers] /\ HostOf \in [Requests -> Hosts]
  /\ Interval \in Nat \ {0} /\ Bursts \subseteq Nat /\ FirstSweep \in Nat \ {0}
  /\ Timeouts \subseteq Nat /\ LastArrival \in Nat /\ Horizon \in Nat
  /\ Horizon >= LastArrival + Cardinality(Requests) * Interval
  /\ Preempts \in BOOLEAN

VARIABLES
  burst,    \* @max(burst, 1), fixed when the limiter is made
  clock,    \* boot clock, ms
  next,     \* RateLimiter.next: host -> theoretical arrival time (TAT)
  sweepAt,  \* RateLimiter.sweep_at
  phase,    \* where each navigation is
  stamp,    \* `now', the local of the .throttle stage; 0 outside it
  runAt,    \* Transfer._run_at
  delayed,  \* Client.delayed_queue of each worker
  starts    \* history: the slots reserved for each host, in order

limiter == <<burst, next, sweepAt, starts>>
vars    == <<burst, clock, next, sweepAt, phase, stamp, runAt, delayed, starts>>

Phases == {"new", "throttle", "delayed", "sent", "gone"}
Tau    == Interval * (burst - 1)

Later(m, n)     == IF m > n THEN m ELSE n
SatMinus(m, n)  == IF m > n THEN m - n ELSE 0            \* -| on u64

TypeOK ==
  /\ burst \in Nat \ {0} /\ clock \in Nat /\ sweepAt \in Nat \ {0}
  /\ DOMAIN next \subseteq Hosts /\ \A h \in DOMAIN next : next[h] \in Nat
  /\ phase \in [Requests -> Phases]
  /\ stamp \in [Requests -> Nat] /\ runAt \in [Requests -> Nat]
  /\ delayed \in [Workers -> Seq(Requests)]
  /\ starts \in [Hosts -> Seq(Nat)]

Init ==
  /\ burst \in {Later(b, 1) : b \in Bursts}
  /\ clock = 0
  /\ next = [h \in {} |-> 0] /\ sweepAt = FirstSweep
  /\ phase = [r \in Requests |-> "new"]
  /\ stamp = [r \in Requests |-> 0] /\ runAt = [r \in Requests |-> 0]
  /\ delayed = [w \in Workers |-> <<>>]
  /\ starts = [h \in Hosts |-> <<>>]

-----------------------------------------------------------------------------
(* The limiter.                                                             *)

(* The slot reserve() gives: an unknown host may go now, a known one no     *)
(* earlier than the burst tolerance before its TAT.                         *)
SlotFor(h, now) ==
  IF h \in DOMAIN next THEN Later(now, SatMinus(next[h], Tau)) ELSE now

(* Mutant: a reservation restarts the host's TAT from its own slot, which   *)
(* refills the burst allowance.                                             *)
Arrived_bug(h, start) ==
  [g \in DOMAIN next \cup {h} |-> IF g # h THEN next[g] ELSE start + Interval]

(* The map after that reservation, before any sweep.                        *)
Arrived(h, start) ==
  [g \in DOMAIN next \cup {h} |->
     IF g # h THEN next[g]
     ELSE Interval + IF h \in DOMAIN next THEN Later(next[h], start) ELSE start]

(* Mutant: a host counts as idle when only its burst tolerance remains.     *)
Swept_bug(tats, now) ==
  [h \in {g \in DOMAIN tats : tats[g] > now + Tau} |-> tats[h]]

(* sweep(): forget the hosts that are idle at `now'.                        *)
Swept(tats, now) == [h \in {g \in DOMAIN tats : tats[g] > now} |-> tats[h]]

(* ... and raise the threshold when that was not enough.                    *)
Grown(tats) ==
  IF Cardinality(DOMAIN tats) >= sweepAt THEN 2 * sweepAt ELSE sweepAt

(* reserve(h, now) that succeeds.  Only an insertion may sweep.             *)
Book(h, now) ==
  LET tats == Arrived(h, SlotFor(h, now))
      full == h \notin DOMAIN next /\ Cardinality(DOMAIN tats) >= sweepAt
      left == IF full THEN Swept(tats, now) ELSE tats
  IN /\ next' = left
     /\ sweepAt' = IF full THEN Grown(left) ELSE sweepAt
     /\ starts' = [starts EXCEPT ![h] = Append(@, SlotFor(h, now))]
     /\ UNCHANGED burst

-----------------------------------------------------------------------------
(* The workers.  A worker is one thread: between the two halves of the      *)
(* throttle stage it does nothing else.                                     *)

Free(w) == \A r \in Requests : WorkerOf[r] = w => phase[r] # "throttle"

(* .throttle, first half: `now' is read.                                    *)
ReadClock(r) ==
  /\ phase[r] = "new" /\ Free(WorkerOf[r])
  /\ clock <= LastArrival
  /\ phase' = [phase EXCEPT ![r] = "throttle"]
  /\ stamp' = [stamp EXCEPT ![r] = clock]
  /\ UNCHANGED <<clock, limiter, runAt, delayed>>

(* delay() links behind position k: walking from the back, the first        *)
(* transfer that runs no later (0: there is none).                          *)
Follows_bug(queue, k, at) == k = Len(queue)   \* mutant: just append

Follows(queue, k, at) ==
  /\ k > 0 => runAt[queue[k]] <= at
  /\ \A i \in (k + 1)..Len(queue) : runAt[queue[i]] > at

(* Mutant: the else is missing, nothing is linked in front of the queue.    *)
Linked_bug(queue, k, r) ==
  IF k = 0 /\ queue # <<>> THEN queue ELSE InsertAt(queue, k + 1, r)

Linked(queue, k, r) == InsertAt(queue, k + 1, r)

(* .throttle, second half: reserve under the mutex, then go on to the       *)
(* network or wait in the delayed queue.                                    *)
Reserve(r) ==
  LET h   == HostOf[r]
      w   == WorkerOf[r]
      now == stamp[r]
      at  == SlotFor(h, now)
  IN /\ phase[r] = "throttle"
     /\ Book(h, now)
     /\ IF at > now
          THEN /\ phase' = [phase EXCEPT ![r] = "delayed"]
               /\ runAt' = [runAt EXCEPT ![r] = at]
               /\ \E k \in 0..Len(delayed[w]) :
                    /\ Follows(delayed[w], k, at)
                    /\ delayed' = [delayed EXCEPT ![w] = Linked(@, k, r)]
          ELSE phase' = [phase EXCEPT ![r] = "sent"] /\ UNCHANGED <<runAt, delayed>>
     /\ stamp' = [stamp EXCEPT ![r] = 0]
     /\ UNCHANGED <<clock>>

(* reserve() runs out of memory, which only a host it must insert can make  *)
(* it do; the half-made entry is removed and the pipeline fails.            *)
ReserveFails(r) ==
  /\ phase[r] = "throttle" /\ HostOf[r] \notin DOMAIN next
  /\ phase' = [phase EXCEPT ![r] = "gone"] /\ stamp' = [stamp EXCEPT ![r] = 0]
  /\ UNCHANGED <<clock, limiter, runAt, delayed>>

(* The first n transfers are due at `clock'.                                *)
Due(queue, n) == n <= Len(queue) /\ \A i \in 1..n : runAt[queue[i]] <= clock

(* startDelayed(): pops due transfers, in order, into the network stage     *)
(* until the head is not due, or fails one of them (.failAsync) and leaves  *)
(* the rest for the next tick.                                              *)
StartDelayed(w) ==
  LET queue == delayed[w]
  IN /\ Free(w)
     /\ \E n \in 1..Len(queue), fails \in BOOLEAN :
          /\ Due(queue, n)
          /\ ~fails => ~Due(queue, n + 1)
          /\ delayed' = [delayed EXCEPT ![w] = SubSeq(queue, n + 1, Len(queue))]
          /\ phase' = [r \in Requests |->
               IF r \notin {queue[i] : i \in 1..n} THEN phase[r]
               ELSE IF fails /\ r = queue[n] THEN "gone" ELSE "sent"]
     /\ UNCHANGED <<clock, limiter, stamp, runAt>>

(* A waiting transfer is cancelled or its owner goes: deinit() unlinks it.  *)
(* The slot it reserved is not given back.                                  *)
Cancel(r) ==
  LET w == WorkerOf[r]
  IN /\ phase[r] = "delayed" /\ Free(w)
     /\ phase' = [phase EXCEPT ![r] = "gone"]
     /\ \E i \in DOMAIN delayed[w] :
          delayed[w][i] = r /\ delayed' = [delayed EXCEPT ![w] = RemoveAt(@, i)]
     /\ UNCHANGED <<clock, limiter, stamp, runAt>>

(* clampToDelayed(): how long _tick polls when it has nothing to do.  While *)
(* it polls the worker does nothing and its queue does not change.          *)
PollFor(w, timeout) ==
  IF delayed[w] = <<>> THEN timeout
  ELSE LET at == runAt[Head(delayed[w])]
       IN IF at <= clock THEN 0
          ELSE IF timeout < at - clock THEN timeout ELSE at - clock

UnderWay == \E r \in Requests : phase[r] \in {"throttle", "delayed"}

(* Time passes: until the last arrival, and then (BOUND) only while some    *)
(* navigation is under way.                                                 *)
Tick ==
  /\ clock < Horizon
  /\ clock < LastArrival \/ UnderWay
  /\ Preempts \/ \A r \in Requests : phase[r] # "throttle"
  /\ clock' = clock + 1
  /\ UNCHANGED <<limiter, phase, stamp, runAt, delayed>>

(* No navigation waits: the runners loop without touching this state.       *)
Idle == ~UnderWay /\ UNCHANGED vars

Next ==
  \/ Tick \/ Idle
  \/ \E r \in Requests :
       ReadClock(r) \/ Reserve(r) \/ ReserveFails(r) \/ Cancel(r)
  \/ \E w \in Workers : StartDelayed(w)

(* Time passes, a thread inside the pipeline finishes its step, and the     *)
(* runner's loop ticks the client again, which runs startDelayed.           *)
Fairness ==
  /\ WF_vars(Tick)
  /\ \A r \in Requests : WF_vars(Reserve(r))
  /\ \A w \in Workers : WF_vars(StartDelayed(w))

Spec     == Init /\ [][Next]_vars
FairSpec == Spec /\ Fairness

-----------------------------------------------------------------------------
(* The promise of the limiter (RateLimiter.zig:32, `Sustained minimum gap   *)
(* between two navigations to the same host', with `burst' of tolerance):   *)
(* any k + 1 consecutive slots of a host span at least k intervals less the *)
(* tolerance, whoever reserved them, whatever was swept or cancelled in     *)
(* between.                                                                 *)
RateConforms ==
  \A h \in Hosts : \A j \in 1..Len(starts[h]) : \A i \in 1..(j - 1) :
    starts[h][j] + Tau >= starts[h][i] + (j - i) * Interval

(* What a reservation may at the earliest be, from the history alone.       *)
EarliestSlot(h, now) ==
  LET past == starts[h]
      n    == Len(past)
  IN Max({now} \cup {past[i] + (n + 1 - i) * Interval - Tau : i \in 1..n})

(* reserve() is exact: the slot it gives is the earliest one that conforms  *)
(* to the whole history of the host.  Forgetting idle hosts and keeping one *)
(* number per host loses nothing, and nobody waits without need.  (Of two   *)
(* workers inside the stage the one that books is the one that leaves it.)  *)
EarliestConforming ==
  [][\A r \in Requests : LET h == HostOf[r] IN
       phase[r] = "throttle" /\ phase'[r] # "throttle" /\ starts'[h] # starts[h]
         => starts'[h] = Append(starts[h], EarliestSlot(h, stamp[r]))]_vars

(* Whatever reserve() inserted, it leaves the map below the size that makes *)
(* the next insertion sweep, so two insertions in a row never both pay for  *)
(* a sweep that frees nothing (`we don't want reserve() to turn into an     *)
(* O(N)', RateLimiter.zig:105).                                             *)
MapBounded == Cardinality(DOMAIN next) < sweepAt

(* A delayed transfer is linked once, in its own worker's queue, and        *)
(* nothing else is: a raw node left behind would be started after its end.  *)
QueueExact ==
  \A w \in Workers :
    /\ IsInjective(delayed[w])
    /\ Range(delayed[w]) = {r \in Requests : WorkerOf[r] = w /\ phase[r] = "delayed"}

(* `Never sleep past the next delayed transfer's start time'                *)
(* (HttpClient.zig:808): not only the head of the queue, which is all that  *)
(* clampToDelayed looks at, but every delayed transfer is due no earlier    *)
(* than the end of a poll that its worker would start now.                  *)
NoOversleep ==
  \A w \in Workers : \A timeout \in Timeouts : \A r \in Range(delayed[w]) :
    clock + PollFor(w, timeout) <= Later(runAt[r], clock)

(* The delayed queue of each worker is what its runner takes it for: all of *)
(* its delayed transfers, once, none due before the poll in front of the    *)
(* queue's head ends (QueueExact, NoOversleep).                             *)
DelayedQueue == QueueExact /\ NoOversleep

(* A delayed navigation is never lost, whatever is linked before or behind  *)
(* it meanwhile: its worker starts it, fails it, or it is cancelled.        *)
DelayedLeaves ==
  \A r \in Requests : phase[r] = "delayed" ~> phase[r] \in {"sent", "gone"}
=============================================================================
