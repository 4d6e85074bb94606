------------------------- MODULE NavThrottleProofs --------------------------
(***************************************************************************)
(* What NavThrottle promises, for every number of workers, navigations and *)
(* hosts, every interval, burst and sweep threshold.                       *)
(*                                                                         *)
(* RateConforms speaks of a history that the limiter does not keep: it has *)
(* one number per host, and none for a host it swept.  The invariant       *)
(* Covers says what that number is worth: the TAT of a known host, and for *)
(* a forgotten one the clock, is at or past the earliest conforming next   *)
(* slot plus the tolerance.                                                *)
(*                                                                         *)
(* DelayedQueue needs the order of each queue, QueueKept, at the end.      *)
(***************************************************************************)
EXTENDS NavThrottle, TLAPS, FiniteSetTheorems, SequenceTheorems

(* Either the clock does not advance between its read and the reservation, *)
(* or the threshold is never reached, so that nothing is ever forgotten.   *)
NoStaleSweep == Preempts => Cardinality(Hosts) < FirstSweep

(* The stage that is inside the limiter holds the time it read.            *)
StampKept ==
  \A r \in Requests : phase[r] = "throttle" =>
    stamp[r] <= clock /\ (~Preempts => stamp[r] = clock)

(* What the limiter knows of a host, or what its absence means.            *)
KnownTat(h) == IF h \in DOMAIN next THEN next[h] ELSE clock

Covers ==
  \A h \in Hosts : \A i \in 1..Len(starts[h]) :
    starts[h][i] + (Len(starts[h]) + 1 - i) * Interval <= KnownTat(h)

(* A limiter that may be called late has forgotten nobody.                 *)
Remembers == Preempts => \A h \in Hosts : starts[h] # <<>> => h \in DOMAIN next

ThresholdKept == sweepAt >= FirstSweep

-----------------------------------------------------------------------------
(* Arithmetic                                                              *)

(* The tolerance is a natural number.                                      *)
LEMMA TauNat == ASSUME burst \in Nat \ {0} PROVE Tau \in Nat
<1>1. Interval \in Nat /\ burst - 1 \in Nat
  BY Constants
<1>2. \A m, n \in Nat : m * n \in Nat
  OBVIOUS
<1> QED
  BY <1>1, <1>2 DEF Tau

(* A span is one interval longer than the span before it.                 *)
LEMMA Spans ==
  ASSUME NEW n \in Int
  PROVE  /\ n * Interval \in Int
         /\ (n + 1) * Interval = n * Interval + Interval
BY Constants

(* The limiter's map is from hosts to instants.                           *)
LEMMA NextTyped ==
  ASSUME TypeOK
  PROVE  DOMAIN next \subseteq Hosts /\ \A h \in DOMAIN next : next[h] \in Nat
BY Zenon DEF TypeOK

(* A reserved slot is an instant that is not in the past.                 *)
LEMMA SlotNat ==
  ASSUME TypeOK, NEW h \in Hosts, NEW now \in Nat
  PROVE  SlotFor(h, now) \in Nat /\ SlotFor(h, now) >= now
BY TauNat DEF TypeOK, SlotFor, Later, SatMinus

-----------------------------------------------------------------------------
(* Types                                                                   *)

(* Every reservation, slot, queue and clock value has its type.           *)
THEOREM TypeCorrect == Spec => []TypeOK
<1>1. Init => TypeOK
  BY Constants, Z3 DEF Init, TypeOK, Phases, Later
<1>2. TypeOK /\ [Next]_vars => TypeOK'
  <2> SUFFICES ASSUME TypeOK, [Next]_vars PROVE TypeOK'
    OBVIOUS
  <2> USE Constants
  <2>1. CASE UNCHANGED vars
    BY <2>1 DEF vars, TypeOK
  <2>2. CASE Tick
    BY <2>2 DEF Tick, TypeOK, limiter
  <2>3. ASSUME NEW r \in Requests, ReadClock(r) PROVE TypeOK'
    BY <2>3 DEF ReadClock, TypeOK, Phases, limiter
  <2>4. ASSUME NEW r \in Requests, Reserve(r) PROVE TypeOK'
    <3> DEFINE h == HostOf[r]
               w == WorkerOf[r]
               now == stamp[r]
               tats == Arrived(h, SlotFor(h, now))
    <3>1. h \in Hosts /\ w \in Workers /\ now \in Nat
      BY DEF TypeOK
    <3>2. SlotFor(h, now) \in Nat
      BY <3>1, SlotNat
    <3>3. DOMAIN tats \subseteq Hosts /\ \A g \in DOMAIN tats : tats[g] \in Nat
      BY SMTT(40), <3>1, <3>2 DEF TypeOK, Arrived, Later
    <3>4. /\ DOMAIN next' \subseteq Hosts /\ \A g \in DOMAIN next' : next'[g] \in Nat
      <4>1. next' \in {tats, Swept(tats, now)}
        BY <2>4 DEF Reserve, Book
      <4> QED
        BY <3>3, <4>1 DEF Swept
    <3>5. sweepAt' \in Nat \ {0}
      BY <2>4 DEF Reserve, Book, Grown, TypeOK
    <3>6. starts' \in [Hosts -> Seq(Nat)]
      BY <2>4, <3>1, <3>2 DEF Reserve, Book, TypeOK
    <3>7. phase' \in [Requests -> Phases] /\ runAt' \in [Requests -> Nat]
      BY <2>4, <3>1, <3>2 DEF Reserve, TypeOK, Phases
    <3>8. delayed' \in [Workers -> Seq(Requests)]
      <4>1. CASE delayed' = delayed
        BY <4>1 DEF TypeOK
      <4>2. CASE \E k \in 0..Len(delayed[w]) :
                   delayed' = [delayed EXCEPT ![w] = Linked(@, k, r)]
        <5>1. PICK k \in 0..Len(delayed[w]) :
                delayed' = [delayed EXCEPT ![w] = Linked(@, k, r)]
          BY <4>2
        <5>2. delayed[w] \in Seq(Requests)
          BY <3>1 DEF TypeOK
        <5>3. Linked(delayed[w], k, r) \in Seq(Requests)
          BY <5>1, <5>2 DEF Linked, InsertAt
        <5> QED
          BY <5>1, <5>3 DEF TypeOK
      <4> QED
        BY <2>4, <4>1, <4>2 DEF Reserve
    <3> QED
      BY <2>4, <3>4, <3>5, <3>6, <3>7, <3>8 DEF TypeOK, Reserve, Book
  <2>5. ASSUME NEW r \in Requests, ReserveFails(r) PROVE TypeOK'
    BY <2>5 DEF ReserveFails, TypeOK, Phases, limiter
  <2>6. ASSUME NEW r \in Requests, Cancel(r) PROVE TypeOK'
    <3>1. WorkerOf[r] \in Workers /\ delayed[WorkerOf[r]] \in Seq(Requests)
      BY DEF TypeOK
    <3>2. PICK i \in DOMAIN delayed[WorkerOf[r]] :
            delayed' = [delayed EXCEPT ![WorkerOf[r]] = RemoveAt(@, i)]
      BY <2>6 DEF Cancel
    <3>3. RemoveAt(delayed[WorkerOf[r]], i) \in Seq(Requests)
      BY <3>1, <3>2 DEF RemoveAt
    <3>4. delayed' \in [Workers -> Seq(Requests)]
      BY <3>1, <3>2, <3>3 DEF TypeOK
    <3> QED
      BY <2>6, <3>4 DEF Cancel, TypeOK, Phases, limiter
  <2>7. ASSUME NEW w \in Workers, StartDelayed(w) PROVE TypeOK'
    <3>1. delayed[w] \in Seq(Requests)
      BY DEF TypeOK
    <3>2. PICK n \in 1..Len(delayed[w]), fails \in BOOLEAN :
            /\ delayed' = [delayed EXCEPT ![w] = SubSeq(@, n + 1, Len(@))]
            /\ phase' = [r \in Requests |->
                 IF r \notin {delayed[w][i] : i \in 1..n} THEN phase[r]
                 ELSE IF fails /\ r = delayed[w][n] THEN "gone" ELSE "sent"]
      BY <2>7 DEF StartDelayed
    <3>3. SubSeq(delayed[w], n + 1, Len(delayed[w])) \in Seq(Requests)
      BY <3>1, <3>2
    <3>4. delayed' \in [Workers -> Seq(Requests)]
      BY <3>2, <3>3 DEF TypeOK
    <3>5. phase' \in [Requests -> Phases]
      BY <3>2 DEF TypeOK, Phases
    <3> QED
      BY <2>7, <3>4, <3>5 DEF StartDelayed, TypeOK, limiter
  <2> QED
    BY <2>1, <2>2, <2>3, <2>4, <2>5, <2>6, <2>7 DEF Next, Idle
<1> QED
  BY <1>1, <1>2, PTL DEF Spec

-----------------------------------------------------------------------------
(* The size of the map                                                     *)

(* An arrival adds one host to the map.                                   *)
LEMMA ArrivedDomain ==
  ASSUME NEW h, NEW start
  PROVE  DOMAIN Arrived(h, start) = DOMAIN next \cup {h}
BY DEF Arrived

(* The map is over hosts only.                                            *)
LEMMA ArrivedInHosts ==
  ASSUME TypeOK, NEW h \in Hosts, NEW start
  PROVE  DOMAIN Arrived(h, start) \subseteq Hosts
<1>1. DOMAIN Arrived(h, start) = DOMAIN next \cup {h}
  BY ArrivedDomain
<1>2. DOMAIN next \subseteq Hosts
  BY NextTyped
<1> QED
  BY <1>1, <1>2

(* A sweep only forgets hosts.                                            *)
LEMMA SweptDomain ==
  ASSUME NEW tats, NEW now
  PROVE  DOMAIN Swept(tats, now) \subseteq DOMAIN tats
BY DEF Swept

(* reserve() leaves the map below its next threshold.                     *)
LEMMA ReserveKeepsBound ==
  ASSUME TypeOK, MapBounded, NEW r \in Requests, Reserve(r)
  PROVE  MapBounded' /\ sweepAt' >= sweepAt
<1> DEFINE h == HostOf[r]
           now == stamp[r]
           tats == Arrived(h, SlotFor(h, now))
           old == DOMAIN next
           new == DOMAIN tats
<1>1. IsFiniteSet(old) /\ Cardinality(old) \in Nat /\ sweepAt \in Nat \ {0}
  BY Constants, FS_Subset, FS_CardinalityType DEF TypeOK
<1>2. new = old \cup {h}
  BY ArrivedDomain
<1>3. /\ IsFiniteSet(new) /\ Cardinality(new) \in Nat
      /\ h \in old => Cardinality(new) < sweepAt
      /\ Cardinality(new) <= sweepAt
  <2> HIDE DEF new
  <2>1. /\ IsFiniteSet(new)
        /\ Cardinality(new) = IF h \in old THEN Cardinality(old) ELSE Cardinality(old) + 1
    BY <1>1, <1>2, FS_AddElement
  <2>2. Cardinality(old) < sweepAt
    BY DEF MapBounded
  <2> QED
    BY <1>1, <2>1, <2>2
<1> DEFINE left == Swept(tats, now)
<1>4. /\ IsFiniteSet(DOMAIN left) /\ Cardinality(DOMAIN left) \in Nat
      /\ Cardinality(DOMAIN left) <= Cardinality(new)
  BY <1>3, SweptDomain, FS_Subset, FS_CardinalityType
<1>5. CASE h \notin old /\ Cardinality(new) >= sweepAt
  <2>1. next' = left /\ sweepAt' = Grown(left)
    BY <1>5, Zenon DEF Reserve, Book
  <2> QED
    BY <2>1, <1>1, <1>3, <1>4 DEF Grown, MapBounded
<1>6. CASE ~(h \notin old /\ Cardinality(new) >= sweepAt)
  <2>1. next' = tats /\ sweepAt' = sweepAt
    BY <1>6, Zenon DEF Reserve, Book
  <2>2. Cardinality(new) < sweepAt
    BY <1>1, <1>3, <1>6
  <2> QED
    BY <2>1, <2>2, <1>1 DEF MapBounded
<1> QED
  BY <1>5, <1>6

(* Only a reservation touches the limiter.                                 *)
LEMMA LimiterSteps ==
  ASSUME [Next]_vars
  PROVE  UNCHANGED limiter \/ \E r \in Requests : Reserve(r)
BY DEF Next, vars, limiter, Tick, Idle, ReadClock, ReserveFails, Cancel, StartDelayed

(* reserve() always leaves the map below the threshold, at which it would  *)
(* sweep (RateLimiter.zig:84, 102-108).                                    *)
THEOREM MapStaysBounded == Spec => [](MapBounded /\ ThresholdKept)
<1>1. Init => MapBounded /\ ThresholdKept
  <2> SUFFICES ASSUME Init PROVE MapBounded /\ ThresholdKept
    OBVIOUS
  <2>1. DOMAIN next = {}
    BY DEF Init
  <2> QED
    BY <2>1, FS_EmptySet, Constants DEF Init, MapBounded, ThresholdKept
<1>2. TypeOK /\ MapBounded /\ ThresholdKept /\ [Next]_vars
        => MapBounded' /\ ThresholdKept'
  <2> SUFFICES ASSUME TypeOK, MapBounded, ThresholdKept, [Next]_vars
               PROVE  MapBounded' /\ ThresholdKept'
    OBVIOUS
  <2>1. CASE UNCHANGED limiter
    BY <2>1 DEF limiter, MapBounded, ThresholdKept
  <2>2. ASSUME NEW r \in Requests, Reserve(r) PROVE MapBounded' /\ ThresholdKept'
    <3>1. MapBounded' /\ sweepAt' >= sweepAt
      BY <2>2, ReserveKeepsBound
    <3>2. sweepAt \in Nat /\ sweepAt' \in Nat
      BY <2>2 DEF TypeOK, Reserve, Book, Grown
    <3> QED
      BY <3>1, <3>2, Constants DEF ThresholdKept
  <2> QED
    BY <2>1, <2>2, LimiterSteps
<1> QED
  BY <1>1, <1>2, TypeCorrect, PTL DEF Spec

-----------------------------------------------------------------------------
(* The spacing of the slots                                                *)

(* Every step keeps the time a stage read at or before the clock.         *)
LEMMA StampStep == ASSUME TypeOK, StampKept, [Next]_vars PROVE StampKept'
<1>1. CASE UNCHANGED vars
  BY <1>1 DEF vars, StampKept
<1>2. CASE Tick
  BY <1>2 DEF Tick, StampKept, TypeOK, limiter
<1>3. ASSUME NEW r \in Requests, ReadClock(r) PROVE StampKept'
  BY <1>3 DEF ReadClock, StampKept, TypeOK
<1>4. ASSUME NEW r \in Requests, Reserve(r) PROVE StampKept'
  <2>1. /\ phase'[r] # "throttle" /\ clock' = clock
        /\ \A q \in Requests \ {r} : phase'[q] = phase[q] /\ stamp'[q] = stamp[q]
    BY <1>4 DEF Reserve, TypeOK
  <2> QED
    BY <2>1 DEF StampKept
<1>5. ASSUME NEW r \in Requests, ReserveFails(r) PROVE StampKept'
  BY <1>5 DEF ReserveFails, StampKept, TypeOK
<1>6. ASSUME NEW r \in Requests, Cancel(r) PROVE StampKept'
  BY <1>6 DEF Cancel, StampKept, TypeOK
<1>7. ASSUME NEW w \in Workers, StartDelayed(w) PROVE StampKept'
  <2>1. stamp' = stamp /\ clock' = clock
    BY <1>7 DEF StartDelayed
  <2>2. \A q \in Requests : phase'[q] = "throttle" => phase[q] = "throttle"
    BY <1>7, Zenon DEF StartDelayed
  <2> QED
    BY <2>1, <2>2 DEF StampKept
<1> QED
  BY <1>1, <1>2, <1>3, <1>4, <1>5, <1>6, <1>7 DEF Next, Idle

(* While nothing may be forgotten, no reservation fills the map.           *)
LEMMA NeverFull ==
  ASSUME TypeOK, ThresholdKept, NoStaleSweep, Preempts, NEW h \in Hosts, NEW start
  PROVE  Cardinality(DOMAIN Arrived(h, start)) < sweepAt
<1>1. DOMAIN Arrived(h, start) \subseteq Hosts
  BY ArrivedInHosts
<1>2. Cardinality(DOMAIN Arrived(h, start)) <= Cardinality(Hosts)
  BY <1>1, Constants, FS_Subset
<1>3. Cardinality(DOMAIN Arrived(h, start)) \in Nat /\ Cardinality(Hosts) \in Nat
  BY <1>1, Constants, FS_Subset, FS_CardinalityType
<1> QED
  BY <1>2, <1>3, Constants DEF NoStaleSweep, ThresholdKept, TypeOK

(* A limiter that may be called late goes on remembering every host.      *)
LEMMA RememberStep ==
  ASSUME TypeOK, ThresholdKept, NoStaleSweep, Remembers, [Next]_vars
  PROVE  Remembers'
<1>1. CASE UNCHANGED limiter
  BY <1>1 DEF limiter, Remembers
<1>2. ASSUME NEW r \in Requests, Reserve(r), Preempts PROVE Remembers'
  <2> DEFINE h == HostOf[r]
             tats == Arrived(h, SlotFor(h, stamp[r]))
  <2>1. h \in Hosts
    BY Constants
  <2>2. ~(Cardinality(DOMAIN tats) >= sweepAt)
    <3>1. Cardinality(DOMAIN tats) < sweepAt
      BY <1>2, <2>1, NeverFull
    <3>2. Cardinality(DOMAIN tats) \in Nat /\ sweepAt \in Nat
      <4>1. DOMAIN tats \subseteq Hosts
        BY <2>1, ArrivedInHosts
      <4> QED
        BY <4>1, Constants, FS_Subset, FS_CardinalityType DEF TypeOK
    <3> QED
      BY <3>1, <3>2
  <2>3. next' = tats
    BY <1>2, <2>2, Zenon DEF Reserve, Book
  <2>4. DOMAIN next' = DOMAIN next \cup {h}
    BY <2>3, ArrivedDomain
  <2>5. \A g \in Hosts \ {h} : starts'[g] = starts[g]
    BY <1>2 DEF Reserve, Book, TypeOK
  <2> QED
    BY <2>4, <2>5 DEF Remembers
<1> QED
  BY <1>1, <1>2, LimiterSteps DEF Remembers

(* The slot of a reservation keeps the spacing to every earlier one.       *)
LEMMA SlotConforms ==
  ASSUME TypeOK, StampKept, Remembers, Covers, NEW r \in Requests, phase[r] = "throttle"
  PROVE  LET h    == HostOf[r]
             slot == SlotFor(h, stamp[r])
             n    == Len(starts[h])
         IN \A i \in 1..n : starts[h][i] + (n + 1 - i) * Interval <= slot + Tau
<1> DEFINE h == HostOf[r]
           slot == SlotFor(h, stamp[r])
           n == Len(starts[h])
<1> SUFFICES ASSUME NEW i \in 1..n
             PROVE  starts[h][i] + (n + 1 - i) * Interval <= slot + Tau
  OBVIOUS
<1>1. /\ h \in Hosts /\ stamp[r] \in Nat /\ slot \in Nat /\ Tau \in Nat
      /\ starts[h] \in Seq(Nat) /\ n \in Nat
  BY SMTT(40), Constants, SlotNat, TauNat DEF TypeOK
<1>2. starts[h][i] \in Nat /\ (n + 1 - i) * Interval \in Int
  <2>1. n + 1 - i \in Int
    BY <1>1
  <2>2. (n + 1 - i) * Interval \in Int
    <3> DEFINE m == n + 1 - i
    <3>1. m \in Int
      BY <2>1
    <3> HIDE DEF m
    <3>2. m * Interval \in Int
      BY <3>1, Spans
    <3> QED
      BY <3>2 DEF m
  <2>3. starts[h][i] \in Nat
    BY <1>1
  <2> QED
    BY <2>2, <2>3
<1>3. starts[h][i] + (n + 1 - i) * Interval <= KnownTat(h)
  BY <1>1 DEF Covers
<1> DEFINE span == (n + 1 - i) * Interval
<1>6. starts[h][i] \in Nat
  BY <1>2
<1>4. CASE h \in DOMAIN next
  <2>1. next[h] \in Nat /\ KnownTat(h) = next[h]
    BY <1>4 DEF TypeOK, KnownTat
  <2>2. next[h] <= slot + Tau
    BY <1>1, <1>4, <2>1 DEF SlotFor, Later, SatMinus
  <2>3. span \in Int /\ starts[h][i] + span <= next[h]
    BY <1>2, <1>3, <2>1
  <2> HIDE DEF span, slot
  <2>4. starts[h][i] + span <= slot + Tau
    BY SMTT(40), <1>1, <1>6, <2>1, <2>2, <2>3
  <2> QED
    BY <2>4 DEF span, slot
<1>5. CASE h \notin DOMAIN next
  <2>1. starts[h] # <<>>
    BY <1>1
  <2>2. ~Preempts
    BY <1>1, <1>5, <2>1 DEF Remembers
  <2>3. slot = clock /\ KnownTat(h) = clock
    BY <1>5, <2>2 DEF StampKept, SlotFor, KnownTat
  <2>4. span \in Int /\ starts[h][i] + span <= slot
    BY <1>2, <1>3, <2>3
  <2> HIDE DEF span, slot
  <2>5. starts[h][i] + span <= slot + Tau
    BY SMTT(40), <1>1, <1>6, <2>4
  <2> QED
    BY <2>5 DEF span, slot
<1> QED
  BY <1>4, <1>5

(* A step that leaves the limiter alone can only advance the clock.        *)
LEMMA ClockStep ==
  ASSUME TypeOK, [Next]_vars
  PROVE  clock' \in Nat /\ clock' >= clock
<1>1. CASE Tick
  BY <1>1 DEF Tick, TypeOK
<1>2. CASE clock' = clock
  BY <1>2 DEF TypeOK
<1> QED
  BY <1>1, <1>2 DEF Next, vars, Idle, ReadClock, Reserve, ReserveFails, Cancel, StartDelayed

(* A step that books no slot keeps the TAT ahead of the history.          *)
LEMMA CoverQuiet ==
  ASSUME TypeOK, Covers, [Next]_vars, UNCHANGED limiter
  PROVE  Covers'
<1> SUFFICES ASSUME NEW h \in Hosts, NEW i \in 1..Len(starts[h])
             PROVE  starts[h][i] + (Len(starts[h]) + 1 - i) * Interval <= KnownTat(h)'
  BY DEF limiter, Covers
<1> DEFINE span == (Len(starts[h]) + 1 - i) * Interval
<1>1. starts[h] \in Seq(Nat)
  BY DEF TypeOK
<1>2. starts[h][i] \in Nat /\ Len(starts[h]) + 1 - i \in Int
  BY <1>1
<1>3. span \in Int
  <2> DEFINE m == Len(starts[h]) + 1 - i
  <2> HIDE DEF m
  <2>1. m \in Int
    BY <1>2 DEF m
  <2>2. m * Interval \in Int
    BY <2>1, Spans
  <2> QED
    BY <2>2 DEF m
<1>4. starts[h][i] + span <= KnownTat(h)
  BY DEF Covers
<1>5. KnownTat(h) \in Nat /\ KnownTat(h)' \in Nat /\ KnownTat(h) <= KnownTat(h)'
  <2>1. next' = next
    BY DEF limiter
  <2>2. clock \in Nat
    BY DEF TypeOK
  <2> QED
    BY <2>1, <2>2, ClockStep, NextTyped DEF KnownTat
<1> HIDE DEF span
<1>6. starts[h][i] + span <= KnownTat(h)'
  BY <1>2, <1>3, <1>4, <1>5
<1> QED
  BY <1>6 DEF span

(* The TAT that a reservation books covers the history it makes.           *)
LEMMA BookedCovers ==
  ASSUME TypeOK, StampKept, Remembers, Covers,
         NEW r \in Requests, Reserve(r),
         NEW i \in 1..Len(starts[HostOf[r]]) + 1
  PROVE  LET h    == HostOf[r]
             slot == SlotFor(h, stamp[r])
         IN Append(starts[h], slot)[i] + (Len(starts[h]) + 2 - i) * Interval
              <= Arrived(h, slot)[h]
<1> DEFINE h == HostOf[r]
           slot == SlotFor(h, stamp[r])
           n == Len(starts[h])
           tat == Arrived(h, slot)[h]
           m == n + 1 - i
           span == m * Interval
<1>1. /\ h \in Hosts /\ slot \in Nat /\ starts[h] \in Seq(Nat) /\ n \in Nat
      /\ Interval \in Nat
  BY Constants, SlotNat DEF TypeOK
<1>2. m \in Int
  BY <1>1
<1>3. /\ span \in Int /\ (m + 1) * Interval = span + Interval
  <2> HIDE DEF m
  <2> QED
    BY <1>2, Spans
<1>4. n + 2 - i = m + 1
  BY <1>1
<1>5. tat = Interval + IF h \in DOMAIN next THEN Later(next[h], slot) ELSE slot
  BY DEF Arrived
<1>6. tat \in Nat /\ tat >= slot + Interval
  BY <1>1, <1>5, NextTyped DEF Later
<1>7. CASE i = n + 1
  <2>1. m = 0 /\ Append(starts[h], slot)[i] = slot
    BY <1>1, <1>7
  <2>2. (n + 2 - i) * Interval = Interval
    BY <1>1, <1>7
  <2> QED
    BY <1>1, <1>6, <2>1, <2>2
<1>8. CASE i \in 1..n
  <2>1. Append(starts[h], slot)[i] = starts[h][i] /\ starts[h][i] \in Nat
    BY <1>1, <1>8
  <2>2. starts[h][i] + span <= KnownTat(h)
    BY <1>1, <1>8 DEF Covers
  <2>3. KnownTat(h) \in Nat /\ KnownTat(h) + Interval <= tat
    <3>1. CASE h \in DOMAIN next
      BY <1>1, <1>5, <3>1, NextTyped DEF KnownTat, Later
    <3>2. CASE h \notin DOMAIN next
      <4>1. starts[h] # <<>> /\ phase[r] = "throttle"
        BY <1>1, <1>8 DEF Reserve
      <4>2. ~Preempts
        BY <1>1, <3>2, <4>1 DEF Remembers
      <4>3. slot = clock
        BY <3>2, <4>1, <4>2 DEF StampKept, SlotFor
      <4> QED
        BY <1>1, <1>5, <3>2, <4>3 DEF KnownTat
    <3> QED
      BY <3>1, <3>2
  <2> HIDE DEF span, m, tat, slot
  <2>4. starts[h][i] + (span + Interval) <= tat
    <3>1. starts[h][i] \in Nat /\ span \in Int /\ tat \in Nat /\ KnownTat(h) \in Nat
      BY <1>3, <1>6, <2>1, <2>3
    <3>2. KnownTat(h) + Interval <= tat
      BY <2>3
    <3>3. Interval \in Nat
      BY Constants
    <3> DEFINE known == KnownTat(h)
               first == starts[h][i]
    <3>4. /\ first \in Int /\ known \in Int /\ span \in Int /\ tat \in Int
          /\ first + span <= known /\ known + Interval <= tat
      BY <2>2, <3>1, <3>2
    <3> HIDE DEF known, first
    <3>5. first + (span + Interval) <= tat
      BY <3>3, <3>4
    <3> QED
      BY <3>5 DEF first
  <2>5. Append(starts[h], slot)[i] + (n + 2 - i) * Interval <= tat
    BY <1>3, <1>4, <2>1, <2>4
  <2> QED
    BY <2>5 DEF tat, slot
<1> QED
  BY <1>1, <1>7, <1>8

(* So does one that books a slot.                                         *)
LEMMA CoverReserve ==
  ASSUME TypeOK, StampKept, Remembers, Covers, NEW r \in Requests, Reserve(r)
  PROVE  Covers'
<1> DEFINE h == HostOf[r]
           now == stamp[r]
           slot == SlotFor(h, now)
           tats == Arrived(h, slot)
           booked(g) == IF g \in DOMAIN tats THEN tats[g] ELSE clock
<1>1. /\ h \in Hosts /\ now \in Nat /\ slot \in Nat /\ clock \in Nat /\ now <= clock
      /\ starts[h] \in Seq(Nat)
  BY Constants, SlotNat DEF TypeOK, StampKept, Reserve
<1>2. /\ starts' = [starts EXCEPT ![h] = Append(@, slot)]
      /\ clock' = clock
      /\ next' \in {tats, Swept(tats, now)}
  BY DEF Reserve, Book
<1>3. \A g \in Hosts : booked(g) \in Nat
  <2>1. ASSUME NEW g \in DOMAIN tats PROVE tats[g] \in Nat
    <3>1. Interval \in Nat /\ (h \in DOMAIN next => next[h] \in Nat)
      BY Constants, NextTyped
    <3>2. CASE g = h
      BY <1>1, <3>1, <3>2 DEF Arrived, Later
    <3>3. CASE g # h
      BY <3>3, NextTyped DEF Arrived
    <3> QED
      BY <3>2, <3>3
  <2> HIDE DEF tats
  <2> QED
    BY <1>1, <2>1
<1>4. \A g \in Hosts : KnownTat(g)' \in Nat /\ booked(g) <= KnownTat(g)'
  <2> SUFFICES ASSUME NEW g \in Hosts
               PROVE  KnownTat(g)' \in Nat /\ booked(g) <= KnownTat(g)'
    OBVIOUS
  <2>1. booked(g) \in Nat
    BY <1>3
  <2>2. CASE next' = tats
    BY <1>2, <2>1, <2>2 DEF KnownTat
  <2>3. CASE next' = Swept(tats, now)
    <3>1. CASE g \in DOMAIN tats /\ tats[g] > now
      <4>1. g \in DOMAIN next' /\ next'[g] = tats[g]
        BY <2>3, <3>1 DEF Swept
      <4> QED
        BY <2>1, <3>1, <4>1 DEF KnownTat
    <3>2. CASE ~(g \in DOMAIN tats /\ tats[g] > now)
      <4>1. g \notin DOMAIN next'
        BY <2>3, <3>2 DEF Swept
      <4>2. KnownTat(g)' = clock
        BY <1>2, <4>1 DEF KnownTat
      <4>3. booked(g) <= clock
        BY <1>1, <2>1, <3>2
      <4> QED
        BY <1>1, <4>2, <4>3
    <3> QED
      BY <3>1, <3>2
  <2> QED
    BY <1>2, <2>2, <2>3
<1> SUFFICES ASSUME NEW g \in Hosts, NEW i \in 1..Len(starts'[g])
             PROVE  starts'[g][i] + (Len(starts'[g]) + 1 - i) * Interval <= KnownTat(g)'
  BY DEF Covers
<1> DEFINE m == Len(starts'[g]) + 1 - i
           span == m * Interval
<1>5. starts'[g][i] + span <= booked(g)
  <2>1. CASE g = h
    <3>1. starts'[g] = Append(starts[h], slot) /\ Len(starts'[g]) = Len(starts[h]) + 1
      BY <1>1, <1>2, <2>1 DEF TypeOK
    <3>2. i \in 1..Len(starts[h]) + 1 /\ m = Len(starts[h]) + 2 - i
      BY <1>1, <3>1
    <3>3. booked(g) = tats[h]
      BY <2>1 DEF Arrived
    <3> HIDE DEF tats, slot, m
    <3> QED
      BY <3>1, <3>2, <3>3, BookedCovers DEF tats, slot
  <2>2. CASE g # h
    <3>1. starts'[g] = starts[g]
      BY <1>2, <2>2 DEF TypeOK
    <3>2. booked(g) = KnownTat(g)
      BY <2>2 DEF Arrived, KnownTat
    <3> QED
      BY <3>1, <3>2 DEF Covers
  <2> QED
    BY <2>1, <2>2
<1>6. starts'[g][i] \in Nat /\ span \in Int
  <2>1. starts'[g] \in Seq(Nat)
    BY <1>1, <1>2 DEF TypeOK
  <2>2. starts'[g][i] \in Nat /\ m \in Int
    BY <2>1
  <2> HIDE DEF m
  <2> QED
    BY <2>2, Spans
<1> HIDE DEF span, booked
<1>7. starts'[g][i] + span <= KnownTat(g)'
  BY <1>3, <1>4, <1>5, <1>6
<1> QED
  BY <1>7 DEF span

(* Every step keeps the TAT ahead of the history.                         *)
LEMMA CoverStep ==
  ASSUME TypeOK, StampKept, Remembers, Covers, [Next]_vars
  PROVE  Covers'
BY LimiterSteps, CoverQuiet, CoverReserve

(* A slot booked at a covered TAT conforms to the rate.                   *)
LEMMA RateStep ==
  ASSUME TypeOK, StampKept, Remembers, Covers, RateConforms, [Next]_vars
  PROVE  RateConforms'
<1>1. CASE UNCHANGED limiter
  BY <1>1 DEF limiter, RateConforms, Tau
<1>2. ASSUME NEW r \in Requests, Reserve(r) PROVE RateConforms'
  <2> DEFINE h == HostOf[r]
             slot == SlotFor(h, stamp[r])
             n == Len(starts[h])
  <2>1. /\ h \in Hosts /\ slot \in Nat /\ starts[h] \in Seq(Nat) /\ n \in Nat
        /\ phase[r] = "throttle"
    <3>1. phase[r] = "throttle"
      BY <1>2 DEF Reserve
    <3>2. h \in Hosts /\ stamp[r] \in Nat /\ starts[h] \in Seq(Nat)
      BY Constants DEF TypeOK
    <3>3. slot \in Nat
      BY <3>2, SlotNat
    <3>4. n \in Nat
      BY <3>2
    <3> QED
      BY <3>1, <3>2, <3>3, <3>4, Zenon
  <2>2. starts' = [starts EXCEPT ![h] = Append(@, slot)] /\ burst' = burst
    BY <1>2 DEF Reserve, Book
  <2>3. Tau' = Tau
    BY <2>2 DEF Tau
  <2>4. \A i \in 1..n : starts[h][i] + (n + 1 - i) * Interval <= slot + Tau
    BY <2>1, SlotConforms
  <2> SUFFICES ASSUME NEW g \in Hosts, NEW j \in 1..Len(starts'[g]), NEW i \in 1..(j - 1)
               PROVE  starts'[g][j] + Tau >= starts'[g][i] + (j - i) * Interval
    BY <2>3 DEF RateConforms
  <2>5. CASE g # h
    <3>1. starts'[g] = starts[g]
      BY <2>2, <2>5 DEF TypeOK
    <3> QED
      BY <3>1 DEF RateConforms
  <2>6. CASE g = h
    <3>1. starts'[g] = Append(starts[h], slot)
      BY <2>1, <2>2, <2>6 DEF TypeOK
    <3>2. CASE j = n + 1
      <4>1. starts'[g][j] = slot /\ starts'[g][i] = starts[h][i] /\ i \in 1..n
        BY <2>1, <3>1, <3>2
      <4>2. starts[h][i] + (n + 1 - i) * Interval <= slot + Tau
        BY <2>4, <4>1
      <4>3. starts[h][i] \in Int /\ (n + 1 - i) * Interval \in Int
        <5> DEFINE m == n + 1 - i
        <5>1. starts[h][i] \in Nat
          BY <2>1, <4>1
        <5> HIDE DEF slot, n
        <5>2. m \in Int
          BY <2>1, <4>1
        <5> HIDE DEF m
        <5>3. m * Interval \in Int
          BY <5>2, Spans
        <5> QED
          BY <5>1, <5>3 DEF m
      <4> DEFINE before == starts[h][i] + (n + 1 - i) * Interval
                 after == slot + Tau
      <4>4. before \in Int /\ after \in Int /\ before <= after
        <5>1. Tau \in Nat
          BY TauNat DEF TypeOK
        <5>2. after \in Int
          BY <2>1, <5>1
        <5>3. before \in Int
          <6> DEFINE span == (n + 1 - i) * Interval
          <6>1. span \in Int
            BY <4>3
          <6> HIDE DEF span
          <6>2. starts[h][i] + span \in Int
            BY <4>3, <6>1
          <6> QED
            BY <6>2 DEF span
        <5> QED
          BY <4>2, <5>2, <5>3
      <4> HIDE DEF before, after
      <4>5. after >= before
        BY <4>4
      <4> QED
        BY <3>2, <4>1, <4>5 DEF before, after
    <3>3. CASE j \in 1..n
      <4>1. starts'[g][j] = starts[h][j] /\ starts'[g][i] = starts[h][i]
        BY <2>1, <3>1, <3>3
      <4> QED
        BY <2>1, <3>3, <4>1 DEF RateConforms
    <3>4. Len(starts'[g]) = n + 1
      BY <2>1, <3>1
    <3>5. j = n + 1 \/ j \in 1..n
      <4> HIDE DEF n
      <4> QED
        BY <2>1, <3>4
    <3> QED
      BY <3>2, <3>3, <3>5, Zenon
  <2> QED
    BY <2>5, <2>6
<1> QED
  BY <1>1, <1>2, LimiterSteps

(* The promise of RateLimiter.zig:32 for every schedule of the workers,    *)
(* every cancellation and every sweep, provided the clock that reserve()   *)
(* is given is not older than a sweep that another worker ran meanwhile:   *)
(* NoStaleSweep.  Without it the run NavThrottle_staleClock breaks it.     *)
THEOREM RateKept ==
  ASSUME NoStaleSweep
  PROVE  Spec => []RateConforms
<1> DEFINE RInv == StampKept /\ Remembers /\ Covers /\ RateConforms
<1>1. Init => RInv
  <2> SUFFICES ASSUME Init PROVE RInv
    OBVIOUS
  <2>1. \A h \in Hosts : starts[h] = <<>>
    BY DEF Init
  <2>2. \A r \in Requests : phase[r] = "new"
    BY DEF Init
  <2>3. StampKept /\ Remembers
    BY <2>1, <2>2 DEF StampKept, Remembers
  <2>4. Covers /\ RateConforms
    BY <2>1 DEF Covers, RateConforms
  <2> QED
    BY <2>3, <2>4
<1>2. TypeOK /\ ThresholdKept /\ RInv /\ [Next]_vars => RInv'
  BY StampStep, RememberStep, CoverStep, RateStep
<1> QED
  BY <1>1, <1>2, TypeCorrect, MapStaysBounded, PTL DEF Spec

-----------------------------------------------------------------------------
(* The exactness of the slots                                              *)

(* The TAT of a known host is reached by some slot of its history: with    *)
(* Covers, it is the latest instant the history asks for.                  *)
Tight ==
  \A h \in DOMAIN next : \E i \in 1..Len(starts[h]) :
    next[h] = starts[h][i] + (Len(starts[h]) + 1 - i) * Interval

(* What the latest of a set of instants is.                                *)
LEMMA LatestIs ==
  ASSUME NEW S, S \subseteq Int, NEW x \in S, \A y \in S : x >= y
  PROVE  Max(S) = x
<1>1. \E m \in S : \A y \in S : m >= y
  OBVIOUS
<1>2. Max(S) \in S /\ \A y \in S : Max(S) >= y
  BY <1>1 DEF Max
<1> DEFINE m == Max(S)
<1>3. m \in Int /\ x \in Int /\ m >= x /\ x >= m
  BY <1>2
<1> HIDE DEF m
<1>4. m = x
  BY <1>3
<1> QED
  BY <1>4 DEF m

(* A reservation adds to the history the slot that its TAT stands for.     *)
LEMMA TightReserve ==
  ASSUME TypeOK, Tight, NEW r \in Requests, Reserve(r)
  PROVE  Tight'
<1> DEFINE h == HostOf[r]
           slot == SlotFor(h, stamp[r])
           tats == Arrived(h, slot)
           n == Len(starts[h])
           new == Append(starts[h], slot)
<1>1. /\ h \in Hosts /\ slot \in Nat /\ starts[h] \in Seq(Nat) /\ n \in Nat
      /\ Interval \in Nat
  <2>1. h \in Hosts /\ stamp[r] \in Nat /\ starts[h] \in Seq(Nat)
    BY Constants DEF TypeOK
  <2>2. slot \in Nat
    BY <2>1, SlotNat
  <2>3. n \in Nat /\ Interval \in Nat
    BY <2>1, Constants, LenProperties
  <2> QED
    BY <2>1, <2>2, <2>3, Zenon
<1>2. /\ starts' = [starts EXCEPT ![h] = new]
      /\ next' \in {tats, Swept(tats, stamp[r])}
  BY DEF Reserve, Book
<1>3. \A g \in DOMAIN next' : g \in DOMAIN tats /\ next'[g] = tats[g]
  BY <1>2 DEF Swept
<1>4. /\ starts'[h] = new /\ Len(new) = n + 1 /\ new[n + 1] = slot
      /\ \A i \in 1..n : new[i] = starts[h][i]
  BY <1>1, <1>2 DEF TypeOK
<1>5. tats[h] = Interval + IF h \in DOMAIN next THEN Later(next[h], slot) ELSE slot
  BY DEF Arrived
<1>6. \E i \in 1..n + 1 : tats[h] = new[i] + (n + 2 - i) * Interval
  <2>1. CASE h \in DOMAIN next /\ next[h] > slot
    <3>1. PICK i \in 1..n : next[h] = starts[h][i] + (n + 1 - i) * Interval
      BY <2>1 DEF Tight
    <3> DEFINE m == n + 1 - i
               span == m * Interval
    <3>2. m \in Int /\ n + 2 - i = m + 1 /\ i \in 1..n + 1
      BY <1>1
    <3>3. span \in Int /\ (m + 1) * Interval = span + Interval
      <4> HIDE DEF m
      <4> QED
        BY <3>2, Spans
    <3>4. tats[h] = Interval + next[h]
      BY <1>1, <1>5, <2>1, NextTyped DEF Later
    <3> DEFINE first == starts[h][i]
               known == next[h]
    <3>5. first \in Nat /\ known \in Nat
      <4>1. first \in Nat
        BY <1>1, ElementOfSeq
      <4> QED
        BY <2>1, <4>1, NextTyped
    <3>6. new[i] = first /\ known = first + span /\ tats[h] = Interval + known
      BY <1>4, <3>1, <3>4, Zenon
    <3> HIDE DEF tats, span, m, new, first, known
    <3>7. tats[h] = new[i] + (span + Interval)
      BY <1>1, <3>3, <3>5, <3>6
    <3>8. tats[h] = new[i] + (n + 2 - i) * Interval
      BY <3>2, <3>3, <3>7
    <3> QED
      BY <3>2, <3>8
  <2>2. CASE ~(h \in DOMAIN next /\ next[h] > slot)
    <3>1. tats[h] = Interval + slot
      BY <1>1, <1>5, <2>2, NextTyped DEF Later
    <3>2. n + 1 \in 1..n + 1 /\ n + 2 - (n + 1) = 1 /\ 1 * Interval = Interval
      BY <1>1
    <3>3. tats[h] = new[n + 1] + (n + 2 - (n + 1)) * Interval
      <4> HIDE DEF tats, slot, new
      <4> QED
        BY <1>1, <1>4, <3>1, <3>2
    <3> QED
      BY <3>2, <3>3
  <2> QED
    BY <2>1, <2>2
<1>7. ASSUME NEW g \in DOMAIN next'
      PROVE  \E i \in 1..Len(starts'[g]) :
               next'[g] = starts'[g][i] + (Len(starts'[g]) + 1 - i) * Interval
  <2>1. CASE g = h
    <3>1. starts'[g] = new /\ Len(starts'[g]) = n + 1 /\ next'[g] = tats[h]
      BY <1>3, <1>4, <1>7, <2>1
    <3>2. \A i \in 1..n + 1 : Len(starts'[g]) + 1 - i = n + 2 - i
      BY <1>1, <3>1
    <3> HIDE DEF tats, new, n
    <3>3. PICK i \in 1..n + 1 : tats[h] = new[i] + (n + 2 - i) * Interval
      BY <1>6
    <3>4. Len(starts'[g]) + 1 - i = n + 2 - i
      BY <3>2
    <3>5. next'[g] = starts'[g][i] + (Len(starts'[g]) + 1 - i) * Interval
      BY <3>1, <3>3, <3>4, Zenon
    <3>6. i \in 1..Len(starts'[g])
      BY <3>1
    <3> QED
      BY <3>5, <3>6, Zenon
  <2>2. CASE g # h
    <3>1. g \in DOMAIN next /\ next'[g] = next[g]
      BY <1>3, <1>7, <2>2 DEF Arrived
    <3>2. starts'[g] = starts[g]
      BY <1>2, <2>2, <3>1 DEF TypeOK
    <3> QED
      BY <3>1, <3>2, Zenon DEF Tight
  <2> QED
    BY <2>1, <2>2
<1> QED
  BY <1>7, Zenon DEF Tight

(* Every step keeps the TAT within the history.                            *)
LEMMA TightStep == ASSUME TypeOK, Tight, [Next]_vars PROVE Tight'
<1>1. CASE UNCHANGED limiter
  BY <1>1, Zenon DEF limiter, Tight
<1> QED
  BY <1>1, LimiterSteps, TightReserve

(* The slot of a reservation is the earliest that conforms.                *)
LEMMA SlotEarliest ==
  ASSUME TypeOK, StampKept, Remembers, Covers, Tight,
         NEW r \in Requests, phase[r] = "throttle"
  PROVE  SlotFor(HostOf[r], stamp[r]) = EarliestSlot(HostOf[r], stamp[r])
<1> DEFINE h == HostOf[r]
           now == stamp[r]
           slot == SlotFor(h, now)
           past == starts[h]
           n == Len(past)
           asked(i) == past[i] + (n + 1 - i) * Interval - Tau
           all == {now} \cup {asked(i) : i \in 1..n}
<1>1. /\ h \in Hosts /\ now \in Nat /\ slot \in Nat /\ Tau \in Nat
      /\ past \in Seq(Nat) /\ n \in Nat
  BY Constants, SlotNat, TauNat DEF TypeOK
<1>2. EarliestSlot(h, now) = Max(all)
  BY DEF EarliestSlot
<1>3. \A i \in 1..n : past[i] \in Nat /\ (n + 1 - i) * Interval \in Int
  <2> TAKE i \in 1..n
  <2>1. past[i] \in Nat
    BY <1>1, ElementOfSeq
  <2> DEFINE m == n + 1 - i
  <2>2. m \in Int
    BY <1>1
  <2> HIDE DEF m
  <2>3. m * Interval \in Int
    BY <2>2, Spans
  <2> QED
    BY <2>1, <2>3 DEF m
<1>4. \A i \in 1..n : past[i] + (n + 1 - i) * Interval <= slot + Tau
  BY <1>1, SlotConforms
<1> HIDE DEF now, slot, past, n
<1>5. \A i \in 1..n : asked(i) \in Int /\ slot >= asked(i)
  <2> TAKE i \in 1..n
  <2> DEFINE span == (n + 1 - i) * Interval
  <2>1. past[i] \in Nat /\ span \in Int /\ past[i] + span <= slot + Tau
    BY <1>3, <1>4
  <2> DEFINE first == past[i]
             tau == Tau
  <2>2. first \in Int /\ span \in Int /\ tau \in Int /\ slot \in Int
        /\ first + span <= slot + tau
    BY <1>1, <2>1
  <2> HIDE DEF span, first, tau
  <2>3. first + span - tau \in Int /\ slot >= first + span - tau
    BY <2>2
  <2> QED
    BY <2>3 DEF span, first, tau
<1>6. slot >= now
  BY <1>1, NextTyped DEF slot, SlotFor, Later, SatMinus, now
<1>7. slot \in all
  <2>1. CASE slot = now
    BY <2>1
  <2>2. CASE slot # now
    <3>1. h \in DOMAIN next /\ slot = next[h] - Tau
      BY <1>1, <2>2, NextTyped DEF slot, SlotFor, Later, SatMinus
    <3>2. PICK i \in 1..n : next[h] = past[i] + (n + 1 - i) * Interval
      BY <3>1 DEF Tight, past, n
    <3> DEFINE span == (n + 1 - i) * Interval
    <3>3. past[i] \in Nat /\ span \in Int /\ next[h] = past[i] + span
      BY <1>3, <3>2
    <3> HIDE DEF span
    <3> DEFINE first == past[i]
               tau == Tau
               known == next[h]
    <3>6. first \in Int /\ tau \in Int /\ known \in Int /\ known = first + span
          /\ slot = known - tau
      BY <1>1, <3>1, <3>3
    <3> HIDE DEF first, tau, known
    <3>7. slot = first + span - tau
      BY <3>3, <3>6
    <3>4. slot = past[i] + span - Tau
      BY <3>7 DEF first, tau
    <3>5. slot = asked(i)
      BY <3>4 DEF span
    <3> QED
      BY <3>5
  <2> QED
    BY <2>1, <2>2
<1>8. all \subseteq Int /\ \A y \in all : slot >= y
  BY <1>1, <1>5, <1>6
<1> HIDE DEF all
<1>9. Max(all) = slot
  BY <1>7, <1>8, LatestIs
<1> QED
  BY <1>2, <1>9, Zenon DEF slot, now

(* Each reservation gives the earliest slot that conforms to the whole     *)
(* history of the host (RateLimiter.reserve), for every interval, burst,   *)
(* threshold and schedule, provided that reserve() is called with a clock  *)
(* no older than a sweep.                                                  *)
THEOREM SlotsAreEarliest ==
  ASSUME NoStaleSweep
  PROVE  Spec => EarliestConforming
<1> DEFINE EInv == StampKept /\ Remembers /\ Covers /\ Tight
           Exact == \A r \in Requests : LET h == HostOf[r] IN
             phase[r] = "throttle" /\ phase'[r] # "throttle" /\ starts'[h] # starts[h]
               => starts'[h] = Append(starts[h], EarliestSlot(h, stamp[r]))
<1>1. Init => EInv
  <2> SUFFICES ASSUME Init PROVE EInv
    OBVIOUS
  <2>1. \A h \in Hosts : starts[h] = <<>>
    BY DEF Init
  <2>2. (\A r \in Requests : phase[r] = "new") /\ DOMAIN next = {}
    BY DEF Init
  <2>3. StampKept /\ Remembers
    BY <2>1, <2>2 DEF StampKept, Remembers
  <2>4. Covers /\ Tight
    BY <2>1, <2>2 DEF Covers, Tight
  <2> QED
    BY <2>3, <2>4
<1>2. TypeOK /\ ThresholdKept /\ EInv /\ [Next]_vars => EInv'
  BY StampStep, RememberStep, CoverStep, TightStep
<1>3. TypeOK /\ EInv /\ [Next]_vars => [Exact]_vars
  <2> SUFFICES ASSUME TypeOK, EInv, [Next]_vars,
                      NEW r \in Requests, phase[r] = "throttle", phase'[r] # "throttle",
                      starts'[HostOf[r]] # starts[HostOf[r]]
               PROVE  starts'[HostOf[r]] =
                        Append(starts[HostOf[r]], EarliestSlot(HostOf[r], stamp[r]))
    OBVIOUS
  <2>1. starts' # starts
    OBVIOUS
  <2>2. PICK p \in Requests : Reserve(p)
    BY <2>1, LimiterSteps DEF limiter
  <2>3. p = r
    BY <2>2 DEF Reserve, TypeOK
  <2>4. starts' = [starts EXCEPT ![HostOf[r]] = Append(@, SlotFor(HostOf[r], stamp[r]))]
    BY <2>2, <2>3, Zenon DEF Reserve, Book
  <2>5. HostOf[r] \in Hosts /\ starts \in [Hosts -> Seq(Nat)]
    BY Constants DEF TypeOK
  <2>6. starts'[HostOf[r]] = Append(starts[HostOf[r]], SlotFor(HostOf[r], stamp[r]))
    BY <2>4, <2>5, Zenon
  <2>7. SlotFor(HostOf[r], stamp[r]) = EarliestSlot(HostOf[r], stamp[r])
    BY SlotEarliest
  <2> QED
    BY <2>6, <2>7, Zenon
<1> QED
  BY <1>1, <1>2, <1>3, TypeCorrect, MapStaysBounded, PTL DEF Spec, EarliestConforming

-----------------------------------------------------------------------------
(* The delayed queues                                                      *)

(* No transfer is linked twice in the queue of w.                          *)
Once(w) ==
  \A i, j \in 1..Len(delayed[w]) : delayed[w][i] = delayed[w][j] => i = j

(* The queue of w holds the delayed transfers of w and nothing else.       *)
Exactly(w) ==
  \A r \in Requests :
    WorkerOf[r] = w /\ phase[r] = "delayed" <=>
      \E i \in 1..Len(delayed[w]) : delayed[w][i] = r

(* The queue of w is ordered by start time: what lets startDelayed stop at *)
(* the first transfer that is not due, and clampToDelayed read the head.   *)
Sorted(w) ==
  \A i, j \in 1..Len(delayed[w]) :
    i <= j => runAt[delayed[w][i]] <= runAt[delayed[w][j]]

QueueKept(w) == Once(w) /\ Exactly(w) /\ Sorted(w)

(* What a piece of a queue holds.                                          *)
LEMMA Piece ==
  ASSUME NEW S, NEW s \in Seq(S), NEW m \in Nat, NEW n \in Nat, m <= n, n <= Len(s)
  PROVE  /\ SubSeq(s, m + 1, n) \in Seq(S) /\ Len(SubSeq(s, m + 1, n)) = n - m
         /\ \A j \in 1..n - m : SubSeq(s, m + 1, n)[j] = s[m + j]
<1> DEFINE b == SubSeq(s, m + 1, n)
<1>1. \A i \in m + 1..n : s[i] \in S
  <2>1. \A i \in m + 1..n : i \in 1..Len(s)
    BY LenProperties
  <2> QED
    BY <2>1, ElementOfSeq
<1>2. /\ b \in Seq(S) /\ Len(b) = IF m + 1 <= n THEN n - (m + 1) + 1 ELSE 0
      /\ \A j \in 1..n - (m + 1) + 1 : b[j] = s[(m + 1) + j - 1]
  BY <1>1, SubSeqProperties
<1> HIDE DEF b
<1>3. \A j \in 1..n - m : j \in 1..n - (m + 1) + 1 /\ (m + 1) + j - 1 = m + j
  OBVIOUS
<1>4. Len(b) = n - m
  BY <1>2
<1> QED
  BY <1>2, <1>3, <1>4 DEF b

(* What two queues hold together.                                          *)
LEMMA Joined ==
  ASSUME NEW S, NEW a \in Seq(S), NEW b \in Seq(S)
  PROVE  /\ a \o b \in Seq(S) /\ Len(a \o b) = Len(a) + Len(b)
         /\ \A j \in 1..Len(a) : (a \o b)[j] = a[j]
         /\ \A j \in 1..Len(b) : (a \o b)[Len(a) + j] = b[j]
<1> DEFINE k == Len(a)
           l == Len(b)
<1>1. /\ a \o b \in Seq(S) /\ Len(a \o b) = k + l
      /\ \A j \in 1..k + l : (a \o b)[j] = IF j <= k THEN a[j] ELSE b[j - k]
  BY ConcatProperties
<1>2. k \in Nat /\ l \in Nat
  BY LenProperties
<1> HIDE DEF k, l
<1>3. \A j \in 1..k : j \in 1..k + l /\ j <= k
  BY <1>2
<1>4. \A j \in 1..l : k + j \in 1..k + l /\ ~(k + j <= k) /\ k + j - k = j
  BY <1>2
<1>5. \A j \in 1..l : (a \o b)[k + j] = b[j]
  <2> TAKE j \in 1..l
  <2> DEFINE i == k + j
  <2>1. i \in 1..k + l /\ ~(i <= k) /\ i - k = j
    BY <1>2
  <2> HIDE DEF i
  <2>2. (a \o b)[i] = b[i - k]
    BY <1>1, <2>1, Zenon
  <2>3. (a \o b)[i] = b[j]
    BY <2>1, <2>2, Zenon
  <2> QED
    BY <2>3, Zenon DEF i
<1>6. \A j \in 1..k : (a \o b)[j] = a[j]
  BY <1>1, <1>3
<1> QED
  BY <1>1, <1>5, <1>6 DEF k, l

(* What linking behind position k makes of a queue.                        *)
LEMMA LinkedElements ==
  ASSUME NEW S, NEW s \in Seq(S), NEW x \in S, NEW k \in 0..Len(s)
  PROVE  /\ Linked(s, k, x) \in Seq(S) /\ Len(Linked(s, k, x)) = Len(s) + 1
         /\ \A j \in 1..k : Linked(s, k, x)[j] = s[j]
         /\ Linked(s, k, x)[k + 1] = x
         /\ \A j \in k + 1..Len(s) : Linked(s, k, x)[j + 1] = s[j]
<1> DEFINE n == Len(s)
           a == SubSeq(s, 1, k)
           b == SubSeq(s, k + 1, n)
<1>1. n \in Nat /\ k \in Nat /\ k <= n
  BY LenProperties
<1>2. a \in Seq(S) /\ Len(a) = k /\ \A j \in 1..k : a[j] = s[j]
  <2>1. /\ SubSeq(s, 0 + 1, k) \in Seq(S) /\ Len(SubSeq(s, 0 + 1, k)) = k - 0
        /\ \A j \in 1..k - 0 : SubSeq(s, 0 + 1, k)[j] = s[0 + j]
    BY <1>1, Piece
  <2>2. 0 + 1 = 1 /\ k - 0 = k /\ \A j \in 1..k : 0 + j = j
    BY <1>1
  <2> QED
    BY <2>1, <2>2
<1>3. b \in Seq(S) /\ Len(b) = n - k /\ \A j \in 1..n - k : b[j] = s[k + j]
  BY <1>1, Piece
<1>4. Linked(s, k, x) = (a \o <<x>>) \o b
  <2>1. (k + 1) - 1 = k
    BY <1>1
  <2>2. SubSeq(s, 1, (k + 1) - 1) = a
    BY <2>1
  <2>3. Linked(s, k, x) = (SubSeq(s, 1, (k + 1) - 1) \o <<x>>) \o b
    BY Zenon DEF Linked, InsertAt
  <2> QED
    BY <2>2, <2>3, Zenon
<1> HIDE DEF a, b, n
<1> DEFINE c == a \o <<x>>
<1>5. c \in Seq(S) /\ Len(c) = k + 1 /\ c[k + 1] = x /\ \A j \in 1..k : c[j] = a[j]
  <2>1. <<x>> \in Seq(S) /\ Len(<<x>>) = 1 /\ <<x>>[1] = x
    OBVIOUS
  <2> QED
    BY <1>1, <1>2, <2>1, Joined
<1> HIDE DEF c
<1>6. Linked(s, k, x) = c \o b
  BY <1>4 DEF c
<1>7. /\ c \o b \in Seq(S) /\ Len(c \o b) = n + 1
      /\ \A j \in 1..k + 1 : (c \o b)[j] = c[j]
      /\ \A j \in 1..n - k : (c \o b)[k + 1 + j] = b[j]
  <2> DEFINE m == Len(c)
             l == Len(b)
  <2>1. /\ c \o b \in Seq(S) /\ Len(c \o b) = m + l
        /\ \A j \in 1..m : (c \o b)[j] = c[j]
        /\ \A j \in 1..l : (c \o b)[m + j] = b[j]
    <3>1. c \in Seq(S) /\ b \in Seq(S)
      BY <1>3, <1>5
    <3> QED
      BY <3>1, Joined
  <2>2. m = k + 1 /\ l = n - k
    BY <1>3, <1>5
  <2> HIDE DEF m, l
  <2>3. Len(c \o b) = n + 1
    BY <1>1, <2>1, <2>2
  <2> QED
    BY <2>1, <2>2, <2>3
<1>8. \A j \in k + 1..n : (c \o b)[j + 1] = s[j]
  <2> TAKE j \in k + 1..n
  <2>1. j - k \in 1..n - k /\ k + 1 + (j - k) = j + 1 /\ k + (j - k) = j
    BY <1>1
  <2> QED
    BY ZenonT(60), <2>1, <1>7, <1>3
<1>9. 1..k \subseteq 1..k + 1 /\ k + 1 \in 1..k + 1
  BY <1>1
<1> QED
  BY <1>2, <1>5, <1>6, <1>7, <1>8, <1>9 DEF n

(* What remains of a queue without its first n transfers.                  *)
LEMMA RestElements ==
  ASSUME NEW S, NEW s \in Seq(S), NEW n \in 1..Len(s)
  PROVE  /\ Len(SubSeq(s, n + 1, Len(s))) = Len(s) - n
         /\ \A j \in 1..Len(s) - n : SubSeq(s, n + 1, Len(s))[j] = s[n + j]
<1>1. Len(s) \in Nat /\ n \in Nat /\ n <= Len(s)
  BY LenProperties
<1> QED
  BY <1>1, Piece

(* What remains of a queue without the transfer at position k.             *)
LEMMA RemovedElements ==
  ASSUME NEW S, NEW s \in Seq(S), NEW k \in 1..Len(s)
  PROVE  /\ Len(RemoveAt(s, k)) = Len(s) - 1
         /\ \A j \in 1..k - 1 : RemoveAt(s, k)[j] = s[j]
         /\ \A j \in k..Len(s) - 1 : RemoveAt(s, k)[j] = s[j + 1]
<1> DEFINE n == Len(s)
           a == SubSeq(s, 1, k - 1)
           b == SubSeq(s, k + 1, n)
<1>1. n \in Nat /\ k \in Nat /\ 1 <= k /\ k <= n
  BY LenProperties
<1>2. a \in Seq(S) /\ Len(a) = k - 1 /\ \A j \in 1..k - 1 : a[j] = s[j]
  <2>0. k - 1 \in Nat /\ k - 1 <= n
    BY <1>1
  <2>1. /\ SubSeq(s, 0 + 1, k - 1) \in Seq(S) /\ Len(SubSeq(s, 0 + 1, k - 1)) = k - 1 - 0
        /\ \A j \in 1..k - 1 - 0 : SubSeq(s, 0 + 1, k - 1)[j] = s[0 + j]
    BY <2>0, Piece
  <2>2. 0 + 1 = 1 /\ k - 1 - 0 = k - 1 /\ \A j \in 1..k - 1 : 0 + j = j
    BY <1>1
  <2> QED
    BY <2>1, <2>2
<1>3. b \in Seq(S) /\ Len(b) = n - k /\ \A j \in 1..n - k : b[j] = s[k + j]
  BY <1>1, Piece
<1>4. RemoveAt(s, k) = a \o b
  BY DEF RemoveAt, a, b, n
<1> HIDE DEF a, b, n
<1>5. /\ Len(a \o b) = n - 1
      /\ \A j \in 1..k - 1 : (a \o b)[j] = a[j]
      /\ \A j \in 1..n - k : (a \o b)[k - 1 + j] = b[j]
  <2> DEFINE m == Len(a)
             l == Len(b)
  <2>1. /\ a \o b \in Seq(S) /\ Len(a \o b) = m + l
        /\ \A j \in 1..m : (a \o b)[j] = a[j]
        /\ \A j \in 1..l : (a \o b)[m + j] = b[j]
    <3>1. a \in Seq(S) /\ b \in Seq(S)
      BY <1>2, <1>3
    <3> QED
      BY <3>1, Joined
  <2>2. m = k - 1 /\ l = n - k
    BY <1>2, <1>3
  <2> HIDE DEF m, l
  <2>3. Len(a \o b) = n - 1
    BY <1>1, <2>1, <2>2
  <2> QED
    BY <2>1, <2>2, <2>3
<1>6. \A j \in k..n - 1 : (a \o b)[j] = s[j + 1]
  <2> TAKE j \in k..n - 1
  <2> DEFINE i == j + 1 - k
  <2>1. i \in 1..n - k /\ k - 1 + i = j /\ k + i = j + 1
    BY <1>1
  <2> HIDE DEF i
  <2>2. (a \o b)[k - 1 + i] = b[i] /\ b[i] = s[k + i]
    BY <2>1, <1>5, <1>3
  <2> QED
    BY <2>1, <2>2
<1> QED
  BY <1>2, <1>4, <1>5, <1>6 DEF n

(* Whoever is linked in the queue of w is a delayed transfer of w.         *)
LEMMA Linkeds ==
  ASSUME TypeOK, NEW w \in Workers, Exactly(w)
  PROVE  /\ delayed[w] \in Seq(Requests) /\ Len(delayed[w]) \in Nat
         /\ \A i \in 1..Len(delayed[w]) :
              /\ delayed[w][i] \in Requests
              /\ WorkerOf[delayed[w][i]] = w /\ phase[delayed[w][i]] = "delayed"
              /\ runAt[delayed[w][i]] \in Nat
<1>1. delayed[w] \in Seq(Requests)
  BY DEF TypeOK
<1>2. Len(delayed[w]) \in Nat /\ \A i \in 1..Len(delayed[w]) : delayed[w][i] \in Requests
  BY <1>1, LenProperties, ElementOfSeq
<1>3. \A i \in 1..Len(delayed[w]) :
        WorkerOf[delayed[w][i]] = w /\ phase[delayed[w][i]] = "delayed"
  BY <1>2, Zenon DEF Exactly
<1>4. \A r \in Requests : runAt[r] \in Nat
  BY DEF TypeOK
<1> QED
  BY <1>1, <1>2, <1>3, <1>4

(* A step that leaves the queue of w and its delayed transfers alone.      *)
LEMMA QueueQuiet ==
  ASSUME TypeOK, NEW w \in Workers, QueueKept(w),
         delayed'[w] = delayed[w],
         \A r \in Requests : WorkerOf[r] = w =>
           /\ phase'[r] = "delayed" <=> phase[r] = "delayed"
           /\ phase[r] = "delayed" => runAt'[r] = runAt[r]
  PROVE  QueueKept(w)'
<1> DEFINE q == delayed[w]
<1>1. \A i \in 1..Len(q) :
        q[i] \in Requests /\ WorkerOf[q[i]] = w /\ phase[q[i]] = "delayed"
  BY Linkeds DEF QueueKept
<1>2. \A i \in 1..Len(q) : runAt'[q[i]] = runAt[q[i]]
  BY <1>1
<1>3. Once(w)'
  BY Zenon DEF QueueKept, Once
<1>4. Exactly(w)'
  BY ZenonT(60) DEF QueueKept, Exactly
<1>5. Sorted(w)'
  <2>1. \A i, j \in 1..Len(q) : i <= j => runAt[q[i]] <= runAt[q[j]]
    BY DEF QueueKept, Sorted
  <2>2. \A i, j \in 1..Len(q) : i <= j => runAt'[q[i]] <= runAt'[q[j]]
    <3> TAKE i, j \in 1..Len(q)
    <3>1. runAt'[q[i]] = runAt[q[i]] /\ runAt'[q[j]] = runAt[q[j]]
      BY <1>2
    <3> QED
      BY <2>1, <3>1
  <2>3. delayed'[w] = q
    OBVIOUS
  <2> HIDE DEF q
  <2> QED
    BY <2>2, <2>3 DEF Sorted
<1> QED
  BY <1>3, <1>4, <1>5 DEF QueueKept

(* A step takes transfers out of the queue of w and leaves m others in     *)
(* their order: F gives their old positions.                               *)
Thins(w, m, F) ==
  /\ Len(delayed'[w]) = m
  /\ \A j \in 1..m : F[j] \in 1..Len(delayed[w]) /\ delayed'[w][j] = delayed[w][F[j]]
  /\ \A i, j \in 1..m : (i <= j => F[i] <= F[j]) /\ (F[i] = F[j] => i = j)
  /\ \A r \in Requests : WorkerOf[r] = w =>
       (phase'[r] = "delayed" <=> \E j \in 1..m : delayed[w][F[j]] = r)

(* Such a step keeps what it leaves exact and ordered.                     *)
LEMMA QueueThinned ==
  ASSUME TypeOK, NEW w \in Workers, QueueKept(w), runAt' = runAt,
         NEW m \in Nat, NEW F, Thins(w, m, F)
  PROVE  QueueKept(w)'
<1> DEFINE q == delayed[w]
           n == Len(q)
<1> USE DEF Thins
<1>1. \A j \in 1..m : F[j] \in 1..n /\ delayed'[w][j] = q[F[j]]
  OBVIOUS
<1>2. \A i \in 1..n : WorkerOf[q[i]] = w
  BY Linkeds DEF QueueKept
<1> HIDE DEF n, q
<1>3. Once(w)'
  <2>1. \A i, j \in 1..n : q[i] = q[j] => i = j
    BY DEF QueueKept, Once, q, n
  <2>2. \A i, j \in 1..m : delayed'[w][i] = delayed'[w][j] => i = j
    <3> TAKE i, j \in 1..m
    <3>1. /\ F[i] \in 1..n /\ delayed'[w][i] = q[F[i]]
          /\ F[j] \in 1..n /\ delayed'[w][j] = q[F[j]]
      BY <1>1
    <3>2. F[i] = F[j] => i = j
      OBVIOUS
    <3>3. q[F[i]] = q[F[j]] => F[i] = F[j]
      <4> DEFINE f == F[i]
                 g == F[j]
      <4>1. f \in 1..n /\ g \in 1..n
        BY <3>1
      <4> HIDE DEF f, g
      <4>2. q[f] = q[g] => f = g
        BY <2>1, <4>1
      <4> QED
        BY <4>2 DEF f, g
    <3> QED
      BY <3>1, <3>2, <3>3, Zenon
  <2> QED
    BY <2>2 DEF Once
<1>4. Exactly(w)'
  <2>1. \A r \in Requests :
          WorkerOf[r] = w /\ phase'[r] = "delayed" <=> \E j \in 1..m : q[F[j]] = r
    <3> TAKE r \in Requests
    <3>1. WorkerOf[r] = w => (phase'[r] = "delayed" <=> \E j \in 1..m : q[F[j]] = r)
      BY DEF q
    <3>2. (\E j \in 1..m : q[F[j]] = r) => WorkerOf[r] = w
      BY <1>1, <1>2
    <3> QED
      BY <3>1, <3>2
  <2>2. \A r \in Requests :
          WorkerOf[r] = w /\ phase'[r] = "delayed" <=> \E j \in 1..m : delayed'[w][j] = r
    <3> TAKE r \in Requests
    <3>1. (\E j \in 1..m : delayed'[w][j] = r) <=> \E j \in 1..m : q[F[j]] = r
      BY <1>1
    <3> QED
      BY <2>1, <3>1
  <2> QED
    BY <2>2 DEF Exactly
<1>5. Sorted(w)'
  <2>1. \A i, j \in 1..n : i <= j => runAt[q[i]] <= runAt[q[j]]
    BY DEF QueueKept, Sorted, q, n
  <2>2. \A i, j \in 1..m : i <= j => runAt'[delayed'[w][i]] <= runAt'[delayed'[w][j]]
    <3> TAKE i, j \in 1..m
    <3>1. /\ F[i] \in 1..n /\ delayed'[w][i] = q[F[i]]
          /\ F[j] \in 1..n /\ delayed'[w][j] = q[F[j]]
      BY <1>1
    <3>2. i <= j => F[i] <= F[j]
      OBVIOUS
    <3> QED
      BY <2>1, <3>1, <3>2
  <2> QED
    BY <2>2 DEF Sorted
<1> QED
  BY <1>3, <1>4, <1>5 DEF QueueKept

(* startDelayed takes a prefix of the queue of w, and touches no transfer  *)
(* of another worker.                                                      *)
LEMMA StartKeepsQueues ==
  ASSUME TypeOK, \A v \in Workers : QueueKept(v), NEW w \in Workers, StartDelayed(w),
         NEW v \in Workers
  PROVE  QueueKept(v)'
<1> DEFINE q == delayed[w]
<1>1. PICK n \in 1..Len(q), fails \in BOOLEAN :
        /\ delayed' = [delayed EXCEPT ![w] = SubSeq(q, n + 1, Len(q))]
        /\ phase' = [r \in Requests |->
             IF r \notin {q[i] : i \in 1..n} THEN phase[r]
             ELSE IF fails /\ r = q[n] THEN "gone" ELSE "sent"]
  BY DEF StartDelayed
<1>2. runAt' = runAt
  BY DEF StartDelayed
<1>3. /\ q \in Seq(Requests) /\ Len(q) \in Nat
      /\ \A i \in 1..Len(q) : WorkerOf[q[i]] = w /\ phase[q[i]] = "delayed"
  BY Linkeds DEF QueueKept
<1> DEFINE popped == {q[i] : i \in 1..n}
<1>4. \A r \in Requests :
        phase'[r] = "delayed" <=> phase[r] = "delayed" /\ r \notin popped
  BY <1>1, Zenon
<1>5. CASE v # w
  <2>1. delayed'[v] = delayed[v]
    BY <1>1, <1>5 DEF TypeOK
  <2>2. \A r \in popped : WorkerOf[r] = w
    BY <1>1, <1>3
  <2>3. \A r \in Requests : WorkerOf[r] = v =>
          /\ phase'[r] = "delayed" <=> phase[r] = "delayed"
          /\ phase[r] = "delayed" => runAt'[r] = runAt[r]
    BY <1>2, <1>4, <1>5, <2>2
  <2> QED
    BY <2>1, <2>3, QueueQuiet
<1>6. CASE v = w
  <2> DEFINE l == Len(q)
             m == l - n
             F == [j \in 1..m |-> n + j]
             rest == SubSeq(q, n + 1, l)
  <2>1. Len(rest) = m /\ \A j \in 1..m : rest[j] = q[n + j]
    BY <1>1, <1>3, RestElements
  <2>2. delayed'[w] = rest
    BY <1>1 DEF TypeOK
  <2>3. l \in Nat /\ n \in Nat /\ 1 <= n /\ n <= l /\ m \in Nat
    BY <1>1, <1>3
  <2>4. \A i, j \in 1..l : q[i] = q[j] => i = j
    BY DEF QueueKept, Once
  <2>5. \A r \in Requests :
          WorkerOf[r] = w /\ phase[r] = "delayed" <=> \E i \in 1..l : q[i] = r
    BY Zenon DEF QueueKept, Exactly
  <2> HIDE DEF l, rest, q
  <2>6. /\ \A j \in 1..m : F[j] = n + j /\ F[j] \in 1..l
        /\ \A i, j \in 1..m : (i <= j => F[i] <= F[j]) /\ (F[i] = F[j] => i = j)
    BY <2>3
  <2>7. \A j \in 1..m : rest[j] = q[F[j]]
    BY <2>1, <2>6
  <2>8. \A r \in Requests : WorkerOf[r] = w =>
          (phase'[r] = "delayed" <=> \E j \in 1..m : q[F[j]] = r)
    <3> SUFFICES ASSUME NEW r \in Requests, WorkerOf[r] = w
                 PROVE  phase'[r] = "delayed" <=> \E j \in 1..m : q[F[j]] = r
      OBVIOUS
    <3>1. ASSUME phase'[r] = "delayed" PROVE \E j \in 1..m : q[F[j]] = r
      <4>1. phase[r] = "delayed" /\ \A i \in 1..n : q[i] # r
        BY <1>4, <3>1
      <4>2. PICK i \in 1..l : q[i] = r
        BY <2>5, <4>1
      <4>3. ~(i \in 1..n)
        BY <4>1, <4>2
      <4>4. i - n \in 1..m /\ n + (i - n) = i
        BY <2>3, <4>3
      <4>5. F[i - n] = i
        BY <2>6, <4>4
      <4> QED
        BY <4>2, <4>4, <4>5, Zenon
    <3>2. ASSUME NEW j \in 1..m, q[F[j]] = r PROVE phase'[r] = "delayed"
      <4>1. F[j] \in 1..l /\ F[j] > n
        BY <2>3, <2>6
      <4> HIDE DEF F
      <4>2. phase[r] = "delayed"
        BY <2>5, <3>2, <4>1
      <4>3. \A i \in 1..n : q[i] # r
        <5> TAKE i \in 1..n
        <5>1. i \in 1..l /\ i # F[j]
          BY <2>3, <4>1
        <5> QED
          BY <2>4, <3>2, <4>1, <5>1
      <4> QED
        BY <1>4, <4>2, <4>3
    <3> QED
      BY <3>1, <3>2
  <2> HIDE DEF F, m
  <2>9. Thins(w, m, F)
    BY <2>1, <2>2, <2>6, <2>7, <2>8, Zenon DEF q, l, Thins
  <2> QED
    BY <1>2, <1>6, <2>3, <2>9, QueueThinned
<1> QED
  BY <1>5, <1>6

(* Cancelling a delayed transfer takes it, and nothing else, out of the    *)
(* queue of its worker.                                                    *)
LEMMA CancelKeepsQueues ==
  ASSUME TypeOK, \A v \in Workers : QueueKept(v), NEW c \in Requests, Cancel(c),
         NEW v \in Workers
  PROVE  QueueKept(v)'
<1> DEFINE w == WorkerOf[c]
           q == delayed[w]
<1>0. w \in Workers
  BY Constants
<1>1. PICK k \in DOMAIN q : q[k] = c /\ delayed' = [delayed EXCEPT ![w] = RemoveAt(q, k)]
  BY Zenon DEF Cancel
<1>2. /\ runAt' = runAt
      /\ \A r \in Requests : phase'[r] = "delayed" <=> phase[r] = "delayed" /\ r # c
  BY DEF Cancel, TypeOK
<1>3. q \in Seq(Requests) /\ Len(q) \in Nat /\ k \in 1..Len(q)
  BY <1>0, <1>1, Linkeds, LenProperties DEF QueueKept
<1>4. CASE v # w
  <2>1. delayed'[v] = delayed[v]
    BY <1>0, <1>1, <1>4 DEF TypeOK
  <2>2. \A r \in Requests : WorkerOf[r] = v =>
          /\ phase'[r] = "delayed" <=> phase[r] = "delayed"
          /\ phase[r] = "delayed" => runAt'[r] = runAt[r]
    BY <1>2, <1>4
  <2> QED
    BY <2>1, <2>2, QueueQuiet
<1>5. CASE v = w
  <2> DEFINE l == Len(q)
             m == l - 1
             F == [j \in 1..m |-> IF j < k THEN j ELSE j + 1]
             rest == RemoveAt(q, k)
  <2>1. /\ Len(rest) = m
        /\ \A j \in 1..k - 1 : rest[j] = q[j]
        /\ \A j \in k..m : rest[j] = q[j + 1]
    BY <1>3, RemovedElements
  <2>2. delayed'[w] = rest
    BY <1>0, <1>1 DEF TypeOK
  <2>3. l \in Nat /\ k \in Nat /\ 1 <= k /\ k <= l /\ m \in Nat
    BY <1>3
  <2>4. \A i, j \in 1..l : q[i] = q[j] => i = j
    BY <1>0 DEF QueueKept, Once
  <2>5. \A r \in Requests :
          WorkerOf[r] = w /\ phase[r] = "delayed" <=> \E i \in 1..l : q[i] = r
    BY <1>0, Zenon DEF QueueKept, Exactly
  <2> HIDE DEF l, rest, q, w
  <2>6. /\ \A j \in 1..m : F[j] = (IF j < k THEN j ELSE j + 1) /\ F[j] \in 1..l /\ F[j] # k
        /\ \A i, j \in 1..m : (i <= j => F[i] <= F[j]) /\ (F[i] = F[j] => i = j)
    BY <2>3
  <2>7. \A j \in 1..m : rest[j] = q[F[j]]
    <3> TAKE j \in 1..m
    <3>1. CASE j < k
      <4>1. j \in 1..k - 1 /\ F[j] = j
        BY <2>3, <2>6, <3>1
      <4> QED
        BY <2>1, <4>1
    <3>2. CASE ~(j < k)
      <4>1. j \in k..m /\ F[j] = j + 1
        BY <2>3, <2>6, <3>2
      <4> QED
        BY <2>1, <4>1
    <3> QED
      BY <3>1, <3>2
  <2>8. \A r \in Requests : WorkerOf[r] = w =>
          (phase'[r] = "delayed" <=> \E j \in 1..m : q[F[j]] = r)
    <3> SUFFICES ASSUME NEW r \in Requests, WorkerOf[r] = w
                 PROVE  phase'[r] = "delayed" <=> \E j \in 1..m : q[F[j]] = r
      OBVIOUS
    <3>1. ASSUME phase'[r] = "delayed" PROVE \E j \in 1..m : q[F[j]] = r
      <4>1. phase[r] = "delayed" /\ r # c
        BY <1>2, <3>1
      <4>2. PICK i \in 1..l : q[i] = r
        BY <2>5, <4>1
      <4>3. i # k
        BY <1>1, <4>1, <4>2
      <4> DEFINE j == IF i < k THEN i ELSE i - 1
      <4>4. j \in 1..m /\ i = IF j < k THEN j ELSE j + 1
        BY <2>3, <4>3
      <4> HIDE DEF j
      <4>5. F[j] = i
        BY <2>6, <4>4
      <4> QED
        BY <4>2, <4>4, <4>5, Zenon
    <3>2. ASSUME NEW j \in 1..m, q[F[j]] = r PROVE phase'[r] = "delayed"
      <4>1. F[j] \in 1..l /\ F[j] # k
        BY <2>6
      <4> HIDE DEF F
      <4>2. phase[r] = "delayed"
        BY <2>5, <3>2, <4>1
      <4>3. q[k] # r
        BY <1>3, <2>4, <3>2, <4>1 DEF l
      <4> QED
        BY <1>1, <1>2, <4>2, <4>3
    <3> QED
      BY <3>1, <3>2
  <2> HIDE DEF F, m
  <2>9. Thins(w, m, F)
    BY <2>1, <2>2, <2>6, <2>7, <2>8, Zenon DEF q, l, Thins
  <2> QED
    BY <1>0, <1>2, <1>5, <2>3, <2>9, QueueThinned
<1> QED
  BY <1>4, <1>5

(* reserve() that delays the transfer links it between those that run no   *)
(* later and those that run later; another transfer it leaves alone.       *)
LEMMA ReserveKeepsQueues ==
  ASSUME TypeOK, \A v \in Workers : QueueKept(v), NEW r \in Requests, Reserve(r),
         NEW v \in Workers
  PROVE  QueueKept(v)'
<1> DEFINE w == WorkerOf[r]
           q == delayed[w]
           at == SlotFor(HostOf[r], stamp[r])
<1>0. w \in Workers /\ HostOf[r] \in Hosts /\ at \in Nat
  <2>1. w \in Workers /\ HostOf[r] \in Hosts /\ stamp[r] \in Nat
    BY Constants DEF TypeOK
  <2> QED
    BY <2>1, SlotNat
<1>1. phase[r] = "throttle"
  BY DEF Reserve
<1>2. /\ \A p \in Requests \ {r} : phase'[p] = phase[p] /\ runAt'[p] = runAt[p]
      /\ \A u \in Workers \ {w} : delayed'[u] = delayed[u]
  BY DEF Reserve, TypeOK
<1>3. CASE v # w
  <2>1. delayed'[v] = delayed[v]
    BY <1>2, <1>3
  <2>2. \A p \in Requests : WorkerOf[p] = v =>
          /\ phase'[p] = "delayed" <=> phase[p] = "delayed"
          /\ phase[p] = "delayed" => runAt'[p] = runAt[p]
    BY <1>2, <1>3
  <2> QED
    BY <2>1, <2>2, QueueQuiet
<1>4. CASE v = w /\ ~(at > stamp[r])
  <2>1. delayed'[v] = delayed[v] /\ runAt' = runAt /\ phase'[r] = "sent"
    BY <1>4 DEF Reserve, TypeOK
  <2>2. \A p \in Requests : WorkerOf[p] = v =>
          /\ phase'[p] = "delayed" <=> phase[p] = "delayed"
          /\ phase[p] = "delayed" => runAt'[p] = runAt[p]
    BY <1>1, <1>2, <2>1
  <2> QED
    BY <2>1, <2>2, QueueQuiet
<1>5. CASE v = w /\ at > stamp[r]
  <2>1. /\ phase'[r] = "delayed" /\ runAt'[r] = at
        /\ \E k \in 0..Len(q) :
             Follows(q, k, at) /\ delayed' = [delayed EXCEPT ![w] = Linked(q, k, r)]
    BY <1>5 DEF Reserve, TypeOK
  <2>2. PICK k \in 0..Len(q) :
          Follows(q, k, at) /\ delayed' = [delayed EXCEPT ![w] = Linked(q, k, r)]
    BY <2>1
  <2> DEFINE n == Len(q)
             new == Linked(q, k, r)
  <2>3. /\ q \in Seq(Requests) /\ n \in Nat
        /\ \A i \in 1..n : /\ q[i] \in Requests /\ WorkerOf[q[i]] = w
                           /\ phase[q[i]] = "delayed" /\ runAt[q[i]] \in Nat
    BY <1>0, Linkeds DEF QueueKept
  <2>4. k \in Nat /\ k <= n
    BY <2>3
  <2>5. /\ Len(new) = n + 1 /\ new[k + 1] = r
        /\ \A j \in 1..k : new[j] = q[j]
        /\ \A j \in k + 1..n : new[j + 1] = q[j]
    <3>1. q \in Seq(Requests) /\ k \in 0..Len(q)
      BY <2>3
    <3> HIDE DEF q
    <3>2. /\ Len(Linked(q, k, r)) = Len(q) + 1
          /\ Linked(q, k, r)[k + 1] = r
          /\ \A j \in 1..k : Linked(q, k, r)[j] = q[j]
          /\ \A j \in k + 1..Len(q) : Linked(q, k, r)[j + 1] = q[j]
      BY <3>1, LinkedElements
    <3> QED
      BY <3>2, Zenon
  <2>6. delayed'[w] = new
    BY <1>0, <2>2 DEF TypeOK
  <2>7. /\ k > 0 => runAt[q[k]] <= at
        /\ \A i \in (k + 1)..n : runAt[q[i]] > at
    BY <2>2 DEF Follows
  <2>8. \A i, j \in 1..n : q[i] = q[j] => i = j
    BY <1>0 DEF QueueKept, Once
  <2>9. \A p \in Requests :
          WorkerOf[p] = w /\ phase[p] = "delayed" <=> \E i \in 1..n : q[i] = p
    BY <1>0, Zenon DEF QueueKept, Exactly
  <2>10. \A i, j \in 1..n : i <= j => runAt[q[i]] <= runAt[q[j]]
    BY <1>0 DEF QueueKept, Sorted
  <2>11. \A i \in 1..n : q[i] # r /\ runAt'[q[i]] = runAt[q[i]]
    BY <1>1, <1>2, <2>3
  <2>12. \A i \in 1..k : runAt[q[i]] <= at
    <3> TAKE i \in 1..k
    <3>1. k > 0 /\ i \in 1..n /\ k \in 1..n /\ i <= k
      BY <2>4
    <3> QED
      BY <1>0, <2>3, <2>7, <2>10, <3>1
  <2> HIDE DEF q, n, new, at, w
  <2> DEFINE Old(i) == IF i <= k THEN i ELSE i - 1
             others == (1..n + 1) \ {k + 1}
  <2>13. \A i \in others : Old(i) \in 1..n /\ new[i] = q[Old(i)]
    <3> SUFFICES ASSUME NEW i \in others PROVE Old(i) \in 1..n /\ new[i] = q[Old(i)]
      OBVIOUS
    <3>1. CASE i <= k
      BY <2>3, <2>4, <2>5, <3>1
    <3>2. CASE ~(i <= k)
      <4>1. i - 1 \in k + 1..n /\ (i - 1) + 1 = i /\ i - 1 \in 1..n
        BY <2>3, <2>4, <3>2
      <4>2. new[(i - 1) + 1] = q[i - 1]
        BY <2>5, <4>1
      <4> QED
        BY <3>2, <4>1, <4>2
    <3> QED
      BY <3>1, <3>2
  <2>14. \A i, j \in others : (i <= j => Old(i) <= Old(j)) /\ (Old(i) = Old(j) => i = j)
    BY <2>3, <2>4
  <2>15. \A i \in others : (i < k + 1 => Old(i) \in 1..k) /\ (i > k + 1 => Old(i) \in k + 1..n)
    BY <2>3, <2>4
  <2>16. k + 1 \in 1..n + 1
    BY <2>3, <2>4
  <2> HIDE DEF Old
  <2>17. Once(w)'
    <3>1. \A i, j \in 1..n + 1 : new[i] = new[j] => i = j
      <4> SUFFICES ASSUME NEW i \in 1..n + 1, NEW j \in 1..n + 1, new[i] = new[j] PROVE i = j
        OBVIOUS
      <4>1. CASE i \in others /\ j \in others
        <5>1. q[Old(i)] = q[Old(j)] /\ Old(i) \in 1..n /\ Old(j) \in 1..n
          BY <2>13, <4>1
        <5>2. Old(i) = Old(j)
          BY <2>8, <5>1
        <5> QED
          BY <2>14, <4>1, <5>2
      <4>2. CASE i = k + 1 /\ j \in others
        BY <2>5, <2>11, <2>13, <4>2
      <4>3. CASE j = k + 1 /\ i \in others
        BY <2>5, <2>11, <2>13, <4>3
      <4> QED
        BY <4>1, <4>2, <4>3
    <3> QED
      BY <2>5, <2>6, <3>1 DEF Once
  <2>18. Exactly(w)'
    <3>1. \A p \in Requests :
            WorkerOf[p] = w /\ phase'[p] = "delayed" <=> \E i \in 1..n + 1 : new[i] = p
      <4> SUFFICES ASSUME NEW p \in Requests
                   PROVE  WorkerOf[p] = w /\ phase'[p] = "delayed" <=>
                            \E i \in 1..n + 1 : new[i] = p
        OBVIOUS
      <4>1. CASE p = r
        <5>1. WorkerOf[p] = w /\ phase'[p] = "delayed"
          BY <2>1, <4>1 DEF w
        <5> QED
          BY <2>5, <2>16, <4>1, <5>1
      <4>2. CASE p # r
        <5>1. WorkerOf[p] = w /\ phase'[p] = "delayed" <=> \E i \in 1..n : q[i] = p
          BY <1>2, <2>9, <4>2
        <5>2. ASSUME NEW i \in 1..n + 1, new[i] = p PROVE \E j \in 1..n : q[j] = p
          <6>1. i \in others
            BY <2>5, <4>2, <5>2
          <6> QED
            BY <2>13, <5>2, <6>1
        <5>3. ASSUME NEW i \in 1..n, q[i] = p PROVE \E j \in 1..n + 1 : new[j] = p
          <6>1. CASE i <= k
            <7>1. i \in 1..k /\ i \in 1..n + 1
              BY <2>3, <2>4, <6>1
            <7> QED
              BY <2>5, <5>3, <7>1
          <6>2. CASE ~(i <= k)
            <7>1. i \in k + 1..n /\ i + 1 \in 1..n + 1
              BY <2>3, <2>4, <6>2
            <7> QED
              BY <2>5, <5>3, <7>1
          <6> QED
            BY <6>1, <6>2
        <5> QED
          BY <5>1, <5>2, <5>3
      <4> QED
        BY <4>1, <4>2
    <3> QED
      BY <2>5, <2>6, <3>1 DEF Exactly
  <2>19. Sorted(w)'
    <3>1. \A i, j \in 1..n + 1 : i <= j => runAt'[new[i]] <= runAt'[new[j]]
      <4> SUFFICES ASSUME NEW i \in 1..n + 1, NEW j \in 1..n + 1, i <= j
                   PROVE  runAt'[new[i]] <= runAt'[new[j]]
        OBVIOUS
      <4>1. CASE i = k + 1 /\ j = k + 1
        BY <1>0, <2>1, <2>5, <4>1
      <4>2. CASE i \in others /\ j \in others
        <5>1. /\ new[i] = q[Old(i)] /\ Old(i) \in 1..n
              /\ new[j] = q[Old(j)] /\ Old(j) \in 1..n /\ Old(i) <= Old(j)
          BY <2>13, <2>14, <4>2
        <5>2. runAt[q[Old(i)]] <= runAt[q[Old(j)]]
          BY <2>10, <5>1
        <5> QED
          BY <2>11, <5>1, <5>2
      <4>3. CASE i = k + 1 /\ j \in others
        <5>1. j > k + 1 /\ new[j] = q[Old(j)] /\ Old(j) \in 1..n
          BY <2>3, <2>4, <2>13, <4>3
        <5>2. Old(j) \in k + 1..n
          BY <2>15, <4>3, <5>1
        <5>3. runAt[q[Old(j)]] > at /\ runAt[q[Old(j)]] \in Nat
          BY <2>3, <2>7, <5>1, <5>2
        <5> QED
          BY <1>0, <2>1, <2>5, <2>11, <4>3, <5>1, <5>3
      <4>4. CASE i \in others /\ j = k + 1
        <5>0. i < k + 1
          BY <2>3, <2>4, <4>4
        <5>1. i < k + 1 /\ new[i] = q[Old(i)] /\ Old(i) \in 1..n
          BY <2>13, <4>4, <5>0, Zenon
        <5>2. runAt[q[Old(i)]] <= at
          BY <2>12, <2>15, <4>4, <5>1
        <5> QED
          BY <2>1, <2>5, <2>11, <4>4, <5>1, <5>2
      <4> QED
        BY <4>1, <4>2, <4>3, <4>4
    <3> QED
      BY <2>5, <2>6, <3>1 DEF Sorted
  <2> QED
    BY <1>5, <2>17, <2>18, <2>19 DEF QueueKept
<1> QED
  BY <1>3, <1>4, <1>5

(* Every step keeps every queue.                                           *)
LEMMA QueueStep ==
  ASSUME TypeOK, \A v \in Workers : QueueKept(v), [Next]_vars
  PROVE  \A v \in Workers : QueueKept(v)'
<1> SUFFICES ASSUME NEW v \in Workers PROVE QueueKept(v)'
  OBVIOUS
<1>1. ASSUME delayed' = delayed, runAt' = runAt,
             \A r \in Requests : phase'[r] = "delayed" <=> phase[r] = "delayed"
      PROVE  QueueKept(v)'
  BY <1>1, QueueQuiet
<1>2. CASE UNCHANGED vars
  BY <1>1, <1>2 DEF vars
<1>3. CASE Tick
  BY <1>1, <1>3 DEF Tick
<1>4. ASSUME NEW r \in Requests, ReadClock(r) PROVE QueueKept(v)'
  BY <1>1, <1>4 DEF ReadClock, TypeOK
<1>5. ASSUME NEW r \in Requests, Reserve(r) PROVE QueueKept(v)'
  BY <1>5, ReserveKeepsQueues
<1>6. ASSUME NEW r \in Requests, ReserveFails(r) PROVE QueueKept(v)'
  BY <1>1, <1>6 DEF ReserveFails, TypeOK
<1>7. ASSUME NEW r \in Requests, Cancel(r) PROVE QueueKept(v)'
  BY <1>7, CancelKeepsQueues
<1>8. ASSUME NEW w \in Workers, StartDelayed(w) PROVE QueueKept(v)'
  BY <1>8, StartKeepsQueues
<1> QED
  BY <1>2, <1>3, <1>4, <1>5, <1>6, <1>7, <1>8 DEF Next, Idle

(* The delayed queues of every number of workers: each transfer that waits *)
(* is linked once in the queue of its own worker (HttpClient.delay,        *)
(* Transfer.deinit), and no poll ends after any of them is due             *)
(* (HttpClient.clampToDelayed looks at the head only).                     *)
THEOREM QueuesNeverOversleep == Spec => []DelayedQueue
<1> DEFINE QInv == \A w \in Workers : QueueKept(w)
<1>1. Init => QInv
  <2> SUFFICES ASSUME Init, NEW w \in Workers PROVE QueueKept(w)
    OBVIOUS
  <2>1. Len(delayed[w]) = 0 /\ \A r \in Requests : phase[r] = "new"
    BY DEF Init
  <2> QED
    BY <2>1 DEF QueueKept, Once, Exactly, Sorted
<1>2. TypeOK /\ QInv /\ [Next]_vars => QInv'
  BY QueueStep
<1>3. TypeOK /\ QInv => DelayedQueue
  <2> SUFFICES ASSUME TypeOK, QInv, NEW w \in Workers
               PROVE  /\ IsInjective(delayed[w])
                      /\ Range(delayed[w]) =
                           {r \in Requests : WorkerOf[r] = w /\ phase[r] = "delayed"}
                      /\ \A timeout \in Timeouts : \A r \in Range(delayed[w]) :
                           clock + PollFor(w, timeout) <= Later(runAt[r], clock)
    BY DEF DelayedQueue, QueueExact, NoOversleep
  <2> DEFINE q == delayed[w]
  <2>1. /\ q \in Seq(Requests) /\ Len(q) \in Nat /\ DOMAIN q = 1..Len(q)
        /\ \A i \in 1..Len(q) :
             /\ q[i] \in Requests
             /\ WorkerOf[q[i]] = w /\ phase[q[i]] = "delayed" /\ runAt[q[i]] \in Nat
    BY Linkeds, LenProperties DEF QueueKept
  <2>2. IsInjective(q)
    BY <2>1, Zenon DEF QueueKept, Once, IsInjective
  <2>3. Range(q) = {r \in Requests : WorkerOf[r] = w /\ phase[r] = "delayed"}
    <3>1. \A r \in Requests :
            WorkerOf[r] = w /\ phase[r] = "delayed" <=> \E i \in 1..Len(q) : q[i] = r
      BY Zenon DEF QueueKept, Exactly
    <3>2. \A r : r \in Range(q) <=> \E i \in 1..Len(q) : q[i] = r
      BY <2>1 DEF Range
    <3> QED
      BY <2>1, <3>1, <3>2
  <2>4. ASSUME NEW timeout \in Timeouts, NEW r \in Range(q)
        PROVE  clock + PollFor(w, timeout) <= Later(runAt[r], clock)
    <3>1. PICK i \in 1..Len(q) : q[i] = r
      BY <2>1, <2>4 DEF Range
    <3>2. q # <<>> /\ Head(q) = q[1] /\ 1 \in 1..Len(q) /\ 1 <= i
      BY <2>1, <3>1
    <3>3. runAt[q[1]] <= runAt[r] /\ runAt[q[1]] \in Nat /\ runAt[r] \in Nat
      BY <2>1, <3>1, <3>2 DEF QueueKept, Sorted
    <3>4. clock \in Nat /\ timeout \in Nat
      BY Constants DEF TypeOK
    <3> DEFINE at == runAt[q[1]]
    <3>5. PollFor(w, timeout) =
            IF at <= clock THEN 0
            ELSE IF timeout < at - clock THEN timeout ELSE at - clock
      BY <3>2, Zenon DEF PollFor
    <3> HIDE DEF at
    <3>6. at <= runAt[r] /\ at \in Nat
      BY <3>3 DEF at
    <3> QED
      BY <3>3, <3>4, <3>5, <3>6 DEF Later
  <2> QED
    BY <2>2, <2>3, <2>4
<1> QED
  BY <1>1, <1>2, <1>3, TypeCorrect, PTL DEF Spec

=============================================================================
